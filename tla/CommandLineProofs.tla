-------------------------- MODULE CommandLineProofs --------------------------
(***************************************************************************)
(* The command line and the daemons beside it.                             *)
(*                                                                         *)
(* First an upgrade, for any number of daemons, commands, libexec members  *)
(* and faults: one that ends leaves one version.                           *)
(*                                                                         *)
(* Then the commands that delete things, for any number of commands,       *)
(* sessions and pairings, anything a user may type, and any number of      *)
(* timeouts, restarts and changes by others.                               *)
(*                                                                         *)
(* Last the shell's start-up file, for any sequence of installs, forced    *)
(* installs, uninstalls and edits by the user.                             *)
(***************************************************************************)
EXTENDS Upgrade, Commands, FiniteSetTheorems, SequenceTheorems, WellFoundedInduction, TLAPS

-----------------------------------------------------------------------------
(* The swap.  Until something is replaced the backups are copies of what   *)
(* was installed; once something is, every member that was installed has   *)
(* one, and a roll-back has restored or has still to restore each of them. *)

Targets == {"tp"} \cup Libexec
Contents == {"old", "new", "bad", "torn", "none"}

\* The members that were there before the upgrade.
Original == IF Bundle THEN Targets \ Added ELSE {"tp"}

FileTypeOK ==
    /\ up \in {"idle", "skipped", "found", "downloaded", "checked", "extracted", "backup", "swap",
               "clean", "roll", "restart", "failed", "dead", "done", "killed", "restarted"}
    /\ asset \in {"none", "good", "bad"}
    /\ sums \in BOOLEAN
    /\ todo \subseteq Members
    /\ file \in [Targets -> Contents]
    /\ bak \in [Targets -> {"none", "old"}]
    /\ broken \in BOOLEAN

Fetched == {"checked", "extracted", "backup", "swap", "clean", "restart"}

SwapInv ==
    /\ FileTypeOK
    /\ sums => up \notin {"idle", "skipped", "found", "downloaded"}
    /\ sums /\ up \in Fetched => asset = "good"
    /\ up \in {"idle", "found", "downloaded", "checked", "extracted", "backup"} =>
         \A m \in Targets : file[m] = IF m \in Original THEN "old" ELSE "none"
    /\ up \in {"idle", "found", "downloaded", "checked", "extracted"} =>
         \A m \in Targets : bak[m] = "none"
    /\ up = "backup" => \A m \in Original : m \in todo \/ bak[m] = "old"
    /\ up = "swap" => \A m \in Original : bak[m] = "old"
    /\ up = "swap" => \A m \in Members : m \in todo \/ file[m] = Shipped
    /\ up \in {"clean", "restart"} => \A m \in Members : file[m] = Shipped
    /\ up = "roll" => \/ broken
                      \/ \A m \in Original : file[m] = "old" \/ (m \in todo /\ bak[m] = "old")
    /\ up = "roll" => \A m \in todo : bak[m] = "old"
    /\ up = "failed" => broken \/ \A m \in Original : file[m] = "old"
    /\ \A m \in Targets : bak[m] # "none" => m \in Original
    /\ \A m \in Targets \ Members : file[m] = "none"

\* What a bundle is decides what its members are.
LEMMA SameShape ==
    ASSUME Bundle' <=> Bundle
    PROVE  Members' = Members /\ Original' = Original
BY DEF Members, Original

LEMMA SameFiles ==
    ASSUME UNCHANGED file
    PROVE  /\ Members' = Members /\ Original' = Original
           /\ Bundle' <=> Bundle
<1>1. Bundle' <=> Bundle
  BY DEF Bundle
<1> QED
  BY <1>1, SameShape

LEMMA TargetFacts ==
    /\ "tp" \in Targets /\ "tp" \notin Libexec
    /\ "tp" \in Original /\ "tp" \in Members
    /\ Original \subseteq Members /\ Members \subseteq Targets
    /\ ~Bundle => Members = {"tp"}
    /\ Members \ Original \subseteq Added
    /\ Original \cap Added = {}
BY UpgradeAssumption DEF Targets, Original, Members

\* A sentinel decides what a bundle is, and none disappears: a step that treats one
\* member, and perhaps tp with it, leaves the installation the shape it had.
LEMMA OneMemberKeepsShape ==
    ASSUME NEW m \in Members,
           \A x \in Targets \ {m, "tp"} : file'[x] = file[x],
           file[m] # "none" => file'[m] # "none"
    PROVE  Bundle' <=> Bundle
<1>1. CASE Bundle
  <2>1. PICK x \in Sentinels \cap Libexec : file[x] # "none"
    BY <1>1 DEF Bundle
  <2>2. file'[x] # "none"
    BY <2>1, TargetFacts DEF Targets
  <2> QED
    BY <1>1, <2>2 DEF Bundle
<1>2. CASE ~Bundle
  <2>1. \A x \in Sentinels \cap Libexec : file'[x] = file[x]
    BY <1>2, TargetFacts DEF Targets
  <2> QED
    BY <1>2, <2>1 DEF Bundle
<1> QED
  BY <1>1, <1>2

\* Steps that change no file and no backup.
LEMMA FetchingKeepsSwap ==
    ASSUME SwapInv, Fetching
    PROVE  SwapInv'
<1> USE DEF SwapInv, FileTypeOK, Fetched
<1>1. UNCHANGED <<file, bak, todo, broken>>
  BY DEF Fetching, NoNewerRelease, HomebrewSkips, GetLatestRelease, DownloadToFile,
         DownloadChecksums, FetchFails, GiveUp
<1>2. Members' = Members /\ Original' = Original
  BY <1>1, SameFiles
<1>3. CASE NoNewerRelease \/ HomebrewSkips \/ GetLatestRelease
  BY <1>1, <1>2, <1>3 DEF NoNewerRelease, HomebrewSkips, GetLatestRelease, UpGoes
<1>4. CASE DownloadToFile
  BY <1>1, <1>2, <1>4 DEF DownloadToFile, UpGoes
<1>5. CASE DownloadChecksums
  BY <1>1, <1>2, <1>5 DEF DownloadChecksums, UpGoes, HashMatches
<1>6. ASSUME NEW from \in {"found", "downloaded", "checked", "extracted"}, GiveUp(from)
      PROVE  SwapInv'
  BY <1>1, <1>2, <1>6, TargetFacts DEF GiveUp, UpGoes
<1> QED
  BY <1>3, <1>4, <1>5, <1>6 DEF Fetching, FetchFails

\* A roll-back begins: whatever was replaced has a backup, and is in todo.
LEMMA RollBackKeepsSwap ==
    ASSUME SwapInv, RollBack(bak'), UNCHANGED <<asset, sums, broken>>,
           file' \in [Targets -> Contents], bak' \in [Targets -> {"none", "old"}],
           Bundle' <=> Bundle,
           \A m \in Original : file'[m] = "old" \/ bak'[m] = "old",
           \A m \in Targets : bak'[m] # "none" => bak[m] # "none",
           \A m \in Targets \ Members : file'[m] = file[m]
    PROVE  SwapInv'
<1>1. Members' = Members /\ Original' = Original
  BY SameShape
<1>2. up' = "roll" /\ todo' = {m \in Targets : bak'[m] # "none"}
  BY DEF RollBack, Targets
<1>3. todo' \subseteq Members
  BY <1>2, TargetFacts DEF SwapInv
<1> QED
  BY <1>1, <1>2, <1>3, TargetFacts DEF SwapInv, FileTypeOK, Fetched

LEMMA BackupKeepsSwap ==
    ASSUME SwapInv, NEW m \in Members, BackupFile(m)
    PROVE  SwapInv'
<1>1. up = "backup" /\ m \in todo /\ UNCHANGED <<asset, sums, file, broken>>
  BY DEF BackupFile, First
<1>2. Members' = Members /\ Original' = Original
  BY <1>1, SameFiles
<1>3. CASE bak' = [bak EXCEPT ![m] = file[m]] /\ todo' = todo \ {m} /\ up' = up
  <2>1. file[m] = IF m \in Original THEN "old" ELSE "none"
    BY <1>1, TargetFacts DEF SwapInv
  <2>2. bak' \in [Targets -> {"none", "old"}]
    BY <1>3, <2>1, TargetFacts DEF SwapInv, FileTypeOK
  <2>3. \A x \in Original : x \in todo' \/ bak'[x] = "old"
    BY <1>1, <1>3, <2>1, TargetFacts DEF SwapInv, FileTypeOK
  <2>4. \A x \in Targets : bak'[x] # "none" => x \in Original
    BY <1>3, <2>1, TargetFacts DEF SwapInv, FileTypeOK
  <2> QED
    BY <1>1, <1>2, <1>3, <2>2, <2>3, <2>4 DEF SwapInv, FileTypeOK, Fetched
<1>4. CASE bak' = bak /\ RollBack(bak)
  <2>1. \A x \in Original : file'[x] = "old"
    BY <1>1, TargetFacts DEF SwapInv
  <2> QED
    BY <1>1, <1>4, <2>1, SameFiles, RollBackKeepsSwap DEF SwapInv, FileTypeOK
<1> QED
  BY <1>3, <1>4 DEF BackupFile

LEMMA SwapKeepsSwap ==
    ASSUME SwapInv, NEW m \in Members, SwapFile(m) \/ SwapFails(m)
    PROVE  SwapInv'
<1>1. up = "swap" /\ m \in todo /\ m \in Targets /\ UNCHANGED <<asset, sums, broken>>
  BY TargetFacts DEF SwapFile, SwapFails, First
<1>2. Shipped \in {"new", "bad"}
  BY DEF Shipped
<1>4. CASE SwapFile(m)
  <2>1. /\ file' = [file EXCEPT ![m] = Shipped]
        /\ todo' = todo \ {m}
        /\ UNCHANGED <<up, bak>>
    BY <1>4 DEF SwapFile
  <2>2. Members' = Members /\ Original' = Original /\ Shipped' = Shipped
    <3>1. /\ \A x \in Targets \ {m, "tp"} : file'[x] = file[x]
          /\ file'[m] # "none"
      BY <1>1, <1>2, <2>1 DEF SwapInv, FileTypeOK
    <3>2. Bundle' <=> Bundle
      BY <3>1, OneMemberKeepsShape
    <3> QED
      BY <1>1, <3>2, SameShape DEF Shipped
  <2>3. file' \in [Targets -> Contents]
    BY <1>1, <1>2, <2>1 DEF SwapInv, FileTypeOK, Contents
  <2>4. \A x \in Members : x \in todo' \/ file'[x] = Shipped
    BY <1>1, <2>1, TargetFacts DEF SwapInv, FileTypeOK
  <2>5. \A x \in Targets \ Members : file'[x] = "none"
    BY <1>1, <2>1 DEF SwapInv, FileTypeOK
  <2> QED
    BY <1>1, <2>1, <2>2, <2>3, <2>4, <2>5 DEF SwapInv, FileTypeOK, Fetched
<1>5. CASE SwapFails(m)
  <2>1. PICK r \in NotReplaced(m) :
          \/ /\ m # "tp"
             /\ file' = [file EXCEPT ![m] = r, !["tp"] = bak["tp"]]
             /\ bak' = [bak EXCEPT !["tp"] = "none"]
             /\ RollBack(bak')
          \/ /\ file' = [file EXCEPT ![m] = r]
             /\ bak' = bak
             /\ RollBack(bak)
    BY <1>5 DEF SwapFails
  <2>2. r \in Contents /\ (file[m] # "none" => r # "none")
    BY <1>1, <1>2 DEF NotReplaced, SwapInv, FileTypeOK, Contents
  <2>3. \A x \in Original : bak[x] = "old"
    BY <1>1 DEF SwapInv
  <2>4. CASE /\ m # "tp"
             /\ file' = [file EXCEPT ![m] = r, !["tp"] = bak["tp"]]
             /\ bak' = [bak EXCEPT !["tp"] = "none"]
             /\ RollBack(bak')
    <3>1. file' \in [Targets -> Contents] /\ bak' \in [Targets -> {"none", "old"}]
      BY <1>1, <2>2, <2>3, <2>4, TargetFacts DEF SwapInv, FileTypeOK, Contents
    <3>2. Bundle' <=> Bundle
      <4>1. /\ \A x \in Targets \ {m, "tp"} : file'[x] = file[x]
            /\ file[m] # "none" => file'[m] # "none"
        BY <1>1, <2>2, <2>4, TargetFacts DEF SwapInv, FileTypeOK
      <4> QED
        BY <4>1, OneMemberKeepsShape
    <3>3. \A x \in Original : file'[x] = "old" \/ bak'[x] = "old"
      BY <1>1, <2>3, <2>4, TargetFacts DEF SwapInv, FileTypeOK
    <3>4. \A x \in Targets : bak'[x] # "none" => bak[x] # "none"
      BY <2>4 DEF SwapInv, FileTypeOK
    <3>5. \A x \in Targets \ Members : file'[x] = file[x]
      BY <1>1, <2>4, TargetFacts DEF SwapInv, FileTypeOK
    <3> QED
      BY <1>1, <2>4, <3>1, <3>2, <3>3, <3>4, <3>5, RollBackKeepsSwap
  <2>5. CASE /\ file' = [file EXCEPT ![m] = r]
             /\ bak' = bak
             /\ RollBack(bak)
    <3>1. file' \in [Targets -> Contents] /\ bak' \in [Targets -> {"none", "old"}]
      BY <1>1, <2>2, <2>5 DEF SwapInv, FileTypeOK
    <3>2. Bundle' <=> Bundle
      <4>1. /\ \A x \in Targets \ {m, "tp"} : file'[x] = file[x]
            /\ file[m] # "none" => file'[m] # "none"
        BY <1>1, <2>2, <2>5, TargetFacts DEF SwapInv, FileTypeOK
      <4> QED
        BY <4>1, OneMemberKeepsShape
    <3>3. \A x \in Targets \ Members : file'[x] = file[x]
      BY <1>1, <2>5 DEF SwapInv, FileTypeOK
    <3>4. \A x \in Original : bak'[x] = "old"
      BY <2>3, <2>5
    <3>5. RollBack(bak')
      BY <2>5
    <3>6. \A x \in Targets : bak'[x] # "none" => bak[x] # "none"
      BY <2>5
    <3> QED
      BY <1>1, <3>1, <3>2, <3>3, <3>4, <3>5, <3>6, RollBackKeepsSwap
  <2> QED
    BY <2>1, <2>4, <2>5
<1> QED
  BY <1>4, <1>5

LEMMA RestoreKeepsSwap ==
    ASSUME SwapInv, NEW m \in Members, RestoreBinary(m)
    PROVE  SwapInv'
<1>1. up = "roll" /\ m \in todo /\ m \in Targets /\ todo' = todo \ {m}
  BY TargetFacts DEF RestoreBinary, First
<1>2. UNCHANGED <<asset, sums, up>>
  BY DEF RestoreBinary
<1>3. CASE /\ file' = [file EXCEPT ![m] = bak[m]]
           /\ bak' = [bak EXCEPT ![m] = "none"]
           /\ UNCHANGED broken
  <2>1. bak[m] = "old" /\ m \in Original
    BY <1>1 DEF SwapInv
  <2>2. /\ file' \in [Targets -> Contents] /\ bak' \in [Targets -> {"none", "old"}]
        /\ file'[m] = "old"
        /\ \A x \in Targets \ {m} : file'[x] = file[x] /\ bak'[x] = bak[x]
    BY <1>1, <1>3, <2>1 DEF SwapInv, FileTypeOK, Contents
  <2>3. Bundle' <=> Bundle
    BY <2>2, OneMemberKeepsShape
  <2>4. Members' = Members /\ Original' = Original
    BY <2>3, SameShape
  <2>5. broken \/ \A x \in Original : file'[x] = "old" \/ (x \in todo' /\ bak'[x] = "old")
    BY <1>1, <2>2, TargetFacts DEF SwapInv
  <2>6. \A x \in todo' : bak'[x] = "old"
    BY <1>1, <2>2, TargetFacts DEF SwapInv, FileTypeOK
  <2>7. \A x \in Targets : bak'[x] # "none" => x \in Original
    BY <2>1, <2>2 DEF SwapInv
  <2>8. \A x \in Targets \ Members : file'[x] = "none"
    BY <2>2 DEF SwapInv
  <2> QED
    BY <1>1, <1>2, <1>3, <2>2, <2>4, <2>5, <2>6, <2>7, <2>8 DEF SwapInv, FileTypeOK, Fetched
<1>4. CASE broken' = TRUE /\ UNCHANGED <<file, bak>>
  <2>1. Members' = Members /\ Original' = Original
    BY <1>4, SameFiles
  <2> QED
    BY <1>1, <1>2, <1>4, <2>1 DEF SwapInv, FileTypeOK, Fetched
<1> QED
  BY <1>3, <1>4 DEF RestoreBinary

\* The steps between the members.
LEMMA PhasesKeepSwap ==
    ASSUME SwapInv, \/ ExtractBundleTarball \/ PrepareBackups \/ BackedUp \/ Verify \/ CleanupBackups
                    \/ RolledBack
    PROVE  SwapInv'
<1>1. UNCHANGED <<asset, sums, file, broken>>
  BY DEF ExtractBundleTarball, PrepareBackups, BackedUp, Verify, CleanupBackups, RolledBack
<1>2. Members' = Members /\ Original' = Original /\ Shipped' = Shipped
  BY <1>1, SameFiles DEF Shipped
<1>3. CASE ExtractBundleTarball
  BY <1>1, <1>2, <1>3 DEF ExtractBundleTarball, UpGoes, SwapInv, FileTypeOK, Fetched
<1>4. CASE PrepareBackups
  <2>1. up = "extracted" /\ up' = "backup" /\ todo' = Installed /\ bak' = bak
    BY <1>4 DEF PrepareBackups, UpGoes
  <2>2. Original \subseteq Installed /\ Installed \subseteq Members
    BY <2>1, TargetFacts DEF Installed, SwapInv
  <2> QED
    BY <1>1, <1>2, <2>1, <2>2 DEF SwapInv, FileTypeOK, Fetched
<1>5. CASE BackedUp
  BY <1>1, <1>2, <1>5 DEF BackedUp, SwapInv, FileTypeOK, Fetched
<1>6. CASE Verify
  <2>1. up = "swap" /\ todo = {} /\ bak' = bak
    BY <1>6 DEF Verify
  <2>2. CASE up' = "clean" /\ UNCHANGED todo
    BY <1>1, <1>2, <2>1, <2>2 DEF SwapInv, FileTypeOK, Fetched
  <2>3. CASE RollBack(bak)
    BY <1>1, <2>1, <2>3, SameFiles, RollBackKeepsSwap DEF SwapInv, FileTypeOK
  <2> QED
    BY <1>6, <2>2, <2>3 DEF Verify
<1>7. CASE CleanupBackups
  BY <1>1, <1>2, <1>7 DEF CleanupBackups, SwapInv, FileTypeOK, Fetched, Targets
<1>8. CASE RolledBack
  BY <1>1, <1>2, <1>8 DEF RolledBack, SwapInv, FileTypeOK, Fetched
<1> QED
  BY <1>3, <1>4, <1>5, <1>6, <1>7, <1>8

\* The restart, and the end of the upgrade's own process.
LEMMA RestartKeepsSwap ==
    ASSUME SwapInv, RestartDaemon \/ Kickstarted \/ UpgradeDies
    PROVE  SwapInv'
<1>1. UNCHANGED <<file, bak, todo, broken>>
  BY DEF RestartDaemon, Kickstarted, UpgradeDies
<1>2. Members' = Members /\ Original' = Original
  BY <1>1, SameFiles
<1>3. /\ up' \in {"done", "killed", "restarted", "dead"}
      /\ asset' \in {"none", asset}
      /\ sums' \in {FALSE, sums}
  BY DEF RestartDaemon, Kickstarted, UpgradeDies
<1> QED
  BY <1>1, <1>2, <1>3 DEF SwapInv, FileTypeOK, Fetched

LEMMA UntouchedKeepsSwap ==
    ASSUME SwapInv, UNCHANGED upVars
    PROVE  SwapInv'
<1>1. UNCHANGED <<up, asset, sums, todo, file, bak, broken>>
  BY DEF upVars
<1>2. Members' = Members /\ Original' = Original /\ Shipped' = Shipped
  BY <1>1, SameFiles DEF Shipped
<1> QED
  BY <1>1, <1>2 DEF SwapInv, FileTypeOK

LEMMA SwapInvStep == SwapInv /\ [Next]_vars => SwapInv'
<1> SUFFICES ASSUME SwapInv, [Next]_vars PROVE SwapInv'
  OBVIOUS
<1>1. ASSUME NEW M, M \subseteq Members, Swapping(M)
      PROVE  SwapInv'
  BY <1>1, PhasesKeepSwap, RestartKeepsSwap, BackupKeepsSwap, SwapKeepsSwap, RestoreKeepsSwap
     DEF Swapping
<1>2. CASE UpgradeTpBundle
  <2>1. Members = {"tp"} \cup Libexec
    BY <1>2 DEF UpgradeTpBundle, Members
  <2> QED
    BY <1>1, <1>2, <2>1, PhasesKeepSwap DEF UpgradeTpBundle
<1>3. CASE UpgradeTpSingleBinary
  BY <1>1, <1>3, TargetFacts DEF UpgradeTpSingleBinary
<1>4. CASE UNCHANGED upVars
  BY <1>4, UntouchedKeepsSwap
<1>5. CASE Fetching \/ Kickstarted \/ UpgradeDies
  BY <1>5, FetchingKeepsSwap, RestartKeepsSwap
<1> QED
  BY <1>2, <1>3, <1>4, <1>5 DEF Next, Beside, UpgradeStep, vars

LEMMA SwapInvInit == Init => SwapInv
<1> SUFFICES ASSUME Init PROVE SwapInv
  OBVIOUS
<1>1. PICK bundle \in BOOLEAN :
        file = [m \in Targets |-> IF m = "tp" \/ (bundle /\ m \notin Added) THEN "old" ELSE "none"]
  BY DEF Init, Targets
<1>2. /\ up = "idle" /\ asset = "none" /\ sums = FALSE /\ todo = {} /\ broken = FALSE
      /\ bak = [m \in Targets |-> "none"]
  BY DEF Init, Targets
<1>3. Bundle <=> bundle
  <2>1. PICK x : x \in Sentinels \cap Libexec /\ x \notin Added
    BY UpgradeAssumption
  <2>2. \A y \in Sentinels \cap Libexec : y \in Targets /\ y # "tp"
    BY TargetFacts DEF Targets
  <2> QED
    BY <1>1, <2>1, <2>2 DEF Bundle
<1>4. \A m \in Targets : file[m] = IF m \in Original THEN "old" ELSE "none"
  BY <1>1, <1>3, UpgradeAssumption DEF Original
<1>5. \A m \in Targets \ Members : m \notin Original
  BY TargetFacts
<1>6. FileTypeOK
  BY <1>1, <1>2 DEF FileTypeOK, Contents
<1> QED
  BY <1>2, <1>4, <1>5, <1>6 DEF SwapInv, Fetched

\* Wherever a backup, a swap, the verification or the upgrade itself fails, and
\* however many members there are: an upgrade that reaches its restart has installed
\* one version everywhere, undamaged if there was a checksum to compare it with, and
\* one that failed has put back everything that was there, unless restoring failed too.
THEOREM UpgradeIsAllOrNothing == Spec => []AllOrNothing
<1>1. SwapInv => AllOrNothing
  BY TargetFacts DEF SwapInv, Fetched, AllOrNothing, Shipped, Original, Members, Targets
<1> QED
  BY <1>1, SwapInvInit, SwapInvStep, PTL DEF Spec


-----------------------------------------------------------------------------
(* The commands (Commands): the state of a command and of its requests.     *)
DeleteReqs == [t : {"session.delete"}, sid : Sids]
PruneReqs == [t : {"session.prune"}, all : BOOLEAN, running : BOOLEAN, dry : BOOLEAN]
PairReqs == [t : {"pair.remove"}, did : Dids]
            \cup [t : {"pair.rename"}, did : Dids, label : Labels \cup {NoLabel}]
Requests == DeleteReqs \cup PruneReqs \cup PairReqs

CmdSteps == {"idle", "tui", "ask", "challenge", "check", "send", "wait", "end"}
Ops == {"none", "delete", "prune", "cleanup", "pairDelete", "pairRename", "completions"}
CmdRecs == [pc : CmdSteps, op : Ops, yes : BOOLEAN, want : Typed \cup {<< >>},
            all : BOOLEAN, running : BOOLEAN, dry : BOOLEAN,
            shown : Seq(Sids \cup Dids), sel : SUBSET Nat, cursor : Nat, tries : Nat,
            todo : Seq(Requests), done : SUBSET Sids, ok : BOOLEAN]

JobSteps == {"sent", "erase", "apply", "notify", "answered", "closed"}
Found == [sid : Sids, running : BOOLEAN]
Jobs == [req : Requests, st : JobSteps, seen : Seq(Found), scope : SUBSET Sids,
         deleted : SUBSET Sids, ok : BOOLEAN]

RowType ==
    /\ row \in [Sids -> {"none", "stopped", "running"}]
    /\ born \in [Sids -> Nat]
JobType == jobs \in [Cmds -> Seq(Jobs)]
CmdType == cmd \in [Cmds -> CmdRecs]

\* Where a command is says whether it has requests to send and has sent any.
Staged(me, js) ==
    /\ me.pc \notin {"send", "wait", "end"} => js = << >>
    /\ me.pc = "wait" => js # << >>
    /\ me.pc \in {"ask", "challenge", "check", "send", "wait"} => me.todo # << >>
    /\ me.pc = "idle" => me.todo = << >>
    /\ me.pc = "tui" => /\ me.op = "cleanup" /\ me.todo = << >>
                        /\ me.shown \in Seq(Sids) /\ me.sel \subseteq DOMAIN me.shown
                        /\ me.cursor \in DOMAIN me.shown

\* A request asks for what the user named, ticked or chose.
Meant(me, req) ==
    /\ me.op \notin {"none", "completions"}
    /\ me.op = "delete" => req \in DeleteReqs /\ req.sid \in Named(me)
    /\ me.op = "cleanup" => req \in DeleteReqs /\ req.sid \in {me.shown[k] : k \in me.sel}
    /\ me.op = "prune" => req \in PruneReqs /\ req.all = me.all /\ req.running = me.running
                                        /\ req.dry = me.dry
    /\ me.op \in {"pairDelete", "pairRename"} => req \in PairReqs

Fits(me, js) ==
    /\ Staged(me, js)
    /\ \A k \in DOMAIN me.todo : Meant(me, me.todo[k])
    /\ \A i \in DOMAIN js : Meant(me, js[i].req)

\* A handler erases only what its request names or the daemon found for it, and
\* answers that a session is deleted after it has deleted it.
Honest(job) ==
    /\ job.st = "erase" => job.req \in DeleteReqs \cup PruneReqs
    /\ job.req \in DeleteReqs =>
        /\ job.st = "erase" => \/ job.seen = << >> /\ job.req.sid \in job.deleted
                               \/ Len(job.seen) = 1 /\ job.seen[1].sid = job.req.sid
        /\ job.st \in {"answered", "closed"} /\ job.ok => job.req.sid \in job.deleted
    /\ job.req \in PruneReqs =>
        /\ job.st = "erase" => ~job.req.dry
        /\ \A k \in DOMAIN job.seen : /\ job.seen[k].running => job.req.running
                                      /\ job.seen[k].sid \in job.scope

\* A session that was deleted, perhaps there again.
Gone(s) == row[s] = "none" \/ born[s] > 0
AllGone(S) == \A s \in S : Gone(s)

CommandsInv ==
    /\ RowType /\ JobType /\ CmdType
    /\ \A c \in Cmds :
        /\ Fits(cmd[c], jobs[c])
        /\ AllGone(cmd[c].done)
        /\ \A i \in DOMAIN jobs[c] : Honest(jobs[c][i]) /\ AllGone(jobs[c][i].deleted)

LEMMA TailIs ==
  ASSUME NEW S, NEW q \in Seq(S), q # << >>
  PROVE  /\ Tail(q) \in Seq(S) /\ Head(q) \in S /\ Head(q) = q[1]
         /\ Len(q) # 1 => Tail(q) # << >>
         /\ Len(q) = 1 => Tail(q) = << >>
         /\ \A k \in DOMAIN Tail(q) : k + 1 \in DOMAIN q /\ Tail(q)[k] = q[k + 1]
<1>1. Len(q) \in Nat \ {0} /\ DOMAIN q = 1..Len(q) /\ Head(q) = q[1]
    BY EmptySeq, LenProperties
<1>2. /\ Tail(q) \in Seq(S) /\ Head(q) \in S /\ Len(Tail(q)) = Len(q) - 1
      /\ \A k \in 1..Len(Tail(q)) : Tail(q)[k] = q[k + 1]
    BY HeadTailProperties
<1>3. DOMAIN Tail(q) = 1..Len(q) - 1
    BY <1>1, <1>2, LenProperties
<1>4. Len(<< >>) = 0 /\ \A z \in Seq(S) : z # << >> => Len(z) \in Nat \ {0}
    BY EmptySeq
<1>5. Tail(q) = << >> <=> Len(q) = 1
    BY <1>1, <1>2, <1>4
<1> QED BY <1>1, <1>2, <1>3, <1>5

LEMMA AppendIs ==
  ASSUME NEW S, NEW q \in Seq(S), NEW x \in S
  PROVE  /\ Append(q, x) \in Seq(S) /\ Append(q, x) # << >>
         /\ \A i \in DOMAIN Append(q, x) : \/ Append(q, x)[i] = x
                                           \/ i \in DOMAIN q /\ Append(q, x)[i] = q[i]
<1>1. /\ Append(q, x) \in Seq(S) /\ Append(q, x) # << >> /\ Len(Append(q, x)) = Len(q) + 1
      /\ \A i \in 1..Len(q) : Append(q, x)[i] = q[i]
      /\ Append(q, x)[Len(q) + 1] = x
    BY AppendProperties
<1>2. Len(q) \in Nat /\ DOMAIN Append(q, x) = 1..Len(q) + 1 /\ DOMAIN q = 1..Len(q)
    BY <1>1, LenProperties
<1> QED BY <1>1, <1>2

\* A listing holds exactly its rows.
LEMMA SetToSeqIs ==
  ASSUME NEW S, IsFiniteSet(S)
  PROVE  SetToSeq(S) \in Seq(S) /\ ToSet(SetToSeq(S)) = S
<1> DEFINE n == Cardinality(S)
<1>1. n \in Nat /\ Bijection(1..n, S) # {}
    BY FS_CardinalityType DEF ExistsBijection
<1>2. \E f \in [1..n -> S] : IsInjective(f)
    BY <1>1 DEF Bijection, Injection
<1>3. SetToSeq(S) \in Injection(1..n, S)
    BY <1>2 DEF SetToSeq, Injection
<1>4. IsFiniteSet(1..n) /\ Cardinality(1..n) = n
    BY <1>1, FS_Interval
<1>5. SetToSeq(S) \in Surjection(1..n, S)
    BY <1>3, <1>4, FS_Injection
<1> QED
    BY <1>1, <1>5 DEF Surjection, ToSet

\* What is found first is what is taken.
LEMMA FirstOfTwo ==
  ASSUME NEW A, NEW B
  PROVE  FirstOf(<<A, B>>) = IF A # {} THEN A ELSE B
<1> DEFINE I == {i \in 1..Len(<<A, B>>) : <<A, B>>[i] # {}}
<1>1. CASE A # {}
    <2>1. 1 \in I /\ \A j \in I : 1 <= j
        BY <1>1
    <2>2. Min(I) = 1
        BY <2>1 DEF Min
    <2> QED BY <1>1, <2>1, <2>2 DEF FirstOf, SelectInSeq
<1>2. CASE A = {} /\ B # {}
    <2>1. I = {2}
        BY <1>2
    <2>2. Min(I) = 2
        BY <2>1 DEF Min
    <2> QED BY <1>2, <2>1, <2>2 DEF FirstOf, SelectInSeq
<1>3. CASE A = {} /\ B = {}
    <2>1. I = {}
        BY <1>3
    <2> QED BY <1>3, <2>1 DEF FirstOf, SelectInSeq
<1> QED BY <1>1, <1>2, <1>3

LEMMA SetToSeqsIs ==
  ASSUME NEW S, IsFiniteSet(S)
  PROVE  SetToSeqs(S) \subseteq Seq(S)
<1>1. Cardinality(S) \in Nat
    BY FS_CardinalityType
<1> QED BY <1>1 DEF SetToSeqs

\* The rows that are named are among the rows.
LEMMA FirstOfIs ==
  ASSUME NEW X, NEW ways \in Seq(SUBSET X)
  PROVE  FirstOf(ways) \subseteq X
<1> DEFINE I == {i \in 1..Len(ways) : ways[i] # {}}
<1>1. CASE I = {}
    BY <1>1 DEF FirstOf, SelectInSeq
<1>2. CASE I # {}
    <2>1. I \subseteq Nat
        OBVIOUS
    <2>2. PICK m \in I : \A y \in I : ~(<<y, m>> \in OpToRel(<, Nat))
        <3> HIDE DEF I
        <3> QED BY <1>2, <2>1, NatLessThanWellFounded, WFMin, Zenon
    <2>3. \A y \in I : ~(y < m)
        <3> HIDE DEF I
        <3> QED BY <2>1, <2>2 DEF OpToRel
    <2>4. Min(I) \in I
        <3> HIDE DEF I
        <3>1. \A y \in I : m <= y
            BY <2>1, <2>3
        <3> QED BY <3>1 DEF Min
    <2>5. FirstOf(ways) = ways[Min(I)]
        BY <1>2, <2>4 DEF FirstOf, SelectInSeq
    <2>6. Min(I) \in 1..Len(ways)
        BY <2>4
    <2> HIDE DEF I
    <2>7. ways[Min(I)] \in SUBSET X
        BY <2>6
    <2> QED BY <2>5, <2>7
<1> QED BY <1>1, <1>2

-----------------------------------------------------------------------------
(* How a step of one command, one handler or the rows keeps the invariant.  *)

LEMMA InitInv == CommandsInit => CommandsInv
<1> SUFFICES ASSUME CommandsInit PROVE CommandsInv
    OBVIOUS
<1> USE CommandsAssumption DEF CommandsInit
<1>1. RowType /\ JobType
    BY DEF RowType, JobType
<1>2. Idle \in CmdRecs
    BY DEF Idle, CmdRecs, CmdSteps, Ops
<1>3. CmdType
    BY <1>2 DEF CmdType
<1>4. ASSUME NEW c \in Cmds PROVE Fits(cmd[c], jobs[c]) /\ AllGone(cmd[c].done)
    BY DEF Fits, Staged, Idle, AllGone
<1> QED BY <1>1, <1>3, <1>4 DEF CommandsInv

\* A step of one command.
LEMMA CmdStep ==
  ASSUME CommandsInv, NEW c \in Cmds, NEW me \in CmdRecs, Fits(me, jobs[c]), AllGone(me.done),
         cmd' = [cmd EXCEPT ![c] = me], UNCHANGED <<jobs, row, born>>
  PROVE  CommandsInv'
<1>1. RowType' /\ JobType' /\ CmdType'
    BY DEF CommandsInv, RowType, JobType, CmdType
<1>2. ASSUME NEW d \in Cmds
      PROVE  /\ Fits(cmd[d], jobs[d])'
             /\ AllGone(cmd[d].done)'
             /\ \A i \in DOMAIN jobs'[d] : Honest(jobs'[d][i]) /\ AllGone(jobs[d][i].deleted)'
    <2>1. cmd'[d] = IF d = c THEN me ELSE cmd[d]
        BY DEF CommandsInv, CmdType
    <2>2. Fits(cmd'[d], jobs[d]) /\ AllGone(cmd'[d].done)
        BY <2>1 DEF CommandsInv
    <2>3. \A i \in DOMAIN jobs[d] : Honest(jobs[d][i]) /\ AllGone(jobs[d][i].deleted)
        BY DEF CommandsInv
    <2>4. \A S : AllGone(S) => AllGone(S)'
        BY DEF AllGone, Gone
    <2> QED BY <2>2, <2>3, <2>4 DEF AllGone, Gone
<1> QED BY <1>1, <1>2 DEF CommandsInv

\* What is gone stays gone.
StaysGone == \A s \in Sids : Gone(s) => Gone(s)'

\* A step of one handler.
LEMMA JobStep ==
  ASSUME CommandsInv, RowType', StaysGone, UNCHANGED cmd,
         NEW c \in Cmds, NEW i \in DOMAIN jobs[c], NEW job \in Jobs, Put(c, i, job),
         job.req = jobs[c][i].req, Honest(job), AllGone(job.deleted)'
  PROVE  CommandsInv'
<1>0. jobs \in [Cmds -> Seq(Jobs)] /\ cmd \in [Cmds -> CmdRecs]
    BY DEF CommandsInv, JobType, CmdType
<1>1. /\ jobs' \in [Cmds -> Seq(Jobs)]
      /\ \A d \in Cmds : /\ DOMAIN jobs'[d] = DOMAIN jobs[d]
                         /\ jobs'[d] = << >> <=> jobs[d] = << >>
                         /\ \A k \in DOMAIN jobs[d] : jobs'[d][k] = IF d = c /\ k = i THEN job ELSE jobs[d][k]
    BY <1>0 DEF Put
<1>2. ASSUME NEW d \in Cmds
      PROVE  /\ Fits(cmd[d], jobs[d])'
             /\ AllGone(cmd[d].done)'
             /\ \A k \in DOMAIN jobs'[d] : Honest(jobs'[d][k]) /\ AllGone(jobs[d][k].deleted)'
    <2>1. Fits(cmd[d], jobs'[d])
        <3>1. Fits(cmd[d], jobs[d])
            BY DEF CommandsInv
        <3>2. Staged(cmd[d], jobs'[d])
            BY <1>1, <3>1 DEF Fits, Staged
        <3>3. \A k \in DOMAIN jobs'[d] : jobs'[d][k].req = jobs[d][k].req
            BY <1>1
        <3> QED BY <1>1, <3>1, <3>2, <3>3 DEF Fits
    <2>2. cmd[d].done \subseteq Sids /\ AllGone(cmd[d].done)
        BY <1>0 DEF CommandsInv, CmdRecs
    <2>3. ASSUME NEW k \in DOMAIN jobs'[d] PROVE Honest(jobs'[d][k]) /\ AllGone(jobs[d][k].deleted)'
        <3>1. k \in DOMAIN jobs[d] /\ jobs'[d][k] = IF d = c /\ k = i THEN job ELSE jobs[d][k]
            BY <1>1
        <3>2. jobs[d][k] \in Jobs
            BY <1>0, <3>1
        <3>3. jobs[d][k].deleted \subseteq Sids /\ Honest(jobs[d][k]) /\ AllGone(jobs[d][k].deleted)
            BY <3>1, <3>2 DEF CommandsInv, Jobs
        <3> QED BY <3>1, <3>3 DEF AllGone, StaysGone
    <2> QED BY <2>1, <2>2, <2>3 DEF AllGone, StaysGone
<1> QED BY <1>0, <1>1, <1>2 DEF CommandsInv, JobType, CmdType

\* A change to the rows.
LEMMA RowStep ==
  ASSUME CommandsInv, RowType', StaysGone, UNCHANGED <<cmd, jobs>>
  PROVE  CommandsInv'
<1>0. jobs \in [Cmds -> Seq(Jobs)] /\ cmd \in [Cmds -> CmdRecs]
    BY DEF CommandsInv, JobType, CmdType
<1>1. ASSUME NEW d \in Cmds
      PROVE  /\ AllGone(cmd[d].done)'
             /\ \A k \in DOMAIN jobs'[d] : AllGone(jobs[d][k].deleted)'
    <2>1. cmd[d].done \subseteq Sids /\ AllGone(cmd[d].done)
        BY <1>0 DEF CommandsInv, CmdRecs
    <2>2. ASSUME NEW k \in DOMAIN jobs[d] PROVE AllGone(jobs[d][k].deleted)'
        <3>1. jobs[d][k] \in Jobs
            BY <1>0
        <3>2. jobs[d][k].deleted \subseteq Sids /\ AllGone(jobs[d][k].deleted)
            BY <3>1 DEF CommandsInv, Jobs
        <3> QED BY <3>2 DEF AllGone, StaysGone
    <2> QED BY <2>1, <2>2 DEF AllGone, StaysGone
<1> QED BY <1>0, <1>1 DEF CommandsInv, JobType, CmdType

-----------------------------------------------------------------------------
(* What the user does.                                                      *)

LEMMA StartStep ==
  ASSUME CommandsInv, NEW c \in Cmds, NEW me \in CmdRecs, Start(c, me),
         Fits(me, << >>), me.done = {}, UNCHANGED <<jobs, row, born>>
  PROVE  CommandsInv'
<1>1. jobs[c] = << >>
    BY DEF CommandsInv, Fits, Staged, Start
<1>2. AllGone(me.done) /\ cmd' = [cmd EXCEPT ![c] = me]
    BY DEF AllGone, Start
<1> QED BY <1>1, <1>2, CmdStep

LEMMA IdleIs == Idle \in CmdRecs
BY DEF Idle, CmdRecs, CmdSteps, Ops

LEMMA EndedFits ==
  ASSUME NEW op \in Ops, NEW ok \in BOOLEAN
  PROVE  LET me == [Idle EXCEPT !.op = op, !.pc = "end", !.ok = ok]
         IN  me \in CmdRecs /\ Fits(me, << >>) /\ me.done = {}
<1> DEFINE me == [Idle EXCEPT !.op = op, !.pc = "end", !.ok = ok]
<1>1. me \in CmdRecs
    BY IdleIs DEF CmdRecs, CmdSteps
<1>2. me.pc = "end" /\ me.todo = << >> /\ me.done = {}
    BY DEF Idle
<1> HIDE DEF me
<1>3. Fits(me, << >>)
    BY <1>2 DEF Fits, Staged
<1> QED BY <1>1, <1>2, <1>3 DEF me

LEMMA RowsFinite == IsFiniteSet(Listed) /\ IsFiniteSet(Paired) /\ IsFiniteSet(Stopped)
BY CommandsAssumption, FS_Subset DEF Listed, Paired, Stopped

LEMMA SessionDeleteStep ==
  ASSUME CommandsInv, NEW c \in Cmds, NEW want \in Typed, NEW yes \in BOOLEAN,
         SessionDelete(c, want, yes), UNCHANGED <<jobs, row, born>>
  PROVE  CommandsInv'
<1> DEFINE found == MatchSessions(Listed, want)
           near == {s \in Listed : IsPrefix(want, s)}
<1>1. CASE Cardinality(found) # 1
    <2> DEFINE me == [Idle EXCEPT !.op = "delete", !.pc = "end", !.ok = FALSE]
    <2>1. Start(c, me)
        BY <1>1 DEF SessionDelete
    <2>2. me \in CmdRecs /\ Fits(me, << >>) /\ me.done = {}
        BY EndedFits DEF Ops
    <2> HIDE DEF me
    <2> QED BY <2>1, <2>2, StartStep
<1>2. CASE Cardinality(found) = 1
    <2> DEFINE me(s) == [Idle EXCEPT !.op = "delete", !.want = want, !.shown = SetToSeq(Listed),
                                     !.pc = IF yes THEN "check" ELSE "ask",
                                     !.todo = <<[t |-> "session.delete", sid |-> s]>>]
    <2>1. PICK s \in found : Start(c, me(s))
        BY <1>2 DEF SessionDelete
    <2>2. found = IF Listed \cap {want} # {} THEN Listed \cap {want} ELSE near
        BY FirstOfTwo DEF MatchSessions
    <2>3. s \in Listed /\ s \in Sids
        BY <2>2 DEF Listed
    <2>4. SetToSeq(Listed) \in Seq(Listed) /\ ToSet(SetToSeq(Listed)) = Listed
        BY RowsFinite, SetToSeqIs
    <2>5. SetToSeq(Listed) \in Seq(Sids \cup Dids)
        BY <2>4 DEF Listed
    <2>6. [t |-> "session.delete", sid |-> s] \in DeleteReqs
        BY <2>3 DEF DeleteReqs
    <2>7. <<[t |-> "session.delete", sid |-> s]>> \in Seq(Requests)
        BY <2>6 DEF Requests
    <2>8. me(s) \in CmdRecs
        BY <2>5, <2>7, IdleIs DEF CmdRecs, CmdSteps, Ops
    <2>9. /\ me(s).op = "delete" /\ me(s).want = want /\ me(s).shown = SetToSeq(Listed)
          /\ me(s).pc \in {"check", "ask"} /\ me(s).done = {}
          /\ me(s).todo = <<[t |-> "session.delete", sid |-> s]>>
        BY DEF Idle
    <2> HIDE DEF me
    <2>10. s \in Named(me(s))
        <3>1. Named(me(s)) = IF want \in Listed THEN {want}
                             ELSE IF Cardinality(near) = 1 THEN near ELSE {}
            BY <2>4, <2>9 DEF Named
        <3>2. CASE want \in Listed
            BY <2>2, <3>1, <3>2
        <3>3. CASE want \notin Listed
            BY <1>2, <2>2, <3>1, <3>3
        <3> QED BY <3>2, <3>3
    <2>11. Meant(me(s), [t |-> "session.delete", sid |-> s])
        BY <2>6, <2>9, <2>10 DEF Meant
    <2>12. Fits(me(s), << >>)
        BY <2>9, <2>11 DEF Fits, Staged
    <2> QED BY <2>1, <2>8, <2>9, <2>12, StartStep
<1> QED BY <1>1, <1>2

LEMMA PairingsNamed ==
  ASSUME NEW want
  PROVE  MatchPairings(Paired, want) \subseteq Dids
<1> DEFINE ways == <<Paired \cap {want},
                     {d \in Paired : pairs[d] # NoLabel /\ pairs[d] = want},
                     {d \in Paired : IsPrefix(want, d)},
                     Paired \cap {<<DaemonPiece>> \o want},
                     {d \in Paired : pairs[d] # NoLabel /\ want \in SubSeqs(pairs[d])}>>
<1>1. ways \in Seq(SUBSET Dids)
    BY DEF Paired
<1>2. MatchPairings(Paired, want) = FirstOf(ways)
    BY DEF MatchPairings
<1> HIDE DEF ways
<1> QED BY <1>1, <1>2, FirstOfIs

\* A command about a pairing that has one request to send.
LEMMA PairStarts ==
  ASSUME CommandsInv, NEW c \in Cmds, NEW op \in {"pairDelete", "pairRename"}, NEW want \in Typed,
         NEW step \in {"send", "ask"}, NEW req \in PairReqs,
         Start(c, [Idle EXCEPT !.op = op, !.want = want, !.shown = SetToSeq(Paired),
                               !.pc = step, !.todo = <<req>>]),
         UNCHANGED <<jobs, row, born>>
  PROVE  CommandsInv'
<1> DEFINE me == [Idle EXCEPT !.op = op, !.want = want, !.shown = SetToSeq(Paired),
                              !.pc = step, !.todo = <<req>>]
<1>1. SetToSeq(Paired) \in Seq(Paired)
    BY RowsFinite, SetToSeqIs
<1>2. SetToSeq(Paired) \in Seq(Sids \cup Dids)
    BY <1>1 DEF Paired
<1>3. <<req>> \in Seq(Requests)
    BY DEF Requests
<1>4. me \in CmdRecs
    BY <1>2, <1>3, IdleIs DEF CmdRecs, CmdSteps, Ops
<1>5. me.op = op /\ me.pc = step /\ me.todo = <<req>> /\ me.done = {}
    BY DEF Idle
<1>6. Start(c, me)
    OBVIOUS
<1> HIDE DEF me
<1>7. Meant(me, req)
    BY <1>5 DEF Meant
<1>8. Fits(me, << >>)
    BY <1>5, <1>7 DEF Fits, Staged
<1> QED BY <1>4, <1>5, <1>6, <1>8, StartStep

LEMMA PairDeleteStep ==
  ASSUME CommandsInv, NEW c \in Cmds, NEW want \in Typed, NEW yes \in BOOLEAN,
         PairDelete(c, want, yes), UNCHANGED <<jobs, row, born>>
  PROVE  CommandsInv'
<1> DEFINE found == MatchPairings(Paired, want)
           step == IF yes THEN "send" ELSE "ask"
           req(d) == [t |-> "pair.remove", did |-> d]
<1>1. CASE Cardinality(found) # 1
    <2> DEFINE me == [Idle EXCEPT !.op = "pairDelete", !.pc = "end", !.ok = FALSE]
    <2>1. Start(c, me)
        BY <1>1 DEF PairDelete
    <2>2. me \in CmdRecs /\ Fits(me, << >>) /\ me.done = {}
        BY EndedFits DEF Ops
    <2> HIDE DEF me
    <2> QED BY <2>1, <2>2, StartStep
<1>2. CASE Cardinality(found) = 1
    <2>1. PICK d \in found : Start(c, [Idle EXCEPT !.op = "pairDelete", !.want = want, !.shown = SetToSeq(Paired),
                                                   !.pc = step, !.todo = <<req(d)>>])
        BY <1>2 DEF PairDelete
    <2>2. req(d) \in PairReqs
        BY PairingsNamed DEF PairReqs
    <2>3. step \in {"send", "ask"}
        OBVIOUS
    <2> HIDE DEF step, req
    <2> QED BY <2>1, <2>2, <2>3, PairStarts
<1> QED BY <1>1, <1>2

LEMMA PairRenameStep ==
  ASSUME CommandsInv, NEW c \in Cmds, NEW want \in Typed, NEW label \in Labels \cup {NoLabel},
         PairRename(c, want, label), UNCHANGED <<jobs, row, born>>
  PROVE  CommandsInv'
<1> DEFINE found == MatchPairings(Paired, want)
           req(d) == [t |-> "pair.rename", did |-> d, label |-> label]
<1>1. CASE Cardinality(found) # 1
    <2> DEFINE me == [Idle EXCEPT !.op = "pairRename", !.pc = "end", !.ok = FALSE]
    <2>1. Start(c, me)
        BY <1>1 DEF PairRename
    <2>2. me \in CmdRecs /\ Fits(me, << >>) /\ me.done = {}
        BY EndedFits DEF Ops
    <2> HIDE DEF me
    <2> QED BY <2>1, <2>2, StartStep
<1>2. CASE Cardinality(found) = 1
    <2>1. PICK d \in found : Start(c, [Idle EXCEPT !.op = "pairRename", !.want = want, !.shown = SetToSeq(Paired),
                                                   !.pc = "send", !.todo = <<req(d)>>])
        BY <1>2 DEF PairRename
    <2>2. req(d) \in PairReqs
        BY PairingsNamed DEF PairReqs
    <2> HIDE DEF req
    <2> QED BY <2>1, <2>2, PairStarts
<1> QED BY <1>1, <1>2

LEMMA SessionPruneStep ==
  ASSUME CommandsInv, NEW c \in Cmds, NEW p \in Prunes,
         SessionPrune(c, p.all, p.running, p.dry, p.yes), UNCHANGED <<jobs, row, born>>
  PROVE  CommandsInv'
<1> DEFINE req == [t |-> "session.prune", all |-> p.all, running |-> p.running, dry |-> p.dry]
           step == IF p.dry \/ p.yes THEN "check" ELSE "ask"
           me == [Idle EXCEPT !.op = "prune", !.all = p.all, !.running = p.running, !.dry = p.dry,
                             !.pc = step, !.todo = <<req>>]
<1>1. p.all \in BOOLEAN /\ p.running \in BOOLEAN /\ p.dry \in BOOLEAN
    BY CommandsAssumption
<1>2. req \in PruneReqs /\ req.all = p.all /\ req.running = p.running /\ req.dry = p.dry
    BY <1>1 DEF PruneReqs
<1>3. step \in {"check", "ask"}
    OBVIOUS
<1>4. Start(c, me)
    BY DEF SessionPrune
<1> HIDE DEF req, step
<1>5. <<req>> \in Seq(Requests)
    BY <1>2 DEF Requests
<1>6. me \in CmdRecs
    BY <1>1, <1>3, <1>5, IdleIs DEF CmdRecs, CmdSteps, Ops
<1>7. /\ me.op = "prune" /\ me.pc = step
      /\ me.all = p.all /\ me.running = p.running /\ me.dry = p.dry /\ me.todo = <<req>> /\ me.done = {}
    BY DEF Idle
<1> HIDE DEF me
<1>8. Meant(me, req)
    BY <1>2, <1>7 DEF Meant
<1>9. Fits(me, << >>)
    BY <1>3, <1>7, <1>8 DEF Fits, Staged
<1> QED BY <1>4, <1>6, <1>7, <1>9, StartStep

LEMMA SessionCleanupStep ==
  ASSUME CommandsInv, NEW c \in Cmds, NEW yes \in BOOLEAN, NEW preselect \in BOOLEAN,
         SessionCleanup(c, yes, preselect), UNCHANGED <<jobs, row, born>>
  PROVE  CommandsInv'
<1>1. PICK rows \in StoppedSorted :
        IF rows = << >>
        THEN Start(c, [Idle EXCEPT !.op = "cleanup", !.pc = "end"])
        ELSE Start(c, [Idle EXCEPT !.op = "cleanup", !.pc = "tui", !.yes = yes, !.shown = rows,
                                   !.sel = IF preselect THEN DOMAIN rows ELSE {}])
    BY DEF SessionCleanup
<1>2. rows \in Seq(Sids)
    BY RowsFinite, SetToSeqsIs DEF StoppedSorted, Stopped
<1>3. CASE rows = << >>
    <2> DEFINE me == [Idle EXCEPT !.op = "cleanup", !.pc = "end"]
    <2>1. Start(c, me)
        BY <1>1, <1>3
    <2>2. me \in CmdRecs
        BY IdleIs DEF CmdRecs, CmdSteps, Ops
    <2>3. me.pc = "end" /\ me.todo = << >> /\ me.done = {}
        BY DEF Idle
    <2> HIDE DEF me
    <2>4. Fits(me, << >>)
        BY <2>3 DEF Fits, Staged
    <2> QED BY <2>1, <2>2, <2>3, <2>4, StartStep
<1>4. CASE rows # << >>
    <2> DEFINE sel == IF preselect THEN DOMAIN rows ELSE {}
               me == [Idle EXCEPT !.op = "cleanup", !.pc = "tui", !.yes = yes, !.shown = rows, !.sel = sel]
    <2>1. Start(c, me)
        BY <1>1, <1>4
    <2>2. sel \subseteq DOMAIN rows /\ sel \subseteq Nat /\ 1 \in DOMAIN rows
        BY <1>2, <1>4
    <2> HIDE DEF sel
    <2>3. rows \in Seq(Sids \cup Dids)
        BY <1>2
    <2>4. me \in CmdRecs
        BY <2>2, <2>3, IdleIs DEF CmdRecs, CmdSteps, Ops
    <2>5. /\ me.op = "cleanup" /\ me.pc = "tui" /\ me.shown = rows /\ me.sel = sel
          /\ me.cursor = 1 /\ me.todo = << >> /\ me.done = {}
        BY DEF Idle
    <2> HIDE DEF me
    <2>6. Fits(me, << >>)
        BY <1>2, <2>2, <2>5 DEF Fits, Staged
    <2> QED BY <2>1, <2>4, <2>5, <2>6, StartStep
<1> QED BY <1>3, <1>4

LEMMA EditCompletionsStep ==
  ASSUME CommandsInv, NEW c \in Cmds, NEW edit, EditCompletions(c, edit), UNCHANGED <<jobs, row, born>>
  PROVE  CommandsInv'
<1> DEFINE me == [Idle EXCEPT !.op = "completions", !.pc = "end"]
<1>1. Start(c, me)
    BY DEF EditCompletions
<1>2. me \in CmdRecs
    BY IdleIs DEF CmdRecs, CmdSteps, Ops
<1>3. me.pc = "end" /\ me.todo = << >> /\ me.done = {}
    BY DEF Idle
<1> HIDE DEF me
<1>4. Fits(me, << >>)
    BY <1>3 DEF Fits, Staged
<1> QED BY <1>1, <1>2, <1>3, <1>4, StartStep

\* A command that has sent nothing may end at any time.
LEMMA QuitStep ==
  ASSUME CommandsInv, NEW c \in Cmds, NEW ok \in BOOLEAN, Quit(c, ok),
         cmd[c].pc \in {"tui", "ask", "challenge", "check"}, UNCHANGED <<jobs, row, born>>
  PROVE  CommandsInv'
<1> DEFINE me == [Idle EXCEPT !.pc = "end", !.ok = ok]
<1>1. jobs[c] = << >>
    BY DEF CommandsInv, Fits, Staged
<1>2. me \in CmdRecs
    BY IdleIs DEF CmdRecs, CmdSteps
<1>3. me.pc = "end" /\ me.todo = << >> /\ me.done = {}
    BY DEF Idle
<1>4. cmd' = [cmd EXCEPT ![c] = me]
    BY DEF Quit
<1> HIDE DEF me
<1>5. Fits(me, << >>) /\ AllGone(me.done)
    BY <1>3 DEF Fits, Staged, AllGone
<1> QED BY <1>1, <1>2, <1>4, <1>5, CmdStep

\* What a request is meant by does not depend on where the command is.
SameWish(me, you) ==
    /\ me.op = you.op /\ me.want = you.want
    /\ me.all = you.all /\ me.running = you.running /\ me.dry = you.dry
    /\ me.shown = you.shown /\ me.sel = you.sel

LEMMA StillMeant ==
  ASSUME NEW me, NEW you, SameWish(me, you)
  PROVE  \A req : Meant(me, req) => Meant(you, req)
<1>1. Named(me) = Named(you)
    BY DEF Named, SameWish
<1> QED BY <1>1 DEF Meant, SameWish

LEMMA CmdIs ==
  ASSUME CommandsInv, NEW c \in Cmds
  PROVE  cmd[c] \in CmdRecs /\ jobs[c] \in Seq(Jobs) /\ Fits(cmd[c], jobs[c]) /\ AllGone(cmd[c].done)
BY DEF CommandsInv, CmdType, JobType

\* The prompts.
LEMMA PromptStep ==
  ASSUME CommandsInv, NEW c \in Cmds, NEW step \in {"challenge", "check", "send"}, NEW tries \in Nat,
         cmd[c].pc \in {"ask", "challenge", "check"},
         cmd' = [cmd EXCEPT ![c] = [cmd[c] EXCEPT !.pc = step, !.tries = tries]],
         UNCHANGED <<jobs, row, born>>
  PROVE  CommandsInv'
<1> DEFINE me == [cmd[c] EXCEPT !.pc = step, !.tries = tries]
<1>1. me \in CmdRecs
    BY CmdIs DEF CmdRecs, CmdSteps
<1>2. SameWish(cmd[c], me) /\ me.pc = step /\ me.todo = cmd[c].todo /\ me.done = cmd[c].done
    BY CmdIs DEF CmdRecs, SameWish
<1>3. cmd' = [cmd EXCEPT ![c] = me]
    OBVIOUS
<1> HIDE DEF me
<1>4. jobs[c] = << >> /\ me.todo # << >>
    BY <1>2, CmdIs DEF Fits, Staged
<1>5. Fits(me, jobs[c])
    BY <1>2, <1>4, CmdIs, StillMeant DEF Fits, Staged
<1> QED BY <1>1, <1>2, <1>3, <1>5, CmdIs, CmdStep

LEMMA KeyStep ==
  ASSUME CommandsInv, NEW c \in Cmds, Key(c), UNCHANGED <<jobs, row, born>>
  PROVE  CommandsInv'
<1> DEFINE my == cmd[c]
<1>1. PICK me \in Keys(my) : cmd' = [cmd EXCEPT ![c] = me]
    BY DEF Key
<1>2. /\ my \in CmdRecs /\ my.pc = "tui" /\ my.op = "cleanup" /\ my.todo = << >>
      /\ my.shown \in Seq(Sids) /\ my.sel \subseteq DOMAIN my.shown
      /\ my.cursor \in DOMAIN my.shown /\ jobs[c] = << >> /\ AllGone(my.done)
    BY CmdIs DEF Key, Fits, Staged
<1> HIDE DEF my
<1>3. PICK sel \in SUBSET DOMAIN my.shown, cursor \in DOMAIN my.shown :
        me = [my EXCEPT !.sel = sel, !.cursor = cursor]
    <2>1. my = [my EXCEPT !.sel = my.sel, !.cursor = my.cursor]
        BY <1>2 DEF CmdRecs
    <2>2. my.cursor \in 1..Len(my.shown) /\ DOMAIN my.shown = 1..Len(my.shown) /\ Len(my.shown) \in Nat
        BY <1>2
    <2>3. CASE me = [my EXCEPT !.cursor = IF @ > 1 THEN @ - 1 ELSE @]
        <3> DEFINE k == IF my.cursor > 1 THEN my.cursor - 1 ELSE my.cursor
        <3>1. k \in DOMAIN my.shown
            BY <2>2
        <3>2. me = [my EXCEPT !.sel = my.sel, !.cursor = k]
            BY <1>2, <2>3 DEF CmdRecs
        <3> HIDE DEF k
        <3> QED BY <1>2, <3>1, <3>2
    <2>4. CASE me = [my EXCEPT !.cursor = IF @ < Len(my.shown) THEN @ + 1 ELSE @]
        <3> DEFINE k == IF my.cursor < Len(my.shown) THEN my.cursor + 1 ELSE my.cursor
        <3>1. k \in DOMAIN my.shown
            BY <2>2
        <3>2. me = [my EXCEPT !.sel = my.sel, !.cursor = k]
            BY <1>2, <2>4 DEF CmdRecs
        <3> HIDE DEF k
        <3> QED BY <1>2, <3>1, <3>2
    <2>5. CASE me = [my EXCEPT !.sel = IF my.cursor \in @ THEN @ \ {my.cursor} ELSE @ \cup {my.cursor}]
        <3> DEFINE S == IF my.cursor \in my.sel THEN my.sel \ {my.cursor} ELSE my.sel \cup {my.cursor}
        <3>1. S \subseteq DOMAIN my.shown
            BY <1>2
        <3>2. me = [my EXCEPT !.sel = S, !.cursor = my.cursor]
            BY <1>2, <2>5 DEF CmdRecs
        <3> HIDE DEF S
        <3> QED BY <1>2, <3>1, <3>2
    <2>6. CASE me = [my EXCEPT !.sel = IF @ = DOMAIN my.shown THEN {} ELSE DOMAIN my.shown]
        <3> DEFINE S == IF my.sel = DOMAIN my.shown THEN {} ELSE DOMAIN my.shown
        <3>1. S \subseteq DOMAIN my.shown
            OBVIOUS
        <3>2. me = [my EXCEPT !.sel = S, !.cursor = my.cursor]
            BY <1>2, <2>6 DEF CmdRecs
        <3> HIDE DEF S
        <3> QED BY <1>2, <3>1, <3>2
    <2> QED BY <2>3, <2>4, <2>5, <2>6 DEF Keys
<1>4. DOMAIN my.shown \subseteq Nat
    BY <1>2
<1>5. me \in CmdRecs
    BY <1>2, <1>3, <1>4 DEF CmdRecs
<1>6. /\ me.pc = "tui" /\ me.op = "cleanup" /\ me.todo = << >> /\ me.shown = my.shown
      /\ me.sel = sel /\ me.cursor = cursor /\ me.done = my.done
    BY <1>2, <1>3 DEF CmdRecs
<1>7. Fits(me, << >>)
    BY <1>2, <1>3, <1>6 DEF Fits, Staged
<1> QED BY <1>1, <1>2, <1>5, <1>6, <1>7, CmdStep

LEMMA EnterStep ==
  ASSUME CommandsInv, NEW c \in Cmds, Enter(c), UNCHANGED <<jobs, row, born>>
  PROVE  CommandsInv'
<1> DEFINE my == cmd[c]
           reqs(sids) == [i \in DOMAIN sids |-> [t |-> "session.delete", sid |-> sids[i]]]
           me(sids) == [my EXCEPT !.pc = IF my.yes THEN "check" ELSE "ask", !.yes = FALSE,
                                  !.cursor = 1, !.todo = reqs(sids)]
<1>1. PICK sids \in SelectedSids(my) :
        IF sids = << >> THEN Quit(c, TRUE) ELSE cmd' = [cmd EXCEPT ![c] = me(sids)]
    BY DEF Enter
<1>2. /\ my \in CmdRecs /\ my.pc = "tui" /\ my.op = "cleanup"
      /\ my.shown \in Seq(Sids) /\ my.sel \subseteq DOMAIN my.shown
      /\ jobs[c] = << >> /\ AllGone(my.done)
    BY CmdIs DEF Enter, Fits, Staged
<1>3. CASE sids = << >>
    BY <1>1, <1>2, <1>3, QuitStep
<1>4. CASE sids # << >>
    <2>1. cmd' = [cmd EXCEPT ![c] = me(sids)]
        BY <1>1, <1>4
    <2> HIDE DEF my
    <2>2. IsFiniteSet(my.sel)
        <3>1. IsFiniteSet(1..Len(my.shown))
            BY <1>2, FS_Interval
        <3> QED BY <1>2, <3>1, FS_Subset
    <2>3. PICK o \in Rising(my.sel) : sids = [k \in DOMAIN o |-> my.shown[o[k]]]
        BY DEF SelectedSids
    <2>4. o \in Seq(my.sel)
        BY <2>2, SetToSeqsIs DEF Rising
    <2>5. sids \in Seq(Sids) /\ \A k \in DOMAIN sids : sids[k] \in {my.shown[j] : j \in my.sel}
        BY <1>2, <2>3, <2>4
    <2>6. /\ reqs(sids) \in Seq(DeleteReqs)
          /\ DOMAIN reqs(sids) = DOMAIN sids
          /\ reqs(sids) # << >>
          /\ \A k \in DOMAIN sids : reqs(sids)[k] \in DeleteReqs /\ reqs(sids)[k].sid = sids[k]
        <3>1. \A k \in DOMAIN sids : [t |-> "session.delete", sid |-> sids[k]] \in DeleteReqs
            BY <2>5 DEF DeleteReqs
        <3>2. DOMAIN sids = 1..Len(sids) /\ Len(sids) \in Nat /\ Len(sids) # 0
            BY <1>4, <2>5
        <3>3. DOMAIN reqs(sids) = DOMAIN sids
            OBVIOUS
        <3>4. \A k \in DOMAIN sids : reqs(sids)[k] \in DeleteReqs /\ reqs(sids)[k].sid = sids[k]
            BY <3>1
        <3>5. reqs(sids) \in Seq(DeleteReqs)
            BY <3>1, <3>2
        <3>6. reqs(sids) # << >>
            <4> HIDE DEF reqs
            <4>1. 1 \in DOMAIN reqs(sids)
                BY <3>2, <3>3
            <4> QED BY <4>1
        <3> QED BY <3>3, <3>4, <3>5, <3>6
    <2> HIDE DEF reqs
    <2>7. reqs(sids) \in Seq(Requests)
        BY <2>6 DEF Requests
    <2>8. me(sids) \in CmdRecs
        BY <1>2, <2>7 DEF CmdRecs, CmdSteps
    <2>9. /\ me(sids).pc \in {"check", "ask"} /\ me(sids).op = "cleanup" /\ me(sids).todo = reqs(sids)
          /\ me(sids).shown = my.shown /\ me(sids).sel = my.sel /\ me(sids).done = my.done
        BY <1>2 DEF CmdRecs
    <2> HIDE DEF me
    <2>10. \A k \in DOMAIN sids : Meant(me(sids), reqs(sids)[k])
        BY <2>5, <2>6, <2>9 DEF Meant
    <2>11. Fits(me(sids), << >>)
        BY <2>6, <2>9, <2>10 DEF Fits, Staged
    <2> QED BY <1>2, <2>1, <2>8, <2>9, <2>11, CmdStep
<1> QED BY <1>3, <1>4

LEMMA UserStep ==
  ASSUME CommandsInv, NEW c \in Cmds, User(c)
  PROVE  CommandsInv'
<1>0. UNCHANGED <<jobs, row, born>>
    BY DEF User, storeVars
<1>1. ASSUME NEW edit, EditCompletions(c, edit) PROVE CommandsInv'
    BY <1>0, <1>1, EditCompletionsStep
<1>2. CASE Typing(c)
    <2>1. CASE \/ \E want \in Typed, yes \in BOOLEAN : SessionDelete(c, want, yes)
               \/ \E want \in Typed, yes \in BOOLEAN : PairDelete(c, want, yes)
               \/ \E want \in Typed, label \in Labels \cup {NoLabel} : PairRename(c, want, label)
        BY <1>0, <2>1, SessionDeleteStep, PairDeleteStep, PairRenameStep
    <2>2. CASE \E p \in Prunes : SessionPrune(c, p.all, p.running, p.dry, p.yes)
        BY <1>0, <2>2, SessionPruneStep
    <2>3. CASE \E yes, preselect \in BOOLEAN : SessionCleanup(c, yes, preselect)
        BY <1>0, <2>3, SessionCleanupStep
    <2>4. CASE Key(c) \/ Enter(c)
        BY <1>0, <2>4, KeyStep, EnterStep
    <2>5. CASE Esc(c) \/ AnswerNo(c)
        BY <1>0, <2>5, QuitStep DEF Esc, AnswerNo
    <2>6. CASE AnswerYes(c)
        <3> DEFINE step == IF cmd[c].op = "prune" /\ cmd[c].running THEN "challenge"
                         ELSE IF cmd[c].op = "pairDelete" THEN "send" ELSE "check"
        <3>1. cmd[c].pc = "ask" /\ cmd' = [cmd EXCEPT ![c] = [cmd[c] EXCEPT !.pc = step]]
            BY <2>6 DEF AnswerYes
        <3>2. step \in {"challenge", "check", "send"}
            OBVIOUS
        <3> HIDE DEF step
        <3>3. cmd[c].tries \in Nat /\ [cmd[c] EXCEPT !.pc = step] = [cmd[c] EXCEPT !.pc = step, !.tries = cmd[c].tries]
            BY CmdIs DEF CmdRecs
        <3> QED BY <1>0, <3>1, <3>2, <3>3, PromptStep
    <2>7. CASE TypeRunning(c)
        <3>1. cmd[c].pc = "challenge" /\ cmd' = [cmd EXCEPT ![c] = [cmd[c] EXCEPT !.pc = "check", !.tries = 0]]
            BY <2>7 DEF TypeRunning
        <3> QED BY <1>0, <3>1, PromptStep
    <2>8. CASE TypeOther(c)
        <3>1. CASE cmd[c].tries + 1 = MaxTries
            BY <1>0, <2>8, <3>1, QuitStep DEF TypeOther
        <3>2. CASE cmd[c].tries + 1 # MaxTries
            <4>1. cmd[c].pc = "challenge" /\ cmd' = [cmd EXCEPT ![c] = [cmd[c] EXCEPT !.tries = cmd[c].tries + 1]]
                BY <2>8, <3>2 DEF TypeOther
            <4> DEFINE n == cmd[c].tries + 1
            <4>2. n \in Nat
                BY CmdIs DEF CmdRecs
            <4>3. cmd' = [cmd EXCEPT ![c] = [cmd[c] EXCEPT !.tries = n]]
                BY <4>1
            <4> HIDE DEF n
            <4>4. [cmd[c] EXCEPT !.tries = n] = [cmd[c] EXCEPT !.pc = "challenge", !.tries = n]
                BY <4>1, CmdIs DEF CmdRecs
            <4> QED BY <1>0, <4>1, <4>2, <4>3, <4>4, PromptStep
        <3> QED BY <3>1, <3>2
    <2>9. CASE CheckDaemon(c)
        <3>1. CASE daemon # "down"
            <4>1. cmd[c].pc = "check" /\ cmd' = [cmd EXCEPT ![c] = [cmd[c] EXCEPT !.pc = "send"]]
                BY <2>9, <3>1 DEF CheckDaemon
            <4>2. cmd[c].tries \in Nat /\ [cmd[c] EXCEPT !.pc = "send"] = [cmd[c] EXCEPT !.pc = "send", !.tries = cmd[c].tries]
                BY CmdIs DEF CmdRecs
            <4> QED BY <1>0, <4>1, <4>2, PromptStep
        <3>2. CASE daemon = "down"
            BY <1>0, <2>9, <3>2, QuitStep DEF CheckDaemon
        <3> QED BY <3>1, <3>2
    <2> QED BY <1>2, <2>1, <2>2, <2>3, <2>4, <2>5, <2>6, <2>7, <2>8, <2>9 DEF Typing
<1> QED BY <1>1, <1>2 DEF User

-----------------------------------------------------------------------------
(* What the command and the daemon do.                                      *)

LEMMA AdvanceStep ==
  ASSUME CommandsInv, NEW c \in Cmds, NEW gone \in SUBSET Sids, AllGone(gone), NEW ok \in BOOLEAN,
         cmd[c].pc \in {"send", "wait"}, Next1(c, gone, ok), UNCHANGED <<jobs, row, born>>
  PROVE  CommandsInv'
<1> DEFINE my == cmd[c]
           step == IF Len(my.todo) = 1 THEN "end" ELSE "send"
           okay == my.ok /\ ok
           me == [my EXCEPT !.todo = Tail(@), !.done = @ \cup gone, !.ok = okay, !.pc = step]
<1>1. my \in CmdRecs /\ Fits(my, jobs[c]) /\ AllGone(my.done) /\ my.todo # << >>
    BY CmdIs DEF Fits, Staged
<1>2. my.todo \in Seq(Requests)
    BY <1>1 DEF CmdRecs
<1>3. /\ Tail(my.todo) \in Seq(Requests)
      /\ Len(my.todo) # 1 => Tail(my.todo) # << >>
      /\ \A k \in DOMAIN Tail(my.todo) : k + 1 \in DOMAIN my.todo /\ Tail(my.todo)[k] = my.todo[k + 1]
    <2> HIDE DEF my
    <2> QED BY <1>1, <1>2, TailIs
<1>4. cmd' = [cmd EXCEPT ![c] = me]
    BY DEF Next1
<1>5. step \in {"end", "send"} /\ (step = "send" => Len(my.todo) # 1) /\ okay \in BOOLEAN
    OBVIOUS
<1> HIDE DEF my, step, okay
<1>6. me \in CmdRecs
    BY <1>1, <1>3, <1>5 DEF CmdRecs, CmdSteps
<1>7. SameWish(my, me) /\ me.todo = Tail(my.todo) /\ me.done = my.done \cup gone /\ me.pc = step
    BY <1>1 DEF CmdRecs, SameWish
<1> HIDE DEF me
<1>8. Staged(me, jobs[c])
    BY <1>3, <1>5, <1>7 DEF Staged
<1>9. Fits(me, jobs[c])
    BY <1>1, <1>3, <1>7, <1>8, StillMeant DEF Fits
<1>10. AllGone(me.done)
    BY <1>1, <1>7 DEF AllGone
<1> QED BY <1>4, <1>6, <1>9, <1>10, CmdStep

LEMMA RequestStep ==
  ASSUME CommandsInv, NEW c \in Cmds, Request(c), UNCHANGED <<row, born>>
  PROVE  CommandsInv'
<1>1. CASE daemon = "down"
    BY <1>1, AdvanceStep DEF Request, AllGone
<1>2. CASE daemon # "down"
    <2> DEFINE my == cmd[c]
               job == Job(Head(my.todo))
               me == [my EXCEPT !.pc = "wait"]
    <2>1. /\ jobs' = [jobs EXCEPT ![c] = Append(jobs[c], job)]
          /\ cmd' = [cmd EXCEPT ![c] = me]
        BY <1>2 DEF Request
    <2>2. my \in CmdRecs /\ Fits(my, jobs[c]) /\ my.todo # << >> /\ my.pc = "send" /\ jobs[c] \in Seq(Jobs)
        BY CmdIs DEF Fits, Staged, Request
    <2>3. /\ cmd \in [Cmds -> CmdRecs] /\ jobs \in [Cmds -> Seq(Jobs)] /\ RowType
          /\ \A d \in Cmds : /\ Fits(cmd[d], jobs[d]) /\ AllGone(cmd[d].done)
                             /\ \A i \in DOMAIN jobs[d] : Honest(jobs[d][i]) /\ AllGone(jobs[d][i].deleted)
        BY DEF CommandsInv, CmdType, JobType
    <2> HIDE DEF my
    <2>4. my.todo \in Seq(Requests)
        BY <2>2 DEF CmdRecs
    <2>5. Head(my.todo) \in Requests /\ Meant(my, Head(my.todo))
        BY <2>2, <2>4 DEF Fits
    <2>6. job \in Jobs /\ job.req = Head(my.todo) /\ job.st = "sent" /\ job.deleted = {} /\ job.seen = << >>
        BY <2>5 DEF Job, Jobs, JobSteps
    <2>7. Honest(job) /\ AllGone(job.deleted)
        BY <2>6 DEF Honest, AllGone
    <2>8. me \in CmdRecs /\ SameWish(my, me) /\ me.todo = my.todo /\ me.done = my.done /\ me.pc = "wait"
        BY <2>2 DEF CmdRecs, CmdSteps, SameWish
    <2> HIDE DEF job, me
    <2> DEFINE js == Append(jobs[c], job)
    <2>9. /\ js \in Seq(Jobs) /\ js # << >>
          /\ \A i \in DOMAIN js : js[i] = job \/ (i \in DOMAIN jobs[c] /\ js[i] = jobs[c][i])
        BY <2>2, <2>6, AppendIs
    <2> HIDE DEF js
    <2>10. Fits(me, js)
        <3>1. Staged(me, js)
            BY <2>2, <2>8, <2>9 DEF Staged
        <3>2. \A k \in DOMAIN me.todo : Meant(me, me.todo[k])
            BY <2>2, <2>8, StillMeant DEF Fits
        <3>3. \A i \in DOMAIN js : Meant(me, js[i].req)
            BY <2>2, <2>5, <2>6, <2>8, <2>9, StillMeant DEF Fits
        <3> QED BY <3>1, <3>2, <3>3 DEF Fits
    <2>11. jobs' = [jobs EXCEPT ![c] = js]
        BY <2>1 DEF js
    <2>12. cmd' \in [Cmds -> CmdRecs] /\ jobs' \in [Cmds -> Seq(Jobs)] /\ RowType'
        BY <2>1, <2>3, <2>8, <2>9, <2>11 DEF RowType
    <2>13. \A S : AllGone(S) <=> AllGone(S)'
        BY DEF AllGone, Gone
    <2>14. ASSUME NEW d \in Cmds
           PROVE  /\ Fits(cmd'[d], jobs'[d]) /\ AllGone(cmd'[d].done)
                  /\ \A i \in DOMAIN jobs'[d] : Honest(jobs'[d][i]) /\ AllGone(jobs'[d][i].deleted)
        <3>1. CASE d = c
            <4>1. cmd'[d] = me /\ jobs'[d] = js
                BY <2>1, <2>3, <2>11, <3>1
            <4>2. AllGone(me.done)
                BY <2>3, <2>8 DEF my
            <4> QED BY <2>3, <2>7, <2>9, <2>10, <3>1, <4>1, <4>2
        <3>2. CASE d # c
            <4>1. cmd'[d] = cmd[d] /\ jobs'[d] = jobs[d]
                BY <2>1, <2>3, <2>11, <3>2
            <4> QED BY <2>3, <4>1
        <3> QED BY <3>1, <3>2
    <2> QED BY <2>12, <2>14 DEF CommandsInv, CmdType, JobType, AllGone, Gone
<1> QED BY <1>1, <1>2

LEMMA LastIs ==
  ASSUME CommandsInv, NEW c \in Cmds, cmd[c].pc = "wait"
  PROVE  /\ Last(jobs[c]) \in Jobs /\ Honest(Last(jobs[c]))
         /\ AllGone(Last(jobs[c]).deleted) /\ Meant(cmd[c], Last(jobs[c]).req)
<1>1. jobs[c] \in Seq(Jobs) /\ jobs[c] # << >>
    BY CmdIs DEF Fits, Staged
<1>2. Len(jobs[c]) \in DOMAIN jobs[c] /\ Last(jobs[c]) = jobs[c][Len(jobs[c])]
    BY <1>1 DEF Last
<1>3. Last(jobs[c]) \in Jobs
    BY <1>1, <1>2
<1> QED BY <1>2, <1>3, CmdIs DEF CommandsInv, Fits

LEMMA CmdAnswerStep ==
  ASSUME CommandsInv, NEW c \in Cmds, Cli(c)
  PROVE  CommandsInv'
<1>0. UNCHANGED <<row, born>>
    BY DEF Cli, storeVars
<1>1. CASE Request(c)
    BY <1>0, <1>1, RequestStep
<1> DEFINE job == Last(jobs[c])
<1>2. ASSUME NEW op, Received(c, op)
      PROVE  /\ cmd[c].pc = "wait" /\ cmd[c].op = op
             /\ job.st \in {"answered", "closed"} /\ job.ok \in BOOLEAN
             /\ job.deleted \in SUBSET Sids /\ AllGone(job.deleted)
    BY <1>2, LastIs DEF Received, Jobs
<1>3. ASSUME Received(c, "delete") \/ Received(c, "cleanup")
      PROVE  Deleted1(job) \subseteq job.deleted
    <2>1. job.req \in DeleteReqs /\ Honest(job)
        BY <1>2, <1>3, LastIs DEF Meant
    <2> QED BY <1>2, <1>3, <2>1 DEF Deleted1, Honest
<1>4. CASE (DeleteAnswered(c) \/ CleanupAnswered(c)) /\ UNCHANGED jobs
    <2>1. Received(c, "delete") \/ Received(c, "cleanup")
        BY <1>4 DEF DeleteAnswered, CleanupAnswered
    <2>2. /\ Deleted1(job) \in SUBSET Sids /\ AllGone(Deleted1(job))
          /\ cmd[c].pc = "wait" /\ job.ok \in BOOLEAN
        BY <1>2, <1>3, <2>1 DEF AllGone
    <2>3. Next1(c, Deleted1(job), job.ok)
        BY <1>4 DEF DeleteAnswered, CleanupAnswered
    <2> HIDE DEF job
    <2> QED BY <1>0, <1>4, <2>2, <2>3, AdvanceStep
<1>5. CASE PruneAnswered(c) /\ UNCHANGED jobs
    <2>1. job.deleted \in SUBSET Sids /\ AllGone(job.deleted) /\ cmd[c].pc = "wait" /\ job.ok \in BOOLEAN
        BY <1>2, <1>5 DEF PruneAnswered
    <2>2. Next1(c, job.deleted, job.ok)
        BY <1>5 DEF PruneAnswered
    <2> HIDE DEF job
    <2> QED BY <1>0, <1>5, <2>1, <2>2, AdvanceStep
<1>6. CASE (PairDeleteAnswered(c) \/ PairRenameAnswered(c)) /\ UNCHANGED jobs
    <2>1. Received(c, "pairDelete") \/ Received(c, "pairRename")
        BY <1>6 DEF PairDeleteAnswered, PairRenameAnswered
    <2>2. cmd[c].pc = "wait" /\ job.ok \in BOOLEAN
        BY <1>2, <2>1
    <2>3. Next1(c, {}, job.ok)
        BY <1>6 DEF PairDeleteAnswered, PairRenameAnswered
    <2> HIDE DEF job
    <2> QED BY <1>0, <1>6, <2>2, <2>3, AdvanceStep DEF AllGone
<1> QED BY <1>1, <1>4, <1>5, <1>6 DEF Cli

LEMMA JobIs ==
  ASSUME CommandsInv, NEW c \in Cmds, NEW i \in DOMAIN jobs[c]
  PROVE  /\ jobs[c][i] \in Jobs /\ Honest(jobs[c][i]) /\ AllGone(jobs[c][i].deleted)
         /\ Meant(cmd[c], jobs[c][i].req) /\ cmd[c].pc \in {"send", "wait", "end"}
<1>1. jobs[c] \in Seq(Jobs) /\ Fits(cmd[c], jobs[c]) /\ cmd[c] \in CmdRecs
    BY CmdIs
<1>2. jobs[c][i] \in Jobs
    BY <1>1
<1>3. jobs[c] # << >>
    OBVIOUS
<1> QED BY <1>1, <1>2, <1>3 DEF CommandsInv, Fits, Staged, CmdRecs, CmdSteps

\* What an answer of a handler that erases nothing, or has erased, may say.
LEMMA AnswerStep ==
  ASSUME CommandsInv, NEW c \in Cmds, NEW i \in DOMAIN jobs[c], NEW ok \in BOOLEAN,
         Answer(c, i, ok), UNCHANGED <<cmd, row, born>>,
         ok /\ jobs[c][i].req \in DeleteReqs => jobs[c][i].req.sid \in jobs[c][i].deleted
  PROVE  CommandsInv'
<1>1. PICK was : was = jobs[c][i]
    OBVIOUS
<1>2. PICK job : job = [was EXCEPT !.st = "answered", !.ok = ok]
    OBVIOUS
<1>3. was \in Jobs /\ Honest(was) /\ AllGone(was.deleted)
    BY <1>1, JobIs
<1>4. Put(c, i, job)
    BY <1>1, <1>2 DEF Answer
<1>5. job \in Jobs
    BY <1>2, <1>3 DEF Jobs, JobSteps
<1>6. /\ job.req = was.req /\ job.st = "answered" /\ job.ok = ok /\ job.deleted = was.deleted /\ job.seen = was.seen
      /\ job.scope = was.scope
    BY <1>2, <1>3 DEF Jobs
<1>7. Honest(job)
    BY <1>1, <1>3, <1>6 DEF Honest
<1>8. AllGone(job.deleted)'
    BY <1>3, <1>6 DEF AllGone, Gone
<1>9. RowType' /\ StaysGone
    BY DEF CommandsInv, RowType, StaysGone, Gone
<1> QED BY <1>1, <1>4, <1>5, <1>6, <1>7, <1>8, <1>9, JobStep

LEMMA FoundIs ==
  ASSUME CommandsInv, NEW s \in Sids
  PROVE  Candidate(s) \in Found /\ Candidate(s).sid = s
BY DEF Candidate, Found

LEMMA HandleSessionDeleteStep ==
  ASSUME CommandsInv, NEW c \in Cmds, NEW i \in DOMAIN jobs[c], HandleSessionDelete(c, i),
         UNCHANGED <<cmd, row, born>>
  PROVE  CommandsInv'
<1>1. PICK was : was = jobs[c][i]
    OBVIOUS
<1>2. was \in Jobs /\ Honest(was) /\ AllGone(was.deleted) /\ was.req.t = "session.delete"
    BY <1>1, JobIs DEF HandleSessionDelete, At
<1>3. was.req \in DeleteReqs
    BY <1>2 DEF Jobs, Requests, DeleteReqs, PruneReqs, PairReqs
<1>4. PICK s : s = was.req.sid /\ s \in Sids
    BY <1>3 DEF DeleteReqs
<1>5. CASE row[s] = "none"
    BY <1>1, <1>4, <1>5, AnswerStep DEF HandleSessionDelete
<1>6. CASE row[s] # "none"
    <2>1. PICK x \in Found : x = Candidate(s) /\ x.sid = s
        BY <1>4, FoundIs
    <2>2. PICK job : job = [was EXCEPT !.st = "erase", !.seen = <<x>>]
        OBVIOUS
    <2>3. Put(c, i, job)
        BY <1>1, <1>4, <1>6, <2>1, <2>2 DEF HandleSessionDelete
    <2>4. <<x>> \in Seq(Found) /\ Len(<<x>>) = 1 /\ <<x>>[1] = x
        OBVIOUS
    <2>5. job \in Jobs
        BY <1>2, <2>2, <2>4 DEF Jobs, JobSteps
    <2>6. job.req = was.req /\ job.st = "erase" /\ job.seen = <<x>> /\ job.deleted = was.deleted
        BY <1>2, <2>2 DEF Jobs
    <2>7. was.req \notin PruneReqs
        BY <1>2 DEF PruneReqs
    <2>8. Honest(job)
        BY <1>3, <1>4, <2>1, <2>4, <2>6, <2>7 DEF Honest
    <2>9. AllGone(job.deleted)' /\ RowType' /\ StaysGone
        BY <1>2, <2>6 DEF AllGone, Gone, CommandsInv, RowType, StaysGone
    <2> QED BY <1>1, <2>3, <2>5, <2>6, <2>8, <2>9, JobStep
<1> QED BY <1>5, <1>6

LEMMA PruneIsMeant ==
  ASSUME NEW me \in CmdRecs, NEW req \in PruneReqs, Meant(me, req)
  PROVE  me.op = "prune" /\ req.all = me.all /\ req.running = me.running /\ req.dry = me.dry
<1>1. me.op \in Ops /\ req \notin DeleteReqs /\ req \notin PairReqs
    BY DEF CmdRecs, DeleteReqs, PruneReqs, PairReqs
<1> QED BY <1>1 DEF Meant, Ops

LEMMA HandleSessionPruneStep ==
  ASSUME CommandsInv, NEW c \in Cmds, NEW i \in DOMAIN jobs[c], HandleSessionPrune(c, i),
         UNCHANGED <<cmd, row, born>>
  PROVE  CommandsInv'
<1>1. PICK was : was = jobs[c][i]
    OBVIOUS
<1>2. was \in Jobs /\ Honest(was) /\ AllGone(was.deleted) /\ was.req.t = "session.prune"
    BY <1>1, JobIs DEF HandleSessionPrune, At
<1>3. was.req \in PruneReqs
    BY <1>2 DEF Jobs, Requests, DeleteReqs, PruneReqs, PairReqs
<1>4. was.req \notin DeleteReqs
    BY <1>2 DEF DeleteReqs
<1>5. CASE was.req.dry
    BY <1>1, <1>4, <1>5, AnswerStep DEF HandleSessionPrune
<1>6. CASE ~was.req.dry
    <2>1. Candidates(was.req) \subseteq Sids
        BY DEF Candidates, Listed
    <2>2. IsFiniteSet(Candidates(was.req))
        BY <2>1, CommandsAssumption, FS_Subset
    <2>3. PICK sids : sids = SetToSeq(Candidates(was.req))
        OBVIOUS
    <2>4. sids \in Seq(Candidates(was.req))
        BY <2>2, <2>3, SetToSeqIs
    <2>5. \A k \in DOMAIN sids : /\ sids[k] \in Candidates(was.req) /\ sids[k] \in Sids
                                 /\ Candidate(sids[k]) \in Found
                                 /\ Candidate(sids[k]).running = (row[sids[k]] = "running")
        BY <2>1, <2>4, FoundIs DEF Candidate
    <2>6. PICK seen : seen = [k \in DOMAIN sids |-> Candidate(sids[k])]
        OBVIOUS
    <2>a. Candidates(was.req) \subseteq InScope(cmd[c]) /\ InScope(cmd[c]) \subseteq Sids
        <3>1. was.req.all = cmd[c].all /\ was.req.running = cmd[c].running /\ ~cmd[c].dry
            BY <1>1, <1>3, <1>6, JobIs, CmdIs, PruneIsMeant
        <3>2. row \in [Sids -> {"none", "stopped", "running"}]
            BY DEF CommandsInv, RowType
        <3> QED BY <3>1, <3>2 DEF Candidates, Listed, InScope
    <2>7. seen \in Seq(Found) /\ \A k \in DOMAIN seen : /\ seen[k].running => was.req.running
                                                        /\ seen[k].sid \in InScope(cmd[c])
        <3>1. Len(sids) \in Nat /\ DOMAIN sids = 1..Len(sids)
            BY <2>4
        <3>2. seen \in Seq(Found)
            BY <2>5, <2>6, <3>1
        <3>3. DOMAIN seen = DOMAIN sids /\ \A k \in DOMAIN sids : seen[k] = Candidate(sids[k])
            BY <2>6
        <3>4. \A k \in DOMAIN sids : Candidate(sids[k]).sid = sids[k]
            BY <2>5, FoundIs
        <3>5. \A k \in DOMAIN sids : Candidate(sids[k]).running => was.req.running
            BY <2>5 DEF Candidates
        <3>6. \A k \in DOMAIN sids : Candidate(sids[k]).sid \in InScope(cmd[c])
            BY <2>5, <2>a, <3>4
        <3> QED BY <3>2, <3>3, <3>5, <3>6
    <2>8. PICK job : job = [was EXCEPT !.st = "erase", !.scope = InScope(cmd[c]), !.seen = seen]
        OBVIOUS
    <2>9. Put(c, i, job)
        BY <1>1, <1>6, <2>3, <2>6, <2>8 DEF HandleSessionPrune
    <2>10. job \in Jobs
        BY <1>2, <2>7, <2>8, <2>a DEF Jobs, JobSteps
    <2>11. /\ job.req = was.req /\ job.st = "erase" /\ job.seen = seen /\ job.deleted = was.deleted
           /\ job.scope = InScope(cmd[c])
        BY <1>2, <2>8 DEF Jobs
    <2>12. Honest(job)
        BY <1>3, <1>4, <1>6, <2>7, <2>11 DEF Honest
    <2>13. AllGone(job.deleted)' /\ RowType' /\ StaysGone
        BY <1>2, <2>11 DEF AllGone, Gone, CommandsInv, RowType, StaysGone
    <2> QED BY <1>1, <2>9, <2>10, <2>11, <2>12, <2>13, JobStep
<1> QED BY <1>5, <1>6

LEMMA EraseDoneStep ==
  ASSUME CommandsInv, NEW c \in Cmds, NEW i \in DOMAIN jobs[c], EraseDone(c, i),
         UNCHANGED <<cmd, row, born>>
  PROVE  CommandsInv'
<1>1. /\ Honest(jobs[c][i]) /\ jobs[c][i].st = "erase" /\ jobs[c][i].seen = << >>
      /\ Len(<< >>) = 0
    BY JobIs DEF EraseDone
<1>2. jobs[c][i].req \in DeleteReqs => jobs[c][i].req.sid \in jobs[c][i].deleted
    BY <1>1 DEF Honest
<1> QED BY <1>2, AnswerStep DEF EraseDone

\* A handler that erases nothing.
LEMMA MovesStep ==
  ASSUME CommandsInv, NEW c \in Cmds, NEW i \in DOMAIN jobs[c], NEW st \in {"apply", "notify"},
         Put(c, i, [jobs[c][i] EXCEPT !.st = st]), UNCHANGED <<cmd, row, born>>
  PROVE  CommandsInv'
<1>1. PICK was : was = jobs[c][i]
    OBVIOUS
<1>2. was \in Jobs /\ Honest(was) /\ AllGone(was.deleted)
    BY <1>1, JobIs
<1>3. PICK job : job = [was EXCEPT !.st = st]
    OBVIOUS
<1>4. job \in Jobs
    BY <1>2, <1>3 DEF Jobs, JobSteps
<1>5. /\ job.req = was.req /\ job.st = st /\ job.seen = was.seen /\ job.deleted = was.deleted
      /\ job.scope = was.scope
    BY <1>2, <1>3 DEF Jobs
<1>6. Honest(job)
    BY <1>2, <1>5 DEF Honest
<1>7. AllGone(job.deleted)' /\ RowType' /\ StaysGone
    BY <1>2, <1>5 DEF AllGone, Gone, CommandsInv, RowType, StaysGone
<1> QED BY <1>1, <1>3, <1>4, <1>5, <1>6, <1>7, JobStep

LEMMA PairHandlerStep ==
  ASSUME CommandsInv, NEW c \in Cmds, NEW i \in DOMAIN jobs[c], UNCHANGED <<cmd, row, born>>,
         GuardPairing(c, i) \/ HandlePairRemove(c, i) \/ HandlePairRename(c, i) \/ RenameNotifies(c, i)
  PROVE  CommandsInv'
<1>1. jobs[c][i].req.t \in {"pair.remove", "pair.rename"}
    BY DEF GuardPairing, HandlePairRemove, HandlePairRename, RenameNotifies, At
<1>2. jobs[c][i].req \notin DeleteReqs
    BY <1>1 DEF DeleteReqs
<1>3. CASE Answer(c, i, TRUE) \/ Answer(c, i, FALSE)
    BY <1>2, <1>3, AnswerStep
<1>4. CASE \E st \in {"apply", "notify"} : Put(c, i, [jobs[c][i] EXCEPT !.st = st])
    BY <1>4, MovesStep
<1>5. \/ Answer(c, i, TRUE) \/ Answer(c, i, FALSE)
      \/ \E st \in {"apply", "notify"} : Put(c, i, [jobs[c][i] EXCEPT !.st = st])
    BY DEF GuardPairing, HandlePairRemove, HandlePairRename, RenameNotifies
<1> QED BY <1>3, <1>4, <1>5

\* What an erasure does to the rows.
LEMMA ErasureIs ==
  ASSUME NEW s, NEW e \in Erasures(s)
  PROVE  e.row \in {row[s], "none"} /\ e.ok \in BOOLEAN /\ (e.ok => e.row = "none")
<1>1. CASE e = [row |-> row[s], db |-> s \in db, ok |-> FALSE]
    BY <1>1
<1>2. ASSUME NEW disk \in UnlinkRetry(s), e = [row |-> "none", db |-> disk.db, ok |-> disk.ok]
      PROVE  e.row = "none" /\ e.ok \in BOOLEAN
    <2>1. disk.ok \in BOOLEAN
        <3>1. CASE disk = [db |-> FALSE, ok |-> TRUE]
            BY <3>1
        <3>2. ASSUME NEW okay \in BOOLEAN, disk = [db |-> s \in db, ok |-> okay] PROVE disk.ok \in BOOLEAN
            BY <3>2
        <3> QED BY <3>1, <3>2 DEF UnlinkRetry
    <2> QED BY <1>2, <2>1
<1> QED BY <1>1, <1>2 DEF Erasures

LEMMA EraseNextStep ==
  ASSUME CommandsInv, NEW c \in Cmds, NEW i \in DOMAIN jobs[c], EraseNext(c, i), UNCHANGED cmd
  PROVE  CommandsInv'
<1>1. PICK was : was = jobs[c][i]
    OBVIOUS
<1>2. /\ was \in Jobs /\ Honest(was) /\ AllGone(was.deleted)
      /\ was.st = "erase" /\ was.seen # << >>
    BY <1>1, JobIs DEF EraseNext
<1>3. was.seen \in Seq(Found)
    BY <1>2 DEF Jobs
<1>4. PICK next \in Found : next = Head(was.seen)
    BY <1>2, <1>3, TailIs
<1>5. PICK s \in Sids : s = next.sid
    BY DEF Found
<1>6. PICK e \in Erasures(s) : /\ row' = [row EXCEPT ![s] = e.row]
                               /\ Put(c, i, Reported(was, s, e.ok))
    BY <1>1, <1>4, <1>5 DEF EraseNext
<1>7. e.row \in {row[s], "none"} /\ e.ok \in BOOLEAN /\ (e.ok => e.row = "none")
    BY ErasureIs
<1>8. RowType /\ UNCHANGED born
    BY DEF CommandsInv, EraseNext
<1>9. RowType' /\ StaysGone /\ (e.ok => Gone(s)')
    BY <1>6, <1>7, <1>8 DEF RowType, StaysGone, Gone
<1>10. PICK job : job = Reported(was, s, e.ok)
    OBVIOUS
<1>11. was.req = jobs[c][i].req /\ was.deleted \subseteq Sids
    BY <1>1, <1>2 DEF Jobs
<1>12. CASE e.ok
    <2>1. job = [was EXCEPT !.seen = Tail(was.seen), !.deleted = was.deleted \cup {s}]
        BY <1>10, <1>12 DEF Reported
    <2>2. Tail(was.seen) \in Seq(Found)
        BY <1>2, <1>3, TailIs
    <2>3. job \in Jobs
        BY <1>2, <1>11, <2>1, <2>2 DEF Jobs
    <2>4. /\ job.req = was.req /\ job.st = "erase" /\ job.seen = Tail(was.seen)
          /\ job.deleted = was.deleted \cup {s} /\ job.scope = was.scope
        BY <1>2, <2>1 DEF Jobs
    <2>5. was.req \in DeleteReqs => Tail(was.seen) = << >> /\ was.req.sid = s
        <3> SUFFICES ASSUME was.req \in DeleteReqs PROVE Tail(was.seen) = << >> /\ was.req.sid = s
            OBVIOUS
        <3>1. Len(was.seen) = 1 /\ was.seen[1].sid = was.req.sid
            BY <1>2 DEF Honest
        <3> QED BY <1>2, <1>3, <1>4, <1>5, <3>1, TailIs
    <2>6. was.req \in PruneReqs =>
            \A k \in DOMAIN Tail(was.seen) : /\ Tail(was.seen)[k].running => was.req.running
                                             /\ Tail(was.seen)[k].sid \in was.scope
        BY <1>2, <1>3, TailIs DEF Honest
    <2>7. Honest(job)
        BY <1>2, <2>4, <2>5, <2>6 DEF Honest
    <2>8. AllGone(job.deleted)'
        BY <1>2, <1>9, <1>11, <1>12, <2>4 DEF AllGone, StaysGone
    <2> QED BY <1>6, <1>9, <1>10, <1>11, <2>3, <2>4, <2>7, <2>8, JobStep
<1>13. CASE ~e.ok
    <2>1. job = [was EXCEPT !.st = "answered", !.ok = FALSE, !.seen = << >>]
        BY <1>10, <1>13 DEF Reported
    <2>2. job \in Jobs
        <3>1. << >> \in Seq(Found)
            BY EmptySeq
        <3> QED BY <1>2, <2>1, <3>1 DEF Jobs, JobSteps
    <2>3. /\ job.req = was.req /\ job.st = "answered" /\ job.seen = << >> /\ job.ok = FALSE
          /\ job.deleted = was.deleted
        BY <1>2, <2>1 DEF Jobs
    <2>4. Honest(job)
        BY <1>2, <2>3 DEF Honest
    <2>5. AllGone(job.deleted)'
        BY <1>2, <1>9, <1>11, <2>3 DEF AllGone, StaysGone
    <2> QED BY <1>6, <1>9, <1>10, <1>11, <2>2, <2>3, <2>4, <2>5, JobStep
<1> QED BY <1>7, <1>12, <1>13

LEMMA HandlerStep ==
  ASSUME CommandsInv, NEW c \in Cmds, NEW i \in DOMAIN jobs[c], Handler(c, i)
  PROVE  CommandsInv'
<1>1. UNCHANGED cmd /\ (EraseNext(c, i) \/ UNCHANGED <<row, born>>)
    BY DEF Handler, storeVars
<1>2. CASE EraseNext(c, i)
    BY <1>1, <1>2, EraseNextStep
<1>3. CASE ~EraseNext(c, i)
    <2>1. UNCHANGED <<cmd, row, born>>
        BY <1>1, <1>3
    <2>2. \/ HandleSessionDelete(c, i) \/ HandleSessionPrune(c, i) \/ EraseDone(c, i)
          \/ GuardPairing(c, i) \/ HandlePairRemove(c, i) \/ HandlePairRename(c, i) \/ RenameNotifies(c, i)
        BY <1>3 DEF Handler
    <2> QED BY <2>1, <2>2, HandleSessionDeleteStep, HandleSessionPruneStep, EraseDoneStep, PairHandlerStep
<1> QED BY <1>2, <1>3

LEMMA PruneOldIs ==
  ASSUME CommandsInv, PruneOldSessions
  PROVE  RowType' /\ StaysGone
BY DEF CommandsInv, PruneOldSessions, RowType, StaysGone, Gone

\* The daemon's death ends every handler without an answer.
LEMMA DaemonStopsStep ==
  ASSUME CommandsInv, DaemonStops, UNCHANGED <<cmd, row, born>>
  PROVE  CommandsInv'
<1> DEFINE closed(req) == [Job(req) EXCEPT !.st = "closed", !.ok = FALSE]
<1>0. jobs \in [Cmds -> Seq(Jobs)] /\ cmd \in [Cmds -> CmdRecs] /\ RowType
    BY DEF CommandsInv, JobType, CmdType
<1>1. ASSUME NEW req \in Requests
      PROVE  /\ closed(req) \in Jobs /\ closed(req).req = req
             /\ Honest(closed(req)) /\ closed(req).deleted = {}
    <2>1. PICK job : job = closed(req)
        OBVIOUS
    <2>2. job \in Jobs /\ job.req = req /\ job.st = "closed" /\ ~job.ok /\ job.deleted = {} /\ job.seen = << >>
        <3>1. job = [req |-> req, st |-> "closed", seen |-> << >>, scope |-> {}, deleted |-> {}, ok |-> FALSE]
            BY <2>1 DEF Job
        <3>2. << >> \in Seq(Found)
            BY EmptySeq
        <3> QED BY <3>1, <3>2 DEF Jobs, JobSteps
    <2>3. Honest(job)
        BY <2>2 DEF Honest
    <2> QED BY <2>1, <2>2, <2>3
<1>2. jobs' = [c \in Cmds |-> [i \in DOMAIN jobs[c] |->
                    IF jobs[c][i].st = "answered" THEN jobs[c][i] ELSE closed(jobs[c][i].req)]]
    BY DEF DaemonStops
<1> HIDE DEF closed
<1>3. ASSUME NEW d \in Cmds, NEW k \in DOMAIN jobs[d]
      PROVE  /\ jobs'[d][k] \in Jobs /\ jobs'[d][k].req = jobs[d][k].req
             /\ Honest(jobs'[d][k]) /\ AllGone(jobs'[d][k].deleted)
    <2>1. jobs[d][k] \in Jobs /\ Honest(jobs[d][k]) /\ AllGone(jobs[d][k].deleted)
        BY JobIs
    <2>2. jobs[d][k].req \in Requests
        BY <2>1 DEF Jobs
    <2>3. jobs'[d][k] = IF jobs[d][k].st = "answered" THEN jobs[d][k] ELSE closed(jobs[d][k].req)
        BY <1>2
    <2> QED BY <1>1, <2>1, <2>2, <2>3 DEF AllGone
<1>4. ASSUME NEW d \in Cmds
      PROVE  DOMAIN jobs'[d] = DOMAIN jobs[d] /\ jobs'[d] \in Seq(Jobs) /\ (jobs'[d] = << >> <=> jobs[d] = << >>)
    <2>1. jobs[d] \in Seq(Jobs) /\ DOMAIN jobs'[d] = DOMAIN jobs[d]
        BY <1>0, <1>2
    <2>2. Len(jobs[d]) \in Nat /\ DOMAIN jobs[d] = 1..Len(jobs[d])
        BY <2>1
    <2>3. jobs'[d] = [k \in 1..Len(jobs[d]) |-> jobs'[d][k]]
        BY <1>2, <2>2
    <2>4. jobs'[d] \in Seq(Jobs)
        BY <1>3, <2>2, <2>3
    <2> QED BY <2>1, <2>4
<1>5. jobs' \in [Cmds -> Seq(Jobs)]
    BY <1>2, <1>4
<1>6. ASSUME NEW d \in Cmds
      PROVE  Fits(cmd[d], jobs'[d]) /\ AllGone(cmd[d].done)
    BY <1>3, <1>4, CmdIs DEF Fits, Staged
<1>7. \A S : AllGone(S) <=> AllGone(S)'
    BY DEF AllGone, Gone
<1> QED BY <1>0, <1>3, <1>4, <1>5, <1>6 DEF CommandsInv, JobType, CmdType, RowType, AllGone, Gone

LEMMA EventStep ==
  ASSUME CommandsInv, Event
  PROVE  CommandsInv'
<1>0. RowType
    BY DEF CommandsInv
<1>1. ASSUME NEW c \in Cmds, TimesOut(c), UNCHANGED <<jobs, row, born>> PROVE CommandsInv'
    BY <1>1, AdvanceStep DEF TimesOut, AllGone
<1>2. ASSUME NEW s \in Sids, AppRestarts(s) \/ HelloCreates(s) \/ RunnerExits(s), UNCHANGED <<cmd, jobs>>
      PROVE  CommandsInv'
    <2>1. RowType' /\ StaysGone
        BY <1>0, <1>2 DEF AppRestarts, HelloCreates, RunnerExits, RowType, StaysGone, Gone
    <2> QED BY <1>2, <2>1, RowStep
<1>3. CASE RunPeriodicPrune /\ UNCHANGED <<cmd, jobs>>
    BY <1>3, PruneOldIs, RowStep DEF RunPeriodicPrune
<1>4. CASE DaemonStops /\ UNCHANGED <<cmd, row, born>>
    BY <1>4, DaemonStopsStep
<1> QED BY <1>1, <1>2, <1>3, <1>4 DEF Event, storeVars

\* Every step keeps the invariant.
LEMMA NextInv == CommandsInv /\ [CommandsNext]_commandsVars => CommandsInv'
<1> SUFFICES ASSUME CommandsInv, [CommandsNext]_commandsVars PROVE CommandsInv'
    OBVIOUS
<1>1. CASE UserWrites \/ UNCHANGED commandsVars
    <2>1. UNCHANGED <<cmd, jobs, row, born>>
        BY <1>1 DEF UserWrites, commandsVars, storeVars
    <2>2. RowType' /\ StaysGone
        BY <2>1 DEF CommandsInv, RowType, StaysGone, Gone
    <2> QED BY <2>1, <2>2, RowStep
<1>2. CASE Starting
    <2>1. CASE DaemonStarts
        <3>1. RowType' /\ StaysGone
            BY <2>1 DEF CommandsInv, DaemonStarts, RowType, StaysGone, Gone
        <3> QED BY <1>2, <3>1, RowStep DEF Starting
    <2>2. CASE RunStartupCleanup
        BY <1>2, <2>2, PruneOldIs, RowStep DEF Starting, RunStartupCleanup
    <2> QED BY <1>2, <2>1, <2>2 DEF Starting
<1> QED BY <1>1, <1>2, UserStep, CmdAnswerStep, HandlerStep, EventStep DEF CommandsNext

-----------------------------------------------------------------------------
(* What the invariant is for.                                               *)

\* A command sends what its user meant, a handler erases what it was asked to and
\* reports what it erased, and what was reported is gone: session.rs (delete, prune,
\* cleanup), pair.rs, and the daemon's handlers.
THEOREM CommandsInvariant == CommandsSpec => []CommandsInv
BY InitInv, NextInv, PTL DEF CommandsSpec

\* A session that a command reports as deleted, or an answer on its way to it, was
\* deleted: the row was gone then, and is there now only if a runner's hello made it
\* anew (handle_session_delete, handle_session_prune).
THEOREM ReportsAreTrue == CommandsSpec => []ReportedIsGone
<1>1. CommandsInv => ReportedIsGone
    BY DEF CommandsInv, ReportedIsGone, AllGone, Gone
<1> QED BY <1>1, CommandsInvariant, PTL

\* The user of the command has agreed to what its handlers erase.
LEMMA ErasedIsAgreed ==
  ASSUME CommandsInv, NEW c \in Cmds, NEW i \in DOMAIN jobs[c],
         jobs[c][i].st = "erase", jobs[c][i].seen # << >>
  PROVE  LET next == Head(jobs[c][i].seen)
         IN  /\ next.sid \in Agreed(c)
             /\ next.running /\ cmd[c].op = "prune" => cmd[c].running
<1>1. PICK job : job = jobs[c][i]
    OBVIOUS
<1>2. PICK next : next = Head(job.seen)
    OBVIOUS
<1>3. /\ job \in Jobs /\ Honest(job) /\ Meant(cmd[c], job.req) /\ cmd[c].pc \in {"send", "wait", "end"}
      /\ job.st = "erase" /\ job.seen # << >>
    BY <1>1, JobIs
<1>4. job.seen \in Seq(Found)
    BY <1>3 DEF Jobs
<1>5. next \in Found /\ next = job.seen[1] /\ 1 \in DOMAIN job.seen
    BY <1>2, <1>3, <1>4, TailIs, EmptySeq
<1>6. job.req \in DeleteReqs \cup PruneReqs /\ cmd[c].op \in Ops
    BY <1>3, CmdIs DEF Honest, CmdRecs
<1>7. CASE job.req \in DeleteReqs
    <2>1. next.sid = job.req.sid
        BY <1>3, <1>5, <1>7 DEF Honest
    <2>2. cmd[c].op \in {"delete", "cleanup"}
        BY <1>3, <1>6, <1>7 DEF Meant, Ops, DeleteReqs, PruneReqs, PairReqs
    <2> QED BY <1>1, <1>2, <1>3, <2>1, <2>2 DEF Meant, Agreed
<1>8. CASE job.req \in PruneReqs
    <2>1. cmd[c].op = "prune" /\ job.req.running = cmd[c].running
        BY <1>3, <1>6, <1>8 DEF Meant, Ops, DeleteReqs, PruneReqs, PairReqs
    <2>2. (next.running => job.req.running) /\ next.sid \in job.scope
        BY <1>3, <1>5, <1>8 DEF Honest
    <2>3. next.sid \in UNION {jobs[c][k].scope : k \in DOMAIN jobs[c]}
        BY <1>1, <2>2
    <2>4. next.sid \in Agreed(c)
        BY <1>1, <1>2, <1>3, <2>1, <2>2, <2>3 DEF Agreed
    <2> QED BY <1>1, <1>2, <2>1, <2>2, <2>4
<1> QED BY <1>6, <1>7, <1>8

\* What a step of the sessions may never do, as ConfirmedOnly says it.
Confirmed(s) ==
    /\ row[s] # "none" /\ row'[s] = "none" =>
        \/ row[s] = "stopped" /\ s \in old /\ UNCHANGED jobs
        \/ \E c \in Cmds : Handles(c) /\ s \in Agreed(c)
    /\ \A c \in Cmds : Handles(c) /\ s \in live \ live' /\ daemon' # "down" =>
        s \in Agreed(c) /\ (cmd[c].op = "prune" => cmd[c].running)

LEMMA EraseHandles ==
  ASSUME CommandsInv, NEW c \in Cmds, NEW i \in DOMAIN jobs[c], EraseNext(c, i)
  PROVE  Handles(c) /\ \A d \in Cmds \ {c} : ~Handles(d)
<1>1. PICK was : was = jobs[c][i]
    OBVIOUS
<1>2. was \in Jobs /\ was.st = "erase" /\ was.seen # << >> /\ was.seen \in Seq(Found)
    BY <1>1, JobIs DEF EraseNext, Jobs
<1>3. PICK s, e : Put(c, i, Reported(was, s, e.ok))
    BY <1>1 DEF EraseNext
<1>4. jobs \in [Cmds -> Seq(Jobs)]
    BY DEF CommandsInv, JobType
<1>5. Tail(was.seen) # was.seen
    <2>1. PICK q \in Seq(Found) : q = was.seen /\ q # << >>
        BY <1>2
    <2>2. Len(q) \in Nat /\ Len(Tail(q)) = Len(q) - 1
        BY <2>1, HeadTailProperties
    <2>3. Len(Tail(q)) # Len(q)
        BY <2>2
    <2> QED BY <2>1, <2>3
<1>6. PICK job : job = Reported(was, s, e.ok)
    OBVIOUS
<1>7. job # was
    <2>1. CASE e.ok
        <3>1. job.seen = Tail(was.seen)
            BY <1>2, <1>6, <2>1 DEF Reported, Jobs
        <3> QED BY <1>5, <3>1
    <2>2. CASE ~e.ok
        <3>1. job.st = "answered"
            BY <1>2, <1>6, <2>2 DEF Reported, Jobs
        <3> QED BY <1>2, <3>1
    <2> QED BY <2>1, <2>2
<1>8. jobs'[c][i] = job /\ \A d \in Cmds \ {c} : jobs'[d] = jobs[d]
    BY <1>3, <1>4, <1>6 DEF Put
<1> QED BY <1>1, <1>7, <1>8 DEF Handles

LEMMA ConfirmedStep ==
  ASSUME CommandsInv, [CommandsNext]_commandsVars, NEW s \in Sids
  PROVE  Confirmed(s)
<1>0. row \in [Sids -> {"none", "stopped", "running"}]
    BY DEF CommandsInv, RowType
<1>1. CASE UNCHANGED <<row, live>>
    BY <1>1 DEF Confirmed
<1>2. ASSUME NEW c \in Cmds, NEW i \in DOMAIN jobs[c], EraseNext(c, i) PROVE Confirmed(s)
    <2>1. PICK next : next = Head(jobs[c][i].seen)
        OBVIOUS
    <2>2. PICK e : row' = [row EXCEPT ![next.sid] = e.row]
        BY <1>2, <2>1 DEF EraseNext
    <2>3. live' = IF next.running THEN live \ {next.sid} ELSE live
        BY <1>2, <2>1 DEF EraseNext
    <2>4. Handles(c) /\ \A d \in Cmds \ {c} : ~Handles(d)
        BY <1>2, EraseHandles
    <2>5. CASE s = next.sid
        <3>1. s \in Agreed(c) /\ (next.running /\ cmd[c].op = "prune" => cmd[c].running)
            BY <1>2, <2>1, <2>5, ErasedIsAgreed DEF EraseNext
        <3> QED BY <2>3, <2>4, <3>1 DEF Confirmed
    <2>6. CASE s # next.sid
        BY <1>0, <2>2, <2>3, <2>6 DEF Confirmed
    <2> QED BY <2>5, <2>6
<1>3. ASSUME PruneOldSessions, UNCHANGED jobs PROVE Confirmed(s)
    BY <1>0, <1>3 DEF PruneOldSessions, Confirmed, Handles
<1>4. ASSUME NEW r \in Sids, AppRestarts(r) \/ HelloCreates(r) \/ RunnerExits(r), UNCHANGED jobs
      PROVE  Confirmed(s)
    BY <1>0, <1>4 DEF AppRestarts, HelloCreates, RunnerExits, Confirmed, Handles
<1>5. CASE DaemonStops /\ UNCHANGED row
    BY <1>5 DEF DaemonStops, Confirmed
<1>6. CASE DaemonStarts
    BY <1>0, <1>6 DEF DaemonStarts, Confirmed
<1>7. ASSUME NEW c \in Cmds, User(c) \/ Cli(c) PROVE Confirmed(s)
    BY <1>1, <1>7 DEF User, Cli, storeVars
<1>8. ASSUME NEW c \in Cmds, NEW i \in DOMAIN jobs[c], Handler(c, i) PROVE Confirmed(s)
    BY <1>1, <1>2, <1>8 DEF Handler, storeVars
<1>9. CASE Event
    BY <1>1, <1>3, <1>4, <1>5, <1>9 DEF Event, storeVars, RunPeriodicPrune
<1>10. CASE UserWrites \/ UNCHANGED commandsVars
    BY <1>1, <1>10 DEF UserWrites, commandsVars, storeVars
<1>11. CASE Starting
    BY <1>3, <1>6, <1>11 DEF Starting, RunStartupCleanup
<1> QED BY <1>7, <1>8, <1>9, <1>10, <1>11 DEF CommandsNext

\* No session is lost but to the handler of a command whose user named it, ticked it
\* or pruned what it was when the daemon looked, or, without a command, to the daemon's
\* own pruning of old stopped ones; and no handler kills a runner its user did not
\* agree to, whatever happened between the listing, the look and the deletion
\* (session.rs: delete, prune, cleanup; handle_session_delete, handle_session_prune).
THEOREM SessionsLostAreConfirmed == CommandsSpec => ConfirmedOnly
<1>1. CommandsInv /\ [CommandsNext]_commandsVars => [\A s \in Sids : Confirmed(s)]_commandsVars
    BY ConfirmedStep
<1> QED BY <1>1, CommandsInvariant, PTL DEF CommandsSpec, ConfirmedOnly, Confirmed

-----------------------------------------------------------------------------
(* The start-up file.  It is the user's text, in two parts, with at most   *)
(* one block between them.                                                 *)

\* A set of naturals that is not empty has a least member.
LEMMA LeastNatural ==
  ASSUME NEW T \in SUBSET Nat, T # {}
  PROVE  \E x \in T : \A y \in T : x <= y
<1>1. PICK R : R = OpToRel(<, Nat) /\ IsWellFoundedOn(R, Nat)
  BY NatLessThanWellFounded
<1>2. R = {ss \in Nat \X Nat : ss[1] < ss[2]}
  BY <1>1 DEF OpToRel
<1>3. PICK x \in T : \A y \in T : <<y, x>> \notin R
  BY <1>1, WFMin
<1>4. \A y \in T : x <= y
  <2> SUFFICES ASSUME NEW y \in T PROVE x <= y
    OBVIOUS
  <2>1. x \in Nat /\ y \in Nat /\ <<y, x>> \in Nat \X Nat
    OBVIOUS
  <2>2. ~(y < x)
    BY <1>2, <1>3, <2>1
  <2> QED BY <2>1, <2>2
<1> QED BY <1>4

Pieces == {"mine", "nl", "start", "line", "end"}

Text == Seq({"mine", "nl"})

With(a, b) == a \o Block \o b

RcInv == \E a, b \in Text : own = a \o b /\ rc \in {own, With(a, b)}

LEMMA TextJoin ==
  ASSUME NEW a \in Text, NEW b \in Text
  PROVE  a \o b \in Text
BY DEF Text

LEMMA TextEnds ==
  ASSUME NEW a \in Text
  PROVE  EndLastLine(a) \in Text /\ << >> \in Text /\ a \o << >> = a
<1>1. <<"nl">> \in Text
  BY DEF Text
<1>2. a \o <<"nl">> \in Text
  BY <1>1, TextJoin
<1>3. << >> \in Text /\ a \o << >> = a
  BY DEF Text
<1> QED BY <1>2, <1>3 DEF EndLastLine

LEMMA TextPlain ==
  ASSUME NEW a \in Text
  PROVE  a \in Seq(Pieces) /\ ~ContainsMarker(a) /\ \A i \in 1 .. Len(a) : a[i] \in {"mine", "nl"}
<1>1. /\ Len(a) \in Nat /\ a = [i \in 1 .. Len(a) |-> a[i]]
      /\ \A i \in 1 .. Len(a) : a[i] \in {"mine", "nl"}
  BY DEF Text
<1>2. \A i \in 1 .. Len(a) : a[i] \in Pieces
  BY <1>1 DEF Pieces
<1>3. a \in [1 .. Len(a) -> Pieces]
  BY <1>1, <1>2
<1>4. ~ContainsMarker(a)
  BY <1>1 DEF ContainsMarker, Contains
<1> QED BY <1>1, <1>3, <1>4, SeqDef

LEMMA BlockIs ==
  /\ Block \in Seq(Pieces) /\ Len(Block) = 7
  /\ Block[1] = "nl" /\ Block[2] = "start" /\ Block[3] = "nl" /\ Block[4] = "line"
  /\ Block[5] = "nl" /\ Block[6] = "end" /\ Block[7] = "nl"
<1>1. Block \in Seq(Pieces)
  BY DEF Block, Pieces
<1>2. Len(Block) = 7
  BY DEF Block
<1> QED BY <1>1, <1>2 DEF Block

LEMMA JoinIs ==
  ASSUME NEW s \in Seq(Pieces), NEW t \in Seq(Pieces)
  PROVE  /\ s \o t \in Seq(Pieces) /\ Len(s \o t) = Len(s) + Len(t)
         /\ Len(s) \in Nat /\ Len(t) \in Nat
         /\ \A i \in 1 .. Len(s) : (s \o t)[i] = s[i]
         /\ \A i \in 1 .. Len(t) : (s \o t)[Len(s) + i] = t[i]
OBVIOUS

\* Where the pieces of the file are.
LEMMA WithIs ==
  ASSUME NEW a \in Text, NEW b \in Text
  PROVE  /\ With(a, b) \in Seq(Pieces)
         /\ Len(a) \in Nat /\ Len(b) \in Nat
         /\ Len(With(a, b)) = Len(a) + 7 + Len(b)
         /\ \A i \in 1 .. Len(a) : With(a, b)[i] = a[i]
         /\ \A i \in 1 .. 7 : With(a, b)[Len(a) + i] = Block[i]
         /\ \A i \in 1 .. Len(b) : With(a, b)[Len(a) + 7 + i] = b[i]
<1>1. a \in Seq(Pieces) /\ b \in Seq(Pieces)
  BY TextPlain
<1>2. Block \in Seq(Pieces) /\ Len(Block) = 7
  BY BlockIs
<1> DEFINE c == a \o Block
<1>3. /\ c \in Seq(Pieces) /\ Len(c) = Len(a) + 7 /\ Len(a) \in Nat /\ Len(b) \in Nat
      /\ \A i \in 1 .. Len(a) : c[i] = a[i]
      /\ \A i \in 1 .. 7 : c[Len(a) + i] = Block[i]
  <2>1. /\ c \in Seq(Pieces) /\ Len(c) = Len(a) + Len(Block)
        /\ \A i \in 1 .. Len(a) : c[i] = a[i]
        /\ \A i \in 1 .. Len(Block) : c[Len(a) + i] = Block[i]
    BY <1>1, <1>2, JoinIs, Zenon
  <2> HIDE DEF c
  <2> QED BY <1>1, <1>2, <2>1
<1> HIDE DEF c
<1>5. /\ c \o b \in Seq(Pieces) /\ Len(c \o b) = Len(c) + Len(b)
      /\ \A i \in 1 .. Len(c) : (c \o b)[i] = c[i]
      /\ \A i \in 1 .. Len(b) : (c \o b)[Len(c) + i] = b[i]
  BY <1>1, <1>3, JoinIs
<1>6. With(a, b) = c \o b
  BY DEF With, c
<1>7. \A i \in 1 .. Len(a) : i \in 1 .. Len(c)
  BY <1>3
<1>8. \A i \in 1 .. 7 : Len(a) + i \in 1 .. Len(c)
  BY <1>3
<1>9. /\ \A i \in 1 .. Len(a) : With(a, b)[i] = a[i]
      /\ \A i \in 1 .. 7 : With(a, b)[Len(a) + i] = Block[i]
  BY <1>3, <1>5, <1>6, <1>7, <1>8
<1> QED BY <1>3, <1>5, <1>6, <1>9

\* The block's start is found.
LEMMA WithHasMarker ==
  ASSUME NEW a \in Text, NEW b \in Text
  PROVE  ContainsMarker(With(a, b)) /\ Len(With(a, b)) \in Nat \ {0}
<1> DEFINE f == With(a, b)
<1>1. /\ Len(a) \in Nat /\ Len(b) \in Nat /\ Len(f) = Len(a) + 7 + Len(b)
      /\ \A i \in 1 .. 7 : f[Len(a) + i] = Block[i]
  BY WithIs
<1> HIDE DEF f
<1>2. Len(a) + 2 \in 1 .. Len(f) /\ f[Len(a) + 2] = "start"
  BY <1>1, BlockIs
<1>3. ContainsMarker(f)
  BY <1>2 DEF ContainsMarker, Contains
<1> QED BY <1>1, <1>3 DEF f

\* The markers are those of the block.
LEMMA MarkersAre ==
  ASSUME NEW a \in Text, NEW b \in Text, NEW i \in 1 .. Len(With(a, b))
  PROVE  /\ With(a, b)[i] = "start" <=> i = Len(a) + 2
         /\ With(a, b)[i] = "end" <=> i = Len(a) + 6
<1> DEFINE f == With(a, b)  la == Len(a)
<1>1. /\ \A j \in 1 .. la : a[j] \in {"mine", "nl"}
      /\ \A j \in 1 .. Len(b) : b[j] \in {"mine", "nl"}
  BY TextPlain
<1>2. /\ la \in Nat /\ Len(b) \in Nat /\ Len(f) = la + 7 + Len(b)
      /\ \A j \in 1 .. la : f[j] = a[j]
      /\ \A j \in 1 .. 7 : f[la + j] = Block[j]
      /\ \A j \in 1 .. Len(b) : f[la + 7 + j] = b[j]
  BY WithIs
<1>3. i \in 1 .. Len(f)
  OBVIOUS
<1> HIDE DEF f, la
<1>4. CASE i <= la
  <2>1. i \in 1 .. la
    BY <1>2, <1>3, <1>4
  <2>2. f[i] \in {"mine", "nl"}
    BY <1>1, <1>2, <2>1
  <2>3. i # la + 2 /\ i # la + 6
    BY <1>2, <1>3, <1>4
  <2> QED BY <2>2, <2>3 DEF f, la
<1>5. CASE i > la + 7
  <2>1. i - (la + 7) \in 1 .. Len(b) /\ i = la + 7 + (i - (la + 7))
    BY <1>2, <1>3, <1>5
  <2>2. f[i] \in {"mine", "nl"}
    BY <1>1, <1>2, <2>1
  <2> QED BY <1>2, <1>5, <2>2 DEF f, la
<1>6. CASE i > la /\ i <= la + 7
  <2>1. PICK j \in 1 .. 7 : i = la + j
    <3>1. i - la \in 1 .. 7 /\ i = la + (i - la)
      BY <1>2, <1>3, <1>6
    <3> QED BY <3>1
  <2>2. f[i] = Block[j]
    BY <1>2, <2>1
  <2>3. j \in {1, 2, 3, 4, 5, 6, 7}
    OBVIOUS
  <2>4. (Block[j] = "start" <=> j = 2) /\ (Block[j] = "end" <=> j = 6)
    BY <2>3, BlockIs
  <2> QED BY <1>2, <2>1, <2>2, <2>4 DEF f, la
<1> QED BY <1>2, <1>3, <1>4, <1>5, <1>6

LEMMA MinOfOne ==
  ASSUME NEW x \in Int
  PROVE  Min({x}) = x
BY DEF Min

\* Stripping takes out the block with the newline before it and the one after it.
LEMMA StripFirstIs ==
  ASSUME NEW a \in Text, NEW b \in Text
  PROVE  StripFirst(With(a, b)) = a \o b
<1> DEFINE f == With(a, b)
           la == Len(a)
           start == Find(f, "start", 1)
           end == Find(f, "end", start + 1)
<1>1. f \in Seq(Pieces) /\ la \in Nat /\ Len(b) \in Nat /\ Len(f) = la + 7 + Len(b)
  BY WithIs
<1>a. \A i \in 1 .. Len(f) : (f[i] = "start" <=> i = la + 2) /\ (f[i] = "end" <=> i = la + 6)
  BY MarkersAre
<1>b. f[la + 1] = "nl" /\ f[la + 7] = "nl"
  BY WithIs, BlockIs
<1>c. \A i \in 1 .. la : f[i] = a[i]
  BY WithIs
<1>d. \A i \in 1 .. Len(b) : f[la + 7 + i] = b[i]
  BY WithIs
<1> HIDE DEF f, la
<1>2. start = la + 2
  <2>1. {i \in 1 .. Len(f) : f[i] = "start"} = {la + 2}
    <3>1. la + 2 \in 1 .. Len(f)
      BY <1>1
    <3> QED BY <1>a, <3>1
  <2>2. Min({la + 2}) = la + 2
    BY <1>1, MinOfOne
  <2> QED BY <2>1, <2>2 DEF Find
<1> HIDE DEF start
<1>3. end = la + 6
  <2>1. {i \in (start + 1) .. Len(f) : f[i] = "end"} = {la + 6}
    <3>1. \A i \in (start + 1) .. Len(f) : i \in 1 .. Len(f)
      BY <1>1, <1>2
    <3>2. la + 6 \in (start + 1) .. Len(f)
      BY <1>1, <1>2
    <3> QED BY <1>a, <3>1, <3>2
  <2>2. Min({la + 6}) = la + 6
    BY <1>1, MinOfOne
  <2> QED BY <2>1, <2>2 DEF Find
<1> HIDE DEF end
<1>4. f[start - 1] = "nl" /\ start > 1
  <2>1. start - 1 = la + 1
    BY <1>1, <1>2
  <2> QED BY <1>1, <1>2, <1>b, <2>1
<1>5. f[end + 1] = "nl" /\ end < Len(f) /\ end # 0
  <2>1. end + 1 = la + 7
    BY <1>1, <1>3
  <2> QED BY <1>1, <1>3, <1>b, <2>1
<1>6. StripFirst(f) = Upto(f, start - 1 - 1) \o After(f, end + 1 + 1)
  BY <1>4, <1>5 DEF StripFirst, start, end
<1>7. Upto(f, start - 1 - 1) = a
  <2>1. start - 1 - 1 = la
    BY <1>1, <1>2
  <2>2. Len(SubSeq(f, 1, la)) = la /\ SubSeq(f, 1, la) \in Seq(Pieces)
    BY <1>1
  <2>3. \A i \in 1 .. la : SubSeq(f, 1, la)[i] = a[i]
    BY <1>1, <1>c
  <2>4. a \in Seq(Pieces) /\ Len(a) = la
    BY TextPlain DEF la
  <2>5. SubSeq(f, 1, la) = a
    BY <2>2, <2>3, <2>4, SeqEqual
  <2> QED BY <2>1, <2>5 DEF Upto
<1>8. After(f, end + 1 + 1) = b
  <2>1. end + 1 + 1 = la + 8
    BY <1>1, <1>3
  <2> DEFINE r == SubSeq(f, la + 8, Len(f))
  <2>2. Len(r) = Len(b) /\ r \in Seq(Pieces)
    BY <1>1
  <2>3. \A i \in 1 .. Len(b) : r[i] = f[la + 8 + i - 1] /\ la + 8 + i - 1 = la + 7 + i
    BY <1>1
  <2> HIDE DEF r
  <2>4. \A i \in 1 .. Len(b) : r[i] = b[i]
    BY <1>d, <2>3
  <2>5. b \in Seq(Pieces)
    BY TextPlain
  <2>6. r = b
    BY <2>2, <2>4, <2>5, SeqEqual
  <2> QED BY <2>1, <2>6 DEF After, r
<1> QED BY <1>6, <1>7, <1>8 DEF f

\* One round leaves no marker, so that the rounds after it change nothing.
LEMMA StripIs ==
  ASSUME NEW a \in Text, NEW b \in Text
  PROVE  Strip(With(a, b)) = a \o b
<1> DEFINE f == With(a, b)
           clean == a \o b
           Round(x) == IF ContainsMarker(x) THEN StripFirst(x) ELSE x
           Rounds(g) == g = [n \in 0 .. Len(f) |-> IF n = 0 THEN f ELSE Round(g[n - 1])]
           out == CHOOSE g : Rounds(g)
<1>1. Len(f) \in Nat /\ Len(f) > 0
  BY WithHasMarker
<1>2. Round(f) = clean
  BY WithHasMarker, StripFirstIs
<1>3. Round(clean) = clean
  <2>1. ~ContainsMarker(clean)
    BY TextJoin, TextPlain
  <2> HIDE DEF clean
  <2> QED BY <2>1
<1>4. Strip(f) = out[Len(f)]
  <2> HIDE DEF f
  <2> QED BY DEF Strip
<1> HIDE DEF f, clean, Round
<1>5. Rounds(out)
  <2> DEFINE h == [n \in 0 .. Len(f) |-> IF n = 0 THEN f ELSE clean]
  <2>1. \A n \in 0 .. Len(f) : h[n] = IF n = 0 THEN f ELSE Round(h[n - 1])
    <3> SUFFICES ASSUME NEW n \in 0 .. Len(f), n # 0 PROVE clean = Round(h[n - 1])
      OBVIOUS
    <3>1. n - 1 \in 0 .. Len(f)
      BY <1>1
    <3>2. h[n - 1] = IF n - 1 = 0 THEN f ELSE clean
      BY <3>1
    <3> HIDE DEF h
    <3> QED BY <1>2, <1>3, <3>2
  <2>2. Rounds(h)
    <3>1. h = [n \in 0 .. Len(f) |-> h[n]]
      OBVIOUS
    <3> HIDE DEF h
    <3> QED BY <2>1, <3>1
  <2> HIDE DEF h, Rounds
  <2> QED BY <2>2
<1>6. out[0] = f /\ \A n \in 1 .. Len(f) : out[n] = Round(out[n - 1])
  <2> HIDE DEF out
  <2>1. \A n \in 0 .. Len(f) : out[n] = IF n = 0 THEN f ELSE Round(out[n - 1])
    BY <1>5
  <2>2. \A n \in 1 .. Len(f) : n \in 0 .. Len(f) /\ n # 0
    BY <1>1
  <2> QED BY <1>1, <2>1, <2>2
<1> HIDE DEF out, Rounds
<1>7. \A n \in 1 .. Len(f) : out[n] = clean
  <2> DEFINE T == {n \in 1 .. Len(f) : out[n] # clean}
  <2>1. SUFFICES ASSUME T # {} PROVE FALSE
    OBVIOUS
  <2>2. T \in SUBSET Nat
    BY <1>1
  <2>3. PICK x \in T : \A y \in T : x <= y
    <3> HIDE DEF T
    <3> QED BY <2>1, <2>2, LeastNatural
  <2>4. x \in 1 .. Len(f) /\ out[x] # clean
    OBVIOUS
  <2>5. CASE x = 1
    BY <1>2, <1>6, <2>4, <2>5
  <2>6. CASE x # 1
    <3>1. x - 1 \in 1 .. Len(f) /\ ~(x <= x - 1)
      BY <1>1, <2>4, <2>6
    <3>2. out[x - 1] = clean
      BY <2>3, <3>1
    <3> QED BY <1>3, <1>6, <2>4, <3>2
  <2> QED BY <2>5, <2>6
<1>8. Len(f) \in 1 .. Len(f)
  BY <1>1
<1>9. Strip(f) = clean
  BY <1>4, <1>7, <1>8
<1> QED BY <1>9 DEF f, clean

\* Removing the block, if there is one, leaves what the user wrote.
LEMMA StrippedIsOwn ==
  ASSUME RcInv
  PROVE  UninstallRc(rc) = own /\ own \in Text /\ (ContainsMarker(rc) => Strip(rc) = own)
         /\ (~ContainsMarker(rc) => rc = own)
<1>1. PICK a \in Text, b \in Text : own = a \o b /\ rc \in {own, With(a, b)}
  BY DEF RcInv
<1>2. own \in Text /\ ~ContainsMarker(own)
  BY <1>1, TextJoin, TextPlain
<1>3. CASE rc = own
  BY <1>2, <1>3 DEF UninstallRc
<1>4. CASE rc = With(a, b)
  BY <1>1, <1>2, <1>4, WithHasMarker, StripIs DEF UninstallRc
<1> QED BY <1>1, <1>3, <1>4

\* What an install writes, if it writes.
LEMMA InstallIs ==
  ASSUME RcInv, NEW force \in BOOLEAN
  PROVE  InstallRc(rc, force) = IF ContainsMarker(rc) /\ ~force THEN rc
                                ELSE With(EndLastLine(own), << >>)
<1> DEFINE base == IF ContainsMarker(rc) THEN Strip(rc) ELSE rc
<1>1. base = own
  BY StrippedIsOwn
<1>2. InstallRc(rc, force) = IF ContainsMarker(rc) /\ ~force THEN rc ELSE EndLastLine(base) \o Block
  BY DEF InstallRc
<1> HIDE DEF base
<1> DEFINE d == EndLastLine(own)
<1>3. d \in Seq(Pieces)
  BY StrippedIsOwn, TextEnds, TextPlain
<1>4. EndLastLine(base) = d
  BY <1>1
<1> HIDE DEF d
<1>5. d \o Block \in Seq(Pieces)
  BY <1>3, BlockIs
<1>6. d \o Block = With(d, << >>)
  BY <1>5 DEF With
<1> QED BY <1>2, <1>4, <1>6 DEF d

LEMMA EditKeepsRc ==
  ASSUME RcInv, NEW c, NEW edit \in {"install", "force", "uninstall"}, EditCompletions(c, edit)
  PROVE  RcInv'
<1> DEFINE d == EndLastLine(own)
           writes == edit = "force" \/ (edit = "install" /\ ~ContainsMarker(rc))
<1>1. rc' = RunCompletions(rc, edit) /\ own' = IF writes THEN d ELSE own
  BY DEF EditCompletions, AtomicWrite
<1>2. own \in Text /\ d \in Text /\ << >> \in Text /\ own \o << >> = own /\ d \o << >> = d
  BY StrippedIsOwn, TextEnds
<1>3. RunCompletions(rc, edit) = IF writes THEN With(d, << >>)
                                 ELSE IF edit = "install" THEN rc ELSE own
  <2>1. CASE edit = "install"
    BY <2>1, InstallIs DEF RunCompletions
  <2>2. CASE edit = "force"
    BY <2>2, InstallIs DEF RunCompletions
  <2>3. CASE edit = "uninstall"
    BY <2>3, StrippedIsOwn DEF RunCompletions
  <2> QED BY <2>1, <2>2, <2>3
<1> HIDE DEF d, writes
<1>4. CASE writes
  BY <1>1, <1>2, <1>3, <1>4 DEF RcInv
<1>5. CASE ~writes /\ edit = "install"
  BY <1>1, <1>3, <1>5 DEF RcInv
<1>6. CASE ~writes /\ edit # "install"
  BY <1>1, <1>2, <1>3, <1>6 DEF RcInv
<1> QED BY <1>4, <1>5, <1>6

LEMMA UserKeepsRc ==
  ASSUME RcInv, UserWrites
  PROVE  RcInv'
<1>1. PICK a \in Text, b \in Text : own = a \o b /\ rc \in {own, With(a, b)}
  BY DEF RcInv
<1>2. PICK w \in {<<"mine">>, <<"mine", "nl">>} : rc' = rc \o w /\ own' = own \o w
  BY DEF UserWrites
<1>3. w \in Text
  <2>1. <<"mine">> \in Text /\ <<"mine", "nl">> \in Text
    BY DEF Text
  <2> QED BY <2>1
<1>4. a \in Seq(Pieces) /\ b \in Seq(Pieces) /\ w \in Seq(Pieces) /\ Block \in Seq(Pieces)
  BY <1>3, TextPlain, BlockIs
<1>5. b \o w \in Text
  BY <1>3, TextJoin
<1>6. (a \o b) \o w = a \o (b \o w)
  BY <1>4
<1>7. With(a, b) \o w = With(a, b \o w)
  <2> DEFINE d == a \o Block
  <2>1. d \in Seq(Pieces)
    BY <1>4
  <2> HIDE DEF d
  <2>2. (d \o b) \o w = d \o (b \o w)
    BY <1>4, <2>1
  <2> QED BY <2>2 DEF With, d
<1> QED BY <1>1, <1>2, <1>5, <1>6, <1>7 DEF RcInv

\* The start-up file is what the user wrote, with at most one block in it, whatever
\* was installed, forced and removed, but for the newline by which an install ends an
\* open last line (install_rc_line, uninstall_completion).
THEOREM RcIsKept == CommandsSpec => []RcKept
<1>1. CommandsInit => RcInv
  <2>1. << >> \in Text /\ << >> \o << >> = << >>
    BY DEF Text
  <2> QED BY <2>1 DEF CommandsInit, RcInv
<1>2. RcInv /\ [CommandsNext]_commandsVars => RcInv'
  <2> SUFFICES ASSUME RcInv, [CommandsNext]_commandsVars PROVE RcInv'
    OBVIOUS
  <2>1. CASE UNCHANGED rcVars
    BY <2>1 DEF RcInv, rcVars
  <2>2. CASE UserWrites
    BY <2>2, UserKeepsRc
  <2>3. ASSUME NEW c \in Cmds, User(c) PROVE RcInv'
    BY <2>1, <2>3, EditKeepsRc DEF User
  <2>4. ASSUME NEW c \in Cmds, Cli(c) PROVE UNCHANGED rcVars
    BY <2>4 DEF Cli
  <2>5. ASSUME NEW c \in Cmds, NEW i \in DOMAIN jobs[c], Handler(c, i) PROVE UNCHANGED rcVars
    BY <2>5 DEF Handler
  <2>6. ASSUME Event \/ Starting \/ UNCHANGED commandsVars PROVE UNCHANGED rcVars
    BY <2>6 DEF Event, Starting, commandsVars
  <2> QED BY <2>1, <2>2, <2>3, <2>4, <2>5, <2>6 DEF CommandsNext
<1>3. RcInv => RcKept
  <2> SUFFICES ASSUME RcInv PROVE RcKept
    OBVIOUS
  <2>1. PICK a \in Text, b \in Text : own = a \o b /\ rc \in {own, With(a, b)}
    BY DEF RcInv
  <2>2. \A i, j \in DOMAIN rc : rc[i] = "start" /\ rc[j] = "start" => i = j
    <3>1. CASE rc = own
      <4>1. rc \in Seq(Pieces) /\ \A i \in 1 .. Len(rc) : rc[i] \in {"mine", "nl"}
        BY <3>1, StrippedIsOwn, TextPlain
      <4> QED BY <4>1
    <3>2. CASE rc = With(a, b)
      <4>1. rc \in Seq(Pieces)
        BY <3>2, WithIs
      <4> QED BY <3>2, <4>1, MarkersAre
    <3> QED BY <2>1, <3>1, <3>2
  <2> QED BY <2>2, StrippedIsOwn DEF RcKept
<1> QED BY <1>1, <1>2, <1>3, PTL DEF CommandsSpec
=============================================================================
