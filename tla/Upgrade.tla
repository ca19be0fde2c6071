------------------------------ MODULE Upgrade ------------------------------
(***************************************************************************)
(* tp upgrade (tp-cli/src/commands/upgrade.rs) beside the daemons of       *)
(* DaemonLifecycle, whose service it restarts.  The asset of the latest    *)
(* release is downloaded and compared with its published checksum.  In a   *)
(* bundle installation bin/tp and every libexec member are then backed up, *)
(* replaced one by one, verified by running bin/tp, and rolled back when   *)
(* anything fails; a single-binary installation is treated the same way,   *)
(* with nothing but tp in it.                                              *)
(*                                                                         *)
(* The swap shares nothing with the daemons but the binary a process is    *)
(* executed from, so the daemons rest from its start until the restart.    *)
(*                                                                         *)
(* A file holds the "old" or the "new" version, something "bad" that came  *)
(* out of a damaged download, is "torn" by a copy across devices that      *)
(* failed half way, or is "none".                                          *)
(***************************************************************************)
EXTENDS DaemonLifecycle

CONSTANTS Libexec,   \* the libexec members of the bundle
          Added      \* those of them that were not installed before

\* The daemon's binary, and the one of earlier releases that a tree may still have.
Sentinels == {"tp-daemon", "tpd"}

ASSUME UpgradeAssumption ==
    /\ "tp" \notin Libexec /\ Added \subseteq Libexec
    /\ Sentinels \cap (Libexec \ Added) # {}

VARIABLES
    up,        \* what the upgrade does next
    asset,     \* what was downloaded: "none", "good" or "bad"
    sums,      \* was there a checksums.txt to compare it with?
    todo,      \* the members the current step has still to treat
    file,      \* file[m]: what is installed
    bak,       \* bak[m]: its backup, "none" if there is none
    broken     \* did restoring a backup fail?

upVars == <<up, asset, sums, todo, file, bak, broken>>
vars == <<daemonVars, upVars>>

\* detect_install_shape: a bundle has a sentinel among its libexec members.
Bundle == \E m \in Sentinels \cap Libexec : file[m] # "none"
Members == IF Bundle THEN {"tp"} \cup Libexec ELSE {"tp"}
Installed == {m \in Members : file[m] # "none"}

Init ==
    /\ DaemonInit
    /\ up = "idle"
    /\ asset = "none"
    /\ sums = FALSE
    /\ todo = {}
    /\ \E bundle \in BOOLEAN :
          file = [m \in {"tp"} \cup Libexec |->
                      IF m = "tp" \/ (bundle /\ m \notin Added) THEN "old" ELSE "none"]
    /\ bak = [m \in {"tp"} \cup Libexec |-> "none"]
    /\ broken = FALSE

\* bin/tp is treated before the libexec members.
First(m) == m \in todo /\ ("tp" \in todo => m = "tp")

\* The upgrade begins when nobody is starting, stopping, healing or waiting.
Settled ==
    /\ \A p \in Procs : heal[p] = "idle" /\ pc[p] \in {Ended, "serve"}
    /\ sock = Nobody => \A p \in Procs : pc[p] = Ended
    /\ \A c \in Clis : cli[c] = "idle"

UpGoes(from, to) == up = from /\ up' = to

\* No release can be read, or it is the one that runs: run says so and is done.
NoNewerRelease ==
    /\ Settled /\ UpGoes("idle", "skipped")
    /\ UNCHANGED <<daemonVars, asset, sums, todo, file, bak, broken>>

\* A Homebrew installation is left to brew.
HomebrewSkips ==
    /\ UpGoes("found", "skipped")
    /\ UNCHANGED <<daemonVars, asset, sums, todo, file, bak, broken>>

\* A release with another tag than the running version, newer or not.
GetLatestRelease ==
    /\ Settled /\ UpGoes("idle", "found")
    /\ UNCHANGED <<daemonVars, asset, sums, todo, file, bak, broken>>

\* Nothing was installed yet: the temporary files go and nothing is rolled back.
GiveUp(from) ==
    /\ UpGoes(from, "failed")
    /\ asset' = "none"
    /\ UNCHANGED <<daemonVars, sums, todo, file, bak, broken>>

DownloadToFile ==
    /\ UpGoes("found", "downloaded")
    /\ asset' \in {"good", "bad"}
    /\ UNCHANGED <<daemonVars, sums, todo, file, bak, broken>>

\* The published hash of the asset, compared with the hash of what was downloaded;
\* without a checksums.txt the comparison is skipped.
HashMatches == asset = "good"

DownloadChecksums ==
    /\ \/ HashMatches /\ sums' = TRUE
       \/ sums' = FALSE
    /\ UpGoes("downloaded", IF Bundle THEN "checked" ELSE "extracted")
    /\ UNCHANGED <<daemonVars, asset, todo, file, bak, broken>>

\* bin/tp must be in the tarball; every libexec member it ships is taken along.
ExtractBundleTarball ==
    /\ UpGoes("checked", "extracted")
    /\ UNCHANGED <<daemonVars, asset, sums, todo, file, bak, broken>>

\* What is backed up before any swap is what exists at the targets.
PrepareBackups ==
    /\ UpGoes("extracted", "backup")
    /\ todo' = Installed
    /\ UNCHANGED <<daemonVars, asset, sums, file, bak, broken>>

FetchFails == \E from \in {"found", "downloaded", "checked", "extracted"} : GiveUp(from)

Fetching ==
    \/ NoNewerRelease \/ HomebrewSkips \/ GetLatestRelease \/ DownloadToFile
    \/ DownloadChecksums \/ FetchFails

\* The members that have a backup are restored one after the other.
RollBack(backups) == up' = "roll" /\ todo' = {m \in {"tp"} \cup Libexec : backups[m] # "none"}

BackupFile(m) ==
    /\ up = "backup" /\ First(m)
    /\ \/ /\ bak' = [bak EXCEPT ![m] = file[m]]
          /\ todo' = todo \ {m}
          /\ up' = up
       \/ bak' = bak /\ RollBack(bak)
    /\ UNCHANGED <<daemonVars, asset, sums, file, broken>>

BackedUp ==
    /\ up = "backup" /\ todo = {}
    /\ up' = "swap" /\ todo' = Members
    /\ UNCHANGED <<daemonVars, asset, sums, file, bak, broken>>

\* What the download puts at a target.
Shipped == IF asset = "good" THEN "new" ELSE "bad"

\* What atomic_replace can leave: a rename or copy that worked, one that did not, a
\* copy that stopped half way, and a copy whose source could not be removed, which
\* counts as a failure.
NotReplaced(m) == {file[m], "torn", Shipped}

SwapFile(m) ==
    /\ up = "swap" /\ First(m)
    /\ file' = [file EXCEPT ![m] = Shipped]
    /\ todo' = todo \ {m}
    /\ UNCHANGED <<daemonVars, asset, sums, up, bak, broken>>

\* A failing libexec member restores bin/tp at once; whether or not that works, the
\* members with a backup are rolled back.
SwapFails(m) ==
    /\ up = "swap" /\ First(m)
    /\ \E r \in NotReplaced(m) :
          \/ /\ m # "tp"
             /\ file' = [file EXCEPT ![m] = r, !["tp"] = bak["tp"]]
             /\ bak' = [bak EXCEPT !["tp"] = "none"]
             /\ RollBack(bak')
          \/ /\ file' = [file EXCEPT ![m] = r]
             /\ bak' = bak
             /\ RollBack(bak)
    /\ UNCHANGED <<daemonVars, asset, sums, broken>>

\* Running the new bin/tp decides: the backups go, or everything is rolled back.
Verify ==
    /\ up = "swap" /\ todo = {}
    /\ \/ up' = "clean" /\ UNCHANGED todo
       \/ RollBack(bak)
    /\ UNCHANGED <<daemonVars, asset, sums, file, bak, broken>>

CleanupBackups ==
    /\ up = "clean"
    /\ bak' = [m \in {"tp"} \cup Libexec |-> "none"]
    /\ up' = "restart"
    /\ UNCHANGED <<daemonVars, asset, sums, todo, file, broken>>

\* Mutant: the roll-back stops at the first member.
RestoreFirstOnly(m) ==
    /\ up = "roll" /\ First(m)
    /\ todo' = {}
    /\ file' = [file EXCEPT ![m] = bak[m]]
    /\ bak' = [bak EXCEPT ![m] = "none"]
    /\ UNCHANGED <<daemonVars, asset, sums, up, broken>>

RestoreBinary(m) ==
    /\ up = "roll" /\ First(m)
    /\ todo' = todo \ {m}
    /\ \/ /\ file' = [file EXCEPT ![m] = bak[m]]
          /\ bak' = [bak EXCEPT ![m] = "none"]
          /\ UNCHANGED broken
       \/ broken' = TRUE /\ UNCHANGED <<file, bak>>
    /\ UNCHANGED <<daemonVars, asset, sums, up>>

RolledBack ==
    /\ up = "roll" /\ todo = {}
    /\ up' = "failed"
    /\ UNCHANGED <<daemonVars, asset, sums, todo, file, bak, broken>>

\* launchctl kickstart -k ends the service's process and starts another; it fails when
\* the service is not loaded, and without a service nothing is done.
RestartDaemon ==
    /\ up = "restart"
    /\ \/ service # "loaded" /\ up' = "done" /\ UNCHANGED daemonVars
       \/ /\ service = "loaded" /\ up' = "killed"
          /\ IF Alive(svc) THEN Ends(svc) /\ faults' = faults + 1
                           ELSE UNCHANGED <<procVars, lock, sock, faults>>
          /\ UNCHANGED <<cli, service, svc, hinted>>
    /\ asset' = "none" /\ sums' = FALSE
    /\ UNCHANGED <<todo, file, bak, broken>>

Kickstarted ==
    /\ up = "killed"
    /\ up' = "restarted"
    /\ IF Alive(svc) THEN UNCHANGED <<svc, procVars>>
       ELSE \E p \in Procs : Execs(p) /\ svc' = p
    /\ UNCHANGED <<fileVars, cli, service, faults, asset, sums, todo, file, bak, broken>>

\* The upgrade is killed; what it had done stays.
UpgradeDies ==
    /\ Fault /\ up \in {"backup", "swap", "clean", "roll"}
    /\ up' = "dead"
    /\ UNCHANGED <<procVars, fileVars, cli, service, svc, asset, sums, todo, file, bak, broken>>

\* The members M are backed up, swapped, verified and cleaned up or rolled back.
Swapping(M) ==
    \/ PrepareBackups \/ BackedUp \/ Verify \/ CleanupBackups \/ RolledBack \/ RestartDaemon
    \/ \E m \in M : BackupFile(m) \/ SwapFile(m) \/ SwapFails(m) \/ RestoreBinary(m)

UpgradeTpBundle == Bundle /\ (ExtractBundleTarball \/ Swapping({"tp"} \cup Libexec))
UpgradeTpSingleBinary == ~Bundle /\ Swapping({"tp"})

UpgradeStep == Fetching \/ UpgradeTpBundle \/ UpgradeTpSingleBinary \/ Kickstarted \/ UpgradeDies

DaemonsRun == up \in {"idle", "killed", "restarted"}

Beside == DaemonsRun /\ UNCHANGED upVars

Next == (DaemonNext /\ Beside) \/ UpgradeStep

Spec == Init /\ [][Next]_vars

\* A process that can take a step is scheduled, its heal timer fires, and launchd
\* executes what it was asked to restart.
FairSpec ==
    /\ Spec
    /\ WF_vars(Kickstarted)
    /\ \A p \in Procs : WF_vars(MainStep(p) /\ Beside)
    /\ \A p \in Procs : WF_vars(HealStep(p) /\ Beside)

-----------------------------------------------------------------------------
\* An upgrade that ran to its end left one version: the new one, undamaged if there was a
\* checksum to compare it with, or, unless restoring failed too, what was installed before
\* (upgrade_tp_bundle: "ANY failure restores everything that was replaced").
AllOrNothing ==
    /\ up = "restart" => \A m \in Members : file[m] = Shipped
    /\ up = "restart" /\ sums => \A m \in Members : file[m] = "new"
    /\ up = "failed" /\ ~broken => \A m \in Members \ Added : file[m] = "old"

=============================================================================
