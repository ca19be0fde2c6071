----------------------------- MODULE Completions -----------------------------
(***************************************************************************)
(* How `tp completions install` edits a shell's start-up file              *)
(* (commands/completions_install.rs): a block between two marker lines is  *)
(* appended, rewritten or cut out.  A file is a sequence of pieces: nl is  *)
(* a newline, start and end the markers, line the text between them, and   *)
(* anything else the user's own text.  An edit runs under the lock of the  *)
(* file's .tp-lock sidecar and replaces the file by a rename, so edits are *)
(* one after another.                                                      *)
(***************************************************************************)
EXTENDS SequencesExt

Block == <<"nl", "start", "nl", "line", "nl", "end", "nl">>

ContainsMarker(file) == Contains(file, "start")

After(file, i) == SubSeq(file, i, Len(file))
Upto(file, i) == SubSeq(file, 1, i)

\* str::find in what begins at from; 0 is None.
Find(file, piece, from) ==
    LET found == {i \in from..Len(file) : file[i] = piece}
    IN  IF found = {} THEN 0 ELSE Min(found)

\* Mutant: the newline before the block stays.
StripKeepsNewline(file) ==
    LET start == Find(file, "start", 1)
        end == Find(file, "end", start + 1)
        to == IF end < Len(file) /\ file[end + 1] = "nl" THEN end + 1 ELSE end
    IN  IF end = 0 THEN file ELSE Upto(file, start - 1) \o After(file, to + 1)

\* strip_first_marker_block: with the newline before it and the one after it;
\* a start marker without its end is left alone.
StripFirst(file) ==
    LET start == Find(file, "start", 1)
        end == Find(file, "end", start + 1)
        from == IF start > 1 /\ file[start - 1] = "nl" THEN start - 1 ELSE start
        to == IF end < Len(file) /\ file[end + 1] = "nl" THEN end + 1 ELSE end
    IN  IF end = 0 THEN file ELSE Upto(file, from - 1) \o After(file, to + 1)

\* strip_marker_block: until no marker is left or nothing changes, after Len(file)
\* rounds at the latest.
Strip(file) ==
    LET out[n \in 0..Len(file)] ==
            IF n = 0 THEN file
            ELSE IF ContainsMarker(out[n - 1]) THEN StripFirst(out[n - 1]) ELSE out[n - 1]
    IN  out[Len(file)]

\* A file whose last line is open gets its newline.
EndLastLine(file) == IF file # << >> /\ Last(file) # "nl" THEN file \o <<"nl">> ELSE file

\* install_rc_line.
InstallRc(file, force) ==
    LET base == IF ContainsMarker(file) THEN Strip(file) ELSE file
    IN  IF ContainsMarker(file) /\ ~force THEN file ELSE EndLastLine(base) \o Block

\* uninstall_completion.
UninstallRc(file) == IF ContainsMarker(file) THEN Strip(file) ELSE file

\* run: the edits a command line can ask for.
RunCompletions(file, op) ==
    CASE op = "install" -> InstallRc(file, FALSE)
      [] op = "force" -> InstallRc(file, TRUE)
      [] op = "uninstall" -> UninstallRc(file)
=============================================================================
