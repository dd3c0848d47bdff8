------------------------------- MODULE Updater -------------------------------
(***************************************************************************)
(* cli/update.rs: run_update fetches an archive, tests the new binary and  *)
(* swaps it with the installed one, then the tray's.  The swap renames and *)
(* copies files in the install directory: each call may fail, a copy may   *)
(* leave part of a file, and the process may be killed between two calls.  *)
(***************************************************************************)
EXTENDS Naturals, FiniteSets

CONSTANT MaxRuns    \* bound on the runs of `spyweb update`

Programs == {"spyweb", "tray"}

\* The installed file, the backup that is kept, and current.with_extension("old").
Names == {"current", "backup", "old"}

Contents == {"none", "part", "v1", "v2"}

Whole == {"v1", "v2"}

VARIABLES
    dir,       \* the install directory: program -> name -> content
    pc,        \* where the run is
    target,    \* the program being swapped
    retain,    \* ~overwrite
    runs,
    whole,     \* history: at the start of the run spyweb was complete
    before     \* history: the target's file at the start of its swap

vars == <<dir, pc, target, retain, runs, whole, before>>

Init ==
    /\ dir \in {[p \in Programs |-> [n \in Names |->
                    IF n = "current" /\ p \in installed THEN "v1" ELSE "none"]] :
                    installed \in {{"spyweb"}, Programs}}
    /\ pc = "idle" /\ target = "spyweb" /\ retain = TRUE
    /\ runs = 0 /\ whole = TRUE /\ before = "none"

Swapping(p) ==
    pc' = "backup" /\ target' = p /\ before' = dir[p]["current"]

\* After the download, the extraction and the self-test of the new binary:
\* any of them fails before a file of the installation is touched.
Run(r) ==
    /\ pc = "idle" /\ runs < MaxRuns
    /\ \E n \in Names : dir["spyweb"][n] \in Whole
    /\ runs' = runs + 1 /\ retain' = r
    /\ whole' = (dir["spyweb"]["current"] \in Whole)
    /\ Swapping("spyweb")
    /\ UNCHANGED dir

Saved == IF retain THEN "backup" ELSE "old"

Moved(from, to) ==
    dir' = [dir EXCEPT ![target][to] = dir[target][from], ![target][from] = "none"]

Goes(to) == pc' = to /\ UNCHANGED <<target, before>>

\* fs::rename(current, backup); it replaces what has that name.
Rename ==
    /\ pc = "backup" /\ dir[target]["current"] # "none"
    /\ Moved("current", Saved) /\ Goes("copy")
    /\ UNCHANGED <<retain, runs, whole>>

RenameFails ==
    /\ pc = "backup" /\ Goes("idle")
    /\ UNCHANGED <<dir, retain, runs, whole>>

\* Mutant: the old file is removed before the new one is copied.
CopyAfterRemove ==
    /\ pc = "copy"
    /\ dir' = [dir EXCEPT ![target]["current"] = "part",
                          ![target]["old"] = IF retain THEN @ ELSE "none"]
    /\ Goes("copying")
    /\ UNCHANGED <<retain, runs, whole>>

\* fs::copy has made the file and not yet written all of it ...
Copy ==
    /\ pc = "copy"
    /\ dir' = [dir EXCEPT ![target]["current"] = "part"]
    /\ Goes("copying")
    /\ UNCHANGED <<retain, runs, whole>>

\* ... and now it has.
Copied ==
    /\ pc = "copying"
    /\ dir' = [dir EXCEPT ![target]["current"] = "v2"]
    /\ Goes(IF retain THEN "done" ELSE "remove")
    /\ UNCHANGED <<retain, runs, whole>>

\* With --overwrite the original is renamed back, and a failure of that is
\* ignored; without, it stays the backup.
CopyFails ==
    /\ pc \in {"copy", "copying"}
    /\ \/ UNCHANGED dir
       \/ ~retain /\ Moved("old", "current")
    /\ Goes("failed")
    /\ UNCHANGED <<retain, runs, whole>>

\* The file of the old version is removed; if that fails the run ends there.
Remove ==
    /\ pc = "remove"
    /\ \/ dir' = [dir EXCEPT ![target]["old"] = "none"] /\ Goes("done")
       \/ UNCHANGED dir /\ Goes("idle")
    /\ UNCHANGED <<retain, runs, whole>>

\* After spyweb comes the tray, when the archive has it and it is installed.
Swapped ==
    /\ pc = "done"
    /\ \/ /\ target = "spyweb" /\ dir["tray"]["current"] # "none"
          /\ Swapping("tray")
       \/ Goes("idle")
    /\ UNCHANGED <<dir, retain, runs, whole>>

\* The error is reported, or the process is killed between two calls.
Ends ==
    /\ pc # "idle" /\ Goes("idle")
    /\ UNCHANGED <<dir, retain, runs, whole>>

Next ==
    \/ \E r \in BOOLEAN : Run(r)
    \/ Rename \/ RenameFails \/ Copy \/ Copied \/ CopyFails \/ Remove
    \/ Swapped \/ Ends

Spec == Init /\ [][Next]_vars

-----------------------------------------------------------------------------
TypeOK ==
    /\ dir \in [Programs -> [Names -> Contents]]
    /\ pc \in {"idle", "backup", "copy", "copying", "remove", "done", "failed"}
    /\ target \in Programs /\ before \in Contents

(***************************************************************************)
(* An update that started from a complete installation leaves a complete   *)
(* spyweb in the directory, under its name or as a backup, wherever it     *)
(* fails or is killed.  A second run after a killed one has no such        *)
(* promise: started from the backup, it renames the broken file over the   *)
(* backup it runs from.  And whatever was installed, of spyweb or of the   *)
(* tray, stays in the directory until the copy that replaces it is whole.  *)
(***************************************************************************)
UpdateKeepsABinary ==
    /\ whole => \E n \in Names : dir["spyweb"][n] \in Whole
    /\ pc \in {"copy", "copying", "failed"} => \E n \in Names : dir[target][n] = before
=============================================================================
