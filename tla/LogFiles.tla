------------------------------ MODULE LogFiles ------------------------------
(***************************************************************************)
(* What the I/O workers do to the files (services/io.rs, handle_task): an  *)
(* append goes through a cached handle, or first rotates a file that would *)
(* grow too large and prunes its old rotations; an overwrite truncates.    *)
(* IoService has the workers and their channels, and shows that two may be *)
(* alive at once; each has a cache of its own.                             *)
(*                                                                         *)
(* One log is followed, log.ext.  File names are numbers in the order that *)
(* prune_rotations sorts them: 0 is a file of somebody else that matches   *)
(* log.*.ext and sorts first (log.0.ext), 1.. are the rotations, named     *)
(* after the second of their rotation, and the log itself is the last.     *)
(***************************************************************************)
EXTENDS Naturals, Sequences, FiniteSets

CONSTANTS
    Workers,
    MaxFileSize,    \* in lines
    MaxRotations,
    MaxTime, MaxLines    \* bounds

BoundsAssumption ==
    MaxRotations \in Nat \ {0} /\ MaxTime \in Nat \ {0} /\ MaxLines \in Nat

Log == MaxTime + 1
Names == 0..Log

VARIABLES
    now,      \* the local clock, in seconds
    back,     \* history: it was set back (daylight saving, or by hand)
    file,     \* per name, the file it leads to, 0 if none
    text,     \* per file, the lines in it
    cache,    \* per worker, the file of its handle for the log, 0 if none
    at,       \* per worker: idle, rotating, pruning, opening
    line,     \* lines written so far; a line is its number
    used,     \* history: workers that have handled a task
    stray,    \* history: lines that went to a file which was not the log
    erased    \* history: lines of pruned files

vars == <<now, back, file, text, cache, at, line, used, stray, erased>>

Lines(f) == IF f = 0 THEN {} ELSE {text[f][i] : i \in DOMAIN text[f]}

TypeOK ==
    /\ now \in 1..MaxTime
    /\ file \in [Names -> 0..Len(text)]
    /\ \A m, n \in Names : file[m] = file[n] => m = n \/ file[m] = 0
    /\ cache \in [Workers -> 0..Len(text)]
    /\ at \in [Workers -> {"idle", "rotating", "pruning", "opening"}]
    /\ line \in 0..MaxLines
    /\ used \subseteq Workers
    /\ stray \cup erased \subseteq 1..line

Init ==
    /\ now = 1 /\ back = FALSE
    /\ file = [n \in Names |-> IF n = 0 THEN 1 ELSE 0]
    /\ text = <<<<>>>>
    /\ cache = [w \in Workers |-> 0]
    /\ at = [w \in Workers |-> "idle"]
    /\ line = 0
    /\ used = {} /\ stray = {} /\ erased = {}

Moves(w, from, to) == at[w] = from /\ at' = [at EXCEPT ![w] = to]

\* append_to_file: should_rotate looks at the file the name leads to.
TooLarge == file[Log] # 0 /\ Len(text[file[Log]]) + 1 > MaxFileSize

\* Mutant: the handle is kept over a rotation.
AppendKeeping(w) ==
    /\ line < MaxLines
    /\ Moves(w, "idle", IF TooLarge THEN "rotating" ELSE "opening")
    /\ used' = used \cup {w}
    /\ UNCHANGED <<now, back, file, text, cache, line, stray, erased>>

AppendTask(w) ==
    /\ line < MaxLines
    /\ Moves(w, "idle", IF TooLarge THEN "rotating" ELSE "opening")
    /\ cache' = IF TooLarge THEN [cache EXCEPT ![w] = 0] ELSE cache
    /\ used' = used \cup {w}
    /\ UNCHANGED <<now, back, file, text, line, stray, erased>>

\* rotate_file: a rename replaces a file of that name, and fails, and with it
\* the append, when another worker has renamed the log meanwhile.
Rename(w) ==
    /\ IF file[Log] = 0
       THEN Moves(w, "rotating", "idle") /\ UNCHANGED file
       ELSE /\ Moves(w, "rotating", "pruning")
            /\ file' = [file EXCEPT ![now] = file[Log], ![Log] = 0]
    /\ UNCHANGED <<now, back, text, cache, line, used, stray, erased>>

\* prune_rotations: the first of the matching names in excess of MaxRotations,
\* the log included if another worker has made it again.
Matching == {n \in Names : file[n] # 0}

From(n) == {m \in Matching : m >= n}

Excess == {n \in Matching : Cardinality(From(n)) > MaxRotations}

Prune(w) ==
    /\ Moves(w, "pruning", "opening")
    /\ file' = [n \in Names |-> IF n \in Excess THEN 0 ELSE file[n]]
    /\ erased' = erased \cup UNION {Lines(file[n]) : n \in Excess}
    /\ UNCHANGED <<now, back, text, cache, line, used, stray>>

\* get_or_create_file, then the write.  A handle stays on its file whatever
\* the name leads to by now.
Write(w) ==
    LET made == file[Log] = 0 /\ cache[w] = 0
        f == IF cache[w] # 0 THEN cache[w]
             ELSE IF made THEN Len(text) + 1 ELSE file[Log]
        files == IF made THEN Append(text, <<>>) ELSE text
    IN  /\ Moves(w, "opening", "idle")
        /\ line < MaxLines
        /\ line' = line + 1
        /\ text' = [files EXCEPT ![f] = Append(@, line + 1)]
        /\ file' = IF made THEN [file EXCEPT ![Log] = f] ELSE file
        /\ cache' = [cache EXCEPT ![w] = f]
        /\ stray' = IF f # file'[Log] THEN stray \cup {line + 1} ELSE stray
        /\ UNCHANGED <<now, back, used, erased>>

\* overwrite_file: the file is truncated in place, and the handle dropped.
Overwrite(w) ==
    LET made == file[Log] = 0
        f == IF made THEN Len(text) + 1 ELSE file[Log]
    IN  /\ at[w] = "idle" /\ line < MaxLines
        /\ line' = line + 1
        /\ text' = IF made THEN Append(text, <<line + 1>>)
                           ELSE [text EXCEPT ![f] = <<line + 1>>]
        /\ file' = [file EXCEPT ![Log] = f]
        /\ cache' = [cache EXCEPT ![w] = 0]
        /\ used' = used \cup {w}
        /\ UNCHANGED <<now, back, at, stray, erased>>

Tick ==
    /\ now < MaxTime
    /\ now' = now + 1
    /\ UNCHANGED <<back, file, text, cache, at, line, used, stray, erased>>

SetBack ==
    /\ now > 1 /\ ~back
    /\ now' = now - 1
    /\ back' = TRUE
    /\ UNCHANGED <<file, text, cache, at, line, used, stray, erased>>

Next ==
    \/ \E w \in Workers :
           AppendTask(w) \/ Rename(w) \/ Prune(w) \/ Write(w) \/ Overwrite(w)
    \/ Tick \/ SetBack

Spec == Init /\ [][Next]_vars

-----------------------------------------------------------------------------
(***************************************************************************)
(* Reading the rotations by name, and then the log, gives the lines in the *)
(* order they were written, and the files pruned were older than all that  *)
(* are left: no line goes to a file that is not the log any more.  That    *)
(* takes two workers at once, the rotation of one under the handle of the  *)
(* other, and the names take a clock that is not set back.                 *)
(***************************************************************************)
RotationsInOrder ==
    /\ stray # {} => Cardinality(used) > 1
    /\ ~back => \A m, n \in Names \ {0} : m < n =>
           \A a \in Lines(file[m]) \ stray, b \in Lines(file[n]) \ stray : a < b
    /\ ~back => \A n \in Names \ {0} :
           \A a \in erased \ stray, b \in Lines(file[n]) \ stray : a < b
=============================================================================
