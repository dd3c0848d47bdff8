----------------------------- MODULE SeenStore -----------------------------
(***************************************************************************)
(* What deduplication promises, with the storage engine, the transactions  *)
(* and the callers abstracted away: a hash is claimed at most once, by one *)
(* batch, and whoever claimed it is told so at most once.                  *)
(*                                                                         *)
(*   seen   hashes that have ever been claimed                             *)
(*   owed   hashes claimed whose claimer has not been told yet             *)
(*   told   how many times a caller was told "this hash is new"            *)
(*                                                                         *)
(* RecordStore implements it with the database's transactions; Pipeline    *)
(* implements it for its notifications and again for its webhooks.         *)
(***************************************************************************)
EXTENDS Naturals

CONSTANT Hashes

VARIABLES seen, owed, told

vars == <<seen, owed, told>>

TypeOK ==
    /\ seen \subseteq Hashes
    /\ owed \subseteq Hashes
    /\ told \in [Hashes -> Nat]

Init ==
    /\ seen = {}
    /\ owed = {}
    /\ told = [h \in Hashes |-> 0]

\* A batch claims, in one atomic step, hashes nobody claimed before.
Claim(S) ==
    /\ S \cap seen = {}
    /\ seen' = seen \cup S
    /\ owed' = owed \cup S
    /\ UNCHANGED told

\* A claimer lets go of hashes it was owed.  It is told of those in T; the
\* rest is lost with it (a crash, a cancelled task, an error on the way).
Settle(S, T) ==
    /\ T \subseteq S
    /\ S \subseteq owed
    /\ owed' = owed \ S
    /\ told' = [h \in Hashes |-> IF h \in T THEN told[h] + 1 ELSE told[h]]
    /\ UNCHANGED seen

Next ==
    \/ \E S \in SUBSET Hashes : Claim(S)
    \/ \E S \in SUBSET Hashes : \E T \in SUBSET S : Settle(S, T)

Spec == Init /\ [][Next]_vars

(***************************************************************************)
(* The promise: no hash is ever reported as new twice.                     *)
(***************************************************************************)
AtMostOnce == \A h \in Hashes : told[h] <= 1

\* AtMostOnce is not inductive: what is still owed must not have been told.
OwedIsUntold ==
    /\ owed \subseteq seen
    /\ \A h \in Hashes : told[h] # 0 => h \in seen \ owed
    /\ AtMostOnce
=============================================================================
