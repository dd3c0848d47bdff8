------------------------- MODULE RecordStoreProofs -------------------------
(***************************************************************************)
(* Proofs about RecordStore for any number of callers, jobs, hashes and    *)
(* timestamps, and for both backends.                                      *)
(***************************************************************************)
EXTENDS RecordStore, FiniteSetTheorems, TLAPS

(***************************************************************************)
(* Every variable keeps its type.                                          *)
(***************************************************************************)
LEMMA TypeInductive == TypeOK /\ [Next]_vars => TypeOK'
<1> SUFFICES ASSUME TypeOK, [Next]_vars PROVE TypeOK'
  OBVIOUS
<1> USE DEF TypeOK
<1>1. ASSUME NEW c \in Callers, NEW j \in JobIds, NEW batch \in Batches,
             Call(c, j, batch)
      PROVE  TypeOK'
  BY <1>1, BatchesAssumption DEF Call, Moves, txVars, dbVars
<1>2. ASSUME NEW c \in Callers, Enter(c) PROVE TypeOK'
  BY <1>2 DEF Enter, Moves, txVars, dbVars
<1>3. ASSUME NEW c \in Callers, Refuse(c) PROVE TypeOK'
  BY <1>3 DEF Refuse, Finish, txVars, dbVars
<1>4. ASSUME NEW c \in Callers, Begin(c) PROVE TypeOK'
  BY <1>4 DEF Begin, Moves, dbVars
<1>5. ASSUME NEW c \in Callers, Skip(c) PROVE TypeOK'
  BY <1>5 DEF Skip, txVars, dbVars
<1>6. ASSUME NEW c \in Callers, Insert(c) PROVE TypeOK'
  <2>1. Head(todo[c]) \in Hashes /\ Tail(todo[c]) \in Seq(Hashes)
    BY <1>6 DEF Insert
  <2>2. txRecords' \subseteq Record
    BY <1>6, <2>1 DEF Insert, Put, Record
  <2> QED
    BY <1>6, <2>1, <2>2 DEF Insert, dbVars
<1>7. ASSUME NEW c \in Callers, Fail(c) PROVE TypeOK'
  BY <1>7 DEF Fail, EndTransaction, Finish, dbVars
<1>8. ASSUME NEW c \in Callers, Commit(c) PROVE TypeOK'
  BY <1>8 DEF Commit, Moves, EndTransaction
<1>9. ASSUME NEW c \in Callers, Return(c) PROVE TypeOK'
  <2>1. told' \in [Hashes -> Nat]
    BY <1>9 DEF Return
  <2> QED
    BY <1>9, <2>1 DEF Return, Finish, txVars, dbVars
<1>10. ASSUME NEW c \in Callers, Cancel(c) PROVE TypeOK'
  BY <1>10 DEF Cancel, Finish, txVars, dbVars
<1>11. CASE Close
  BY <1>11 DEF Close, txVars, dbVars
<1>12. CASE Restart
  BY <1>12 DEF Restart, EndTransaction, dbVars
<1>13. CASE UNCHANGED vars
  BY <1>13 DEF vars
<1> QED
  BY <1>1, <1>2, <1>3, <1>4, <1>5, <1>6, <1>7, <1>8, <1>9, <1>10, <1>11,
     <1>12, <1>13 DEF Next, Step

(***************************************************************************)
(* RecordStore is type correct.                                            *)
(***************************************************************************)
THEOREM TypeCorrect == Spec => []TypeOK
<1>1. Init => TypeOK
  BY DEF Init, TypeOK
<1> QED
  BY <1>1, TypeInductive, PTL DEF Spec

-----------------------------------------------------------------------------
(***************************************************************************)
(* Consistent is inductive.  The actions that matter: Begin takes a        *)
(* snapshot only when no transaction is open, Insert keeps the snapshot    *)
(* equal to the tables plus its own writes, Commit hands its new hashes to *)
(* one caller, Return turns them into "told".                              *)
(***************************************************************************)
LEMMA InitConsistent == Init => Consistent
  BY NoOneAssumption
  DEF Init, Consistent, OneWriter, TransactionView, FreshIsOwned, ToldIsSeen,
      AtMostOnce, RecordsAreSeen, NoWorkWhenClosed

LEMMA ConsistentInductive ==
    TypeOK /\ Consistent /\ [Next]_vars => Consistent'
<1> SUFFICES ASSUME TypeOK, Consistent, [Next]_vars PROVE Consistent'
  OBVIOUS
<1> USE DEF Consistent, OneWriter, TransactionView, FreshIsOwned, ToldIsSeen,
            AtMostOnce, RecordsAreSeen, NoWorkWhenClosed, Guarded
<1>1. ASSUME NEW c \in Callers, NEW j \in JobIds, NEW batch \in Batches,
             Call(c, j, batch)
      PROVE  Consistent'
  BY <1>1, NoOneAssumption DEF Call, Moves, txVars, dbVars, TypeOK
<1>2. ASSUME NEW c \in Callers, Enter(c) PROVE Consistent'
  BY <1>2 DEF Enter, Moves, txVars, dbVars, TypeOK
<1>3. ASSUME NEW c \in Callers, Refuse(c) PROVE Consistent'
  BY <1>3 DEF Refuse, Finish, txVars, dbVars, TypeOK
<1>4. ASSUME NEW c \in Callers, Begin(c) PROVE Consistent'
  BY <1>4, NoOneAssumption DEF Begin, Moves, dbVars, TypeOK
<1>5. ASSUME NEW c \in Callers, Skip(c) PROVE Consistent'
  BY <1>5 DEF Skip, txVars, dbVars, TypeOK
<1>6. ASSUME NEW c \in Callers, Insert(c) PROVE Consistent'
  <2> DEFINE h == Head(todo[c])
  <2>1. writer # NoOne
    BY <1>6, NoOneAssumption DEF Insert
  <2>2. TransactionView'
    <3>1. PICK ts \in Timestamps : Put(job[c], ts, h)
      BY <1>6 DEF Insert
    <3>2. \A r \in txRecords' : r \in txRecords \/ r.hash = h
      BY <3>1 DEF Put
    <3>3. txSeen' = txSeen \cup {h} /\ txNew' = txNew \cup {h} /\ h \notin txSeen
      BY <1>6 DEF Insert
    <3> QED
      BY <1>6, <2>1, <3>2, <3>3 DEF Insert, dbVars
  <2>3. UNCHANGED <<writer, pc, open, seen, records, fresh, told>>
    BY <1>6 DEF Insert, dbVars
  <2> QED
    BY <2>2, <2>3
<1>7. ASSUME NEW c \in Callers, Fail(c) PROVE Consistent'
  BY <1>7, NoOneAssumption DEF Fail, EndTransaction, Finish, dbVars, TypeOK
<1>8. ASSUME NEW c \in Callers, Commit(c) PROVE Consistent'
  <2>1. /\ seen' = seen \cup txNew
        /\ txNew \cap seen = {}
        /\ pc[c] = "writing"
        /\ pc' = [pc EXCEPT ![c] = "committed"]
        /\ fresh' = [fresh EXCEPT ![c] = txNew]
        /\ writer = c /\ writer' = NoOne
        /\ UNCHANGED <<open, told>>
    BY <1>8, NoOneAssumption DEF Commit, Moves, EndTransaction
  <2>2. OneWriter' /\ TransactionView'
    BY <2>1, NoOneAssumption DEF TypeOK
  <2>3. \A h \in txNew : told[h] = 0
    BY <2>1 DEF TypeOK
  <2>4. FreshIsOwned'
    BY <2>1, <2>3 DEF TypeOK
  <2>5. ToldIsSeen' /\ AtMostOnce'
    BY <2>1
  <2>6. RecordsAreSeen'
    BY <1>8, NoOneAssumption DEF Commit
  <2>7. NoWorkWhenClosed'
    BY <2>1 DEF TypeOK
  <2> QED
    BY <2>2, <2>4, <2>5, <2>6, <2>7
<1>9. ASSUME NEW c \in Callers, Return(c) PROVE Consistent'
  <2>1. /\ pc[c] = "committed"
        /\ pc' = [pc EXCEPT ![c] = "idle"]
        /\ fresh' = [fresh EXCEPT ![c] = {}]
        /\ \A h \in Hashes : told'[h] = IF h \in fresh[c] THEN told[h] + 1 ELSE told[h]
        /\ UNCHANGED <<open, writer, txSeen, txRecords, txNew, seen, records>>
    BY <1>9 DEF Return, Finish, txVars, dbVars
  <2>2. OneWriter' /\ TransactionView' /\ RecordsAreSeen' /\ NoWorkWhenClosed'
    BY <2>1 DEF TypeOK
  <2>3. \A h \in Hashes : h \in fresh[c] => told[h] = 0 /\ told'[h] = 1 /\ h \in seen
    BY <2>1 DEF TypeOK
  <2>4. \A h \in Hashes : h \notin fresh[c] => told'[h] = told[h]
    BY <2>1
  <2>5. ToldIsSeen' /\ AtMostOnce'
    BY <2>1, <2>3, <2>4
  <2>6. FreshIsOwned'
    <3> SUFFICES ASSUME NEW d \in Callers
                 PROVE  /\ fresh'[d] # {} => pc'[d] = "committed"
                        /\ fresh'[d] \subseteq seen'
                        /\ \A h \in fresh'[d] : told'[h] = 0
                        /\ \A e \in Callers \ {d} : fresh'[d] \cap fresh'[e] = {}
      OBVIOUS
    <3>1. CASE d = c
      BY <2>1, <3>1 DEF TypeOK
    <3>2. CASE d # c
      <4>1. fresh'[d] = fresh[d] /\ fresh[d] \cap fresh[c] = {} /\ pc'[d] = pc[d]
        BY <2>1, <3>2 DEF TypeOK
      <4>2. \A h \in fresh[d] : told'[h] = 0
        BY <2>1, <4>1 DEF TypeOK
      <4> QED
        BY <2>1, <4>1, <4>2 DEF TypeOK
    <3> QED
      BY <3>1, <3>2
  <2> QED
    BY <2>2, <2>5, <2>6
<1>10. ASSUME NEW c \in Callers, Cancel(c) PROVE Consistent'
  BY <1>10 DEF Cancel, Finish, txVars, dbVars, TypeOK
<1>11. CASE Close
  BY <1>11 DEF Close, txVars, dbVars, TypeOK
<1>12. CASE Restart
  BY <1>12, NoOneAssumption DEF Restart, EndTransaction, dbVars, TypeOK
<1>13. CASE UNCHANGED vars
  BY <1>13 DEF vars
<1> QED
  BY <1>1, <1>2, <1>3, <1>4, <1>5, <1>6, <1>7, <1>8, <1>9, <1>10, <1>11,
     <1>12, <1>13 DEF Next, Step

(***************************************************************************)
(* Every reachable state is consistent.                                    *)
(***************************************************************************)
THEOREM AlwaysConsistent == Spec => []Consistent
  BY InitConsistent, ConsistentInductive, TypeCorrect, PTL DEF Spec

(***************************************************************************)
(* No caller of batch_check_and_insert, in any job, on any thread, is told *)
(* a second time that a hash is new.                                       *)
(***************************************************************************)
THEOREM DeduplicationHolds == Spec => []AtMostOnce
<1>1. Consistent => AtMostOnce
  BY DEF Consistent
<1> QED
  BY <1>1, AlwaysConsistent, PTL

(***************************************************************************)
(* A rolled-back or half-done batch never leaves a record whose hash is    *)
(* not marked seen.                                                        *)
(***************************************************************************)
THEOREM RecordsAreAlwaysSeen == Spec => []RecordsAreSeen
<1>1. Consistent => RecordsAreSeen
  BY DEF Consistent
<1> QED
  BY <1>1, AlwaysConsistent, PTL

(***************************************************************************)
(* Db::close never takes the backend from under a running operation.       *)
(***************************************************************************)
THEOREM CloseWaitsForWork == Spec => []NoWorkWhenClosed
<1>1. Consistent => NoWorkWhenClosed
  BY DEF Consistent
<1> QED
  BY <1>1, AlwaysConsistent, PTL
-----------------------------------------------------------------------------
(***************************************************************************)
(* Refinement: a commit claims the batch's new hashes, a return tells      *)
(* them, a cancelled caller or a restart forgets them, and every other     *)
(* step leaves the promise's variables alone.                              *)
(***************************************************************************)
LEMMA InitRefines == Init => Promise!Init
<1> SUFFICES ASSUME Init PROVE Owed = {} /\ seen = {} /\ told = [h \in Hashes |-> 0]
  BY DEF Promise!Init
<1> QED
  BY DEF Init, Owed

LEMMA StepRefines ==
    TypeOK /\ Consistent /\ [Next]_vars => [Promise!Next]_(Promise!vars)
<1> SUFFICES ASSUME TypeOK, Consistent, [Next]_vars
             PROVE  \/ Promise!Next
                    \/ UNCHANGED <<seen, Owed, told>>
  BY DEF Promise!vars
<1>1. (UNCHANGED <<seen, fresh, told>>) => UNCHANGED <<seen, Owed, told>>
  BY DEF Owed
<1>2. ASSUME NEW c \in Callers, Commit(c) PROVE Promise!Next
  <2>1. /\ seen' = seen \cup txNew
        /\ txNew \cap seen = {}
        /\ fresh' = [fresh EXCEPT ![c] = txNew]
        /\ fresh[c] = {}
        /\ UNCHANGED told
    BY <1>2, NoOneAssumption
    DEF Commit, Moves, EndTransaction, Consistent, TransactionView, FreshIsOwned
  <2>2. Owed' = Owed \cup txNew
    BY <2>1 DEF Owed, TypeOK
  <2>3. Promise!Claim(txNew)
    BY <2>1, <2>2 DEF Promise!Claim
  <2>4. txNew \in SUBSET Hashes
    BY DEF TypeOK
  <2> QED
    BY <2>3, <2>4 DEF Promise!Next
<1>3. ASSUME NEW c \in Callers, Return(c) PROVE Promise!Next
  <2>1. Owed' = Owed \ fresh[c] /\ fresh[c] \subseteq Owed
    BY <1>3 DEF Return, Owed, TypeOK, Consistent, FreshIsOwned
  <2>2. Promise!Settle(fresh[c], fresh[c])
    BY <1>3, <2>1 DEF Promise!Settle, Return, dbVars
  <2>3. fresh[c] \in SUBSET Hashes
    BY DEF TypeOK
  <2> QED
    BY <2>2, <2>3 DEF Promise!Next
<1>4. ASSUME NEW c \in Callers, Cancel(c) PROVE Promise!Next
  <2>1. Owed' = Owed \ fresh[c] /\ fresh[c] \subseteq Owed
    BY <1>4 DEF Cancel, Owed, TypeOK, Consistent, FreshIsOwned
  <2>2. Promise!Settle(fresh[c], {})
    BY <1>4, <2>1 DEF Promise!Settle, Cancel, dbVars, TypeOK
  <2>3. fresh[c] \in SUBSET Hashes
    BY DEF TypeOK
  <2> QED
    BY <2>2, <2>3 DEF Promise!Next
<1>5. CASE Restart
  <2>1. Owed' = {}
    BY <1>5 DEF Restart, Owed
  <2>2. Promise!Settle(Owed, {})
    BY <1>5, <2>1 DEF Promise!Settle, Restart, dbVars, TypeOK
  <2>3. Owed \in SUBSET Hashes
    BY DEF Owed, TypeOK
  <2> QED
    BY <2>2, <2>3 DEF Promise!Next
<1>6. ASSUME NEW c \in Callers,
             Enter(c) \/ Refuse(c) \/ Begin(c) \/ Skip(c) \/ Insert(c) \/ Fail(c)
      PROVE  UNCHANGED <<seen, fresh, told>>
  BY <1>6 DEF Enter, Refuse, Begin, Skip, Insert, Fail, dbVars
<1>7. ASSUME NEW c \in Callers, NEW j \in JobIds, NEW batch \in Batches,
             Call(c, j, batch)
      PROVE  UNCHANGED <<seen, fresh, told>>
  BY <1>7 DEF Call, dbVars
<1>8. CASE Close
  BY <1>1, <1>8 DEF Close, dbVars
<1>9. CASE UNCHANGED vars
  BY <1>1, <1>9 DEF vars
<1> QED
  BY <1>1, <1>2, <1>3, <1>4, <1>5, <1>6, <1>7, <1>8, <1>9 DEF Next, Step

(***************************************************************************)
(* The store keeps the deduplication promise of SeenStore.                 *)
(***************************************************************************)
THEOREM RefinesSeenStore == Spec => PromiseSpec
<1>1. Spec => []TypeOK /\ []Consistent
  BY TypeCorrect, AlwaysConsistent, PTL
<1> QED
  BY <1>1, InitRefines, StepRefines, PTL DEF Spec, PromiseSpec, Promise!Spec

LEMMA PromiseTypes == PromiseSpec => []Promise!TypeOK
<1>1. Promise!Init => Promise!TypeOK
  BY DEF Promise!Init, Promise!TypeOK
<1>2. Promise!TypeOK /\ [Promise!Next]_(Promise!vars) => Promise!TypeOK'
  BY DEF Promise!TypeOK, Promise!Next, Promise!Claim, Promise!Settle, Promise!vars
<1> QED
  BY <1>1, <1>2, PTL DEF PromiseSpec, Promise!Spec

(***************************************************************************)
(* Whatever keeps the promise, as this store does, reports no hash as new  *)
(* twice: what is still owed has not been told.                            *)
(***************************************************************************)
THEOREM PromiseIsAtMostOnce == PromiseSpec => []Promise!AtMostOnce
<1>1. Promise!Init => Promise!OwedIsUntold
  BY DEF Promise!Init, Promise!OwedIsUntold, Promise!AtMostOnce
<1>2. Promise!TypeOK /\ Promise!OwedIsUntold /\ [Promise!Next]_(Promise!vars)
          => Promise!OwedIsUntold'
  BY DEF Promise!TypeOK, Promise!OwedIsUntold, Promise!AtMostOnce, Promise!Next,
         Promise!Claim, Promise!Settle, Promise!vars
<1>3. Promise!OwedIsUntold => Promise!AtMostOnce
  BY DEF Promise!OwedIsUntold
<1> QED
  BY <1>1, <1>2, <1>3, PromiseTypes, PTL DEF PromiseSpec, Promise!Spec
-----------------------------------------------------------------------------
(***************************************************************************)
(* On sqlite a hash is seen together with its one record, in the tables    *)
(* and in the transaction that is open.                                    *)
(***************************************************************************)
OneEach(s, rs) == \A h \in s : \E r \in rs : {q \in rs : q.hash = h} = {r}

Paired ==
    backend = "sqlite" =>
        /\ OneEach(seen, records)
        /\ writer # NoOne => OneEach(txSeen, txRecords)

LEMMA PairedInductive == TypeOK /\ Consistent /\ Paired /\ [Next]_vars => Paired'
<1> SUFFICES ASSUME TypeOK, Consistent, Paired, [Next]_vars, backend' = "sqlite"
             PROVE  /\ OneEach(seen', records')
                    /\ writer' # NoOne => OneEach(txSeen', txRecords')
  BY DEF Paired
<1>1. backend = "sqlite"
  BY DEF Next, Step, Call, Enter, Refuse, Begin, Skip, Insert, Fail, Commit, Return,
         Cancel, Close, Restart, vars, dbVars
<1>2. ASSUME NEW c \in Callers, Begin(c)
      PROVE  OneEach(seen', records') /\ OneEach(txSeen', txRecords')
  BY <1>1, <1>2 DEF Begin, Paired, dbVars
<1>3. ASSUME NEW c \in Callers, Insert(c)
      PROVE  OneEach(seen', records') /\ OneEach(txSeen', txRecords')
  <2> DEFINE h == Head(todo[c])
  <2>1. writer # NoOne /\ UNCHANGED <<seen, records>>
    BY <1>3, NoOneAssumption DEF Insert, dbVars
  <2>2. PICK ts \in Timestamps : Put(job[c], ts, h)
    BY <1>3 DEF Insert
  <2> DEFINE r == [job |-> job[c], ts |-> ts, hash |-> h]
  <2>3. txRecords' = txRecords \cup {r} /\ r.hash = h
    BY <1>1, <2>2 DEF Put
  <2>4. txSeen' = txSeen \cup {h} /\ h \notin txSeen
    BY <1>3 DEF Insert
  <2>5. \A q \in txRecords : q.hash \in txSeen
    BY <2>1 DEF Consistent, TransactionView
  <2>6. OneEach(txSeen, txRecords)
    BY <1>1, <2>1 DEF Paired
  <2> HIDE DEF h, r
  <2>7. {q \in txRecords' : q.hash = h} = {r}
    BY <2>3, <2>4, <2>5
  <2>8. \A g \in txSeen : {q \in txRecords' : q.hash = g} = {q \in txRecords : q.hash = g}
    BY <2>3, <2>4
  <2>9. OneEach(txSeen', txRecords')
    BY <2>3, <2>4, <2>6, <2>7, <2>8 DEF OneEach
  <2> QED
    BY <1>1, <2>1, <2>9 DEF Paired
<1>4. ASSUME NEW c \in Callers, Commit(c)
      PROVE  OneEach(seen', records') /\ writer' = NoOne
  BY <1>1, <1>4, NoOneAssumption DEF Commit, EndTransaction, Paired
<1>5. CASE \/ \E c \in Callers, j \in JobIds, batch \in Batches : Call(c, j, batch)
           \/ \E c \in Callers : \/ Enter(c) \/ Refuse(c) \/ Skip(c) \/ Fail(c)
                                 \/ Return(c) \/ Cancel(c)
           \/ Close \/ Restart \/ UNCHANGED vars
  <2>1. UNCHANGED <<seen, records>>
        /\ (writer' = NoOne \/ UNCHANGED <<writer, txSeen, txRecords>>)
    BY <1>5 DEF Call, Enter, Refuse, Skip, Fail, Return, Cancel, Close, Restart, vars,
                dbVars, txVars, EndTransaction
  <2> QED
    BY <1>1, <2>1 DEF Paired
<1> QED
  BY <1>2, <1>3, <1>4, <1>5 DEF Next, Step

(***************************************************************************)
(* With sqlite no duplicate is suppressed for a record that is not there,  *)
(* and no hash has two records, for any batches, failures and restarts.    *)
(***************************************************************************)
THEOREM SeenHasItsRecord == Spec => []OneRecordPerSeenHash
<1>1. Init => Paired
  BY NoOneAssumption DEF Init, Paired, OneEach
<1>2. Paired => OneRecordPerSeenHash
  BY FS_Singleton DEF Paired, OneEach, OneRecordPerSeenHash
<1> QED
  BY <1>1, <1>2, PairedInductive, TypeCorrect, AlwaysConsistent, PTL DEF Spec
=============================================================================
