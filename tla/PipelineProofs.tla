--------------------------- MODULE PipelineProofs ---------------------------
(***************************************************************************)
(* Proofs about Pipeline for any number of hashes, urls, workers, cycles   *)
(* and reloads, with and without hooks and panics.                         *)
(***************************************************************************)
EXTENDS Pipeline, SequenceTheorems, TLAPS

(***************************************************************************)
(* Tasks: a task is a generation and one of its workers.                   *)
(***************************************************************************)
LEMMA TaskOf ==
    ASSUME NEW g \in Gens, NEW i \in Workers(g)
    PROVE  <<g, i>> \in Tasks
  BY DEF Tasks

LEMMA TaskParts ==
    ASSUME NEW t \in Tasks
    PROVE  t[1] \in Gens /\ t[2] \in Workers(t[1]) /\ t = <<t[1], t[2]>>
  BY DEF Tasks

LEMMA WorkerCount ==
    ASSUME NEW g \in Gens
    PROVE  N[g] \in Nat /\ N[g] >= 1 /\ Workers(g) = 1..N[g]
  BY WorkersAssumption DEF Gens, Workers

(***************************************************************************)
(* Every variable keeps its type.                                          *)
(***************************************************************************)
LEMMA InitTypes == Init => TypeOK
<1> SUFFICES ASSUME Init PROVE TypeOK
  OBVIOUS
<1>1. \A g \in Gens : N[g] \in Nat
  BY WorkerCount
<1>2. <<>> \in Seq(DOMAIN UrlList)
  OBVIOUS
<1> QED
  BY <1>1, <1>2 DEF Init, TypeOK, LoopStates, Ended

LEMMA LoopTypes ==
    ASSUME TypeOK, NEW g \in Gens, LoopStep(g) \/ Cancel(g)
    PROVE  TypeOK'
<1> USE DEF TypeOK, LoopStates, Running, InRun, Ended
<1>1. N[g] \in Nat
  BY WorkerCount
<1>2. CASE BeginCycle(g)
  <2>1. [u \in DOMAIN UrlList |-> u] \in Seq(DOMAIN UrlList)
    BY UrlsAssumption
  <2> QED
    BY <1>1, <1>2, <2>1 DEF BeginCycle, dbVars
<1>3. CASE SpawnWorker(g)
  <2>1. spawned[g] + 1 \in Workers(g) /\ spawned[g] + 1 <= N[g]
    BY <1>1, <1>3 DEF SpawnWorker, Workers
  <2>2. wpc' \in [Tasks -> Running \cup Ended]
    BY <1>3, <2>1, TaskOf DEF SpawnWorker
  <2>3. spawned' \in [Gens -> Nat] /\ \A h \in Gens : spawned'[h] <= N[h]
    BY <1>3, <2>1 DEF SpawnWorker
  <2> QED
    BY <1>3, <2>2, <2>3 DEF SpawnWorker, dbVars
<1>4. CASE JoinWorker(g)
  BY <1>1, <1>4 DEF JoinWorker, dbVars
<1>5. CASE JoinPanicked(g) \/ Finish(g) \/ Respawn(g) \/ DropLoop(g) \/ Cancel(g)
  BY <1>5 DEF JoinPanicked, Finish, Respawn, DropLoop, Cancel, dbVars
<1> QED
  BY <1>2, <1>3, <1>4, <1>5 DEF LoopStep

LEMMA WorkerTypes ==
    ASSUME TypeOK, NEW t \in Tasks, WorkerStep(t) \/ PoolStep(t) \/ Panic(t)
    PROVE  TypeOK'
<1> USE DEF TypeOK, Running, InRun, Ended, Goes, Keep, Leave, AfterRun, loopVars, dbVars
<1>1. t[1] \in Gens
  BY TaskParts
<1>2. CASE TakeUrl(t)
  <2>1. /\ Head(queue[t[1]]) \in DOMAIN UrlList
        /\ Tail(queue[t[1]]) \in Seq(DOMAIN UrlList)
    <3>1. queue[t[1]] \in Seq(DOMAIN UrlList) /\ queue[t[1]] # <<>>
      BY <1>1, <1>2 DEF TakeUrl
    <3> QED
      BY <3>1, HeadTailProperties
  <2> QED
    BY <1>1, <1>2, <2>1 DEF TakeUrl
<1>3. CASE NoMoreUrls(t) \/ Prepare(t) \/ PrepareFails(t) \/ Fetch(t)
  <2>1. \E to \in {"done", "fetch", "extract", AfterRun} : wpc' = [wpc EXCEPT ![t] = to]
    BY <1>3 DEF NoMoreUrls, Prepare, PrepareFails, Fetch
  <2>2. UNCHANGED <<loop, cancelled, spawned, joined, queue, taken, items, result, pool,
                    seen, told, posted>>
    BY <1>3 DEF NoMoreUrls, Prepare, PrepareFails, Fetch
  <2>3. wpc' \in [Tasks -> Running \cup Ended]
    BY <2>1
  <2> QED
    BY <2>2, <2>3
<1>4. CASE FetchEnds(t) \/ ExtractEnds(t) \/ StoreEnds(t) \/ NotifyFails(t) \/ WebhookEnds(t)
  <2>1. PICK r \in {"ok", "err"} : Leave(t, r)
    BY <1>4, Zenon DEF FetchEnds, ExtractEnds, StoreEnds, NotifyFails, WebhookEnds
  <2>2. UNCHANGED <<loop, cancelled, spawned, joined, queue, taken, pool, seen, told, posted>>
    BY <1>4 DEF FetchEnds, ExtractEnds, StoreEnds, NotifyFails, WebhookEnds
  <2> QED
    BY <2>1, <2>2
<1>5. CASE Extract(t) \/ Store(t)
  <2>1. \E S \in SUBSET Hashes : items' = [items EXCEPT ![t] = S]
    BY <1>5 DEF Extract, Store
  <2>2. items' \in [Tasks -> SUBSET Hashes]
    BY <2>1
  <2> QED
    BY <1>5, <2>2 DEF Extract, Store
<1>10. CASE Stored(t)
  BY <1>10 DEF Stored
<1>11. CASE StoreFails(t)
  BY <1>11 DEF StoreFails
<1>6. CASE Notify(t)
  BY <1>6 DEF Notify, Count
<1>7. CASE Webhook(t)
  BY <1>7 DEF Webhook, Count
<1>8. CASE Close(t) \/ Finally(t) \/ Cleanup(t) \/ DropWorker(t) \/ Panic(t)
  BY <1>8 DEF Close, Finally, Cleanup, DropWorker, Panic
<1>9. CASE Commit(t) \/ NeverRun(t)
  BY <1>9 DEF Commit, NeverRun
<1> QED
  BY <1>2, <1>3, <1>4, <1>5, <1>6, <1>7, <1>8, <1>9, <1>10, <1>11 DEF WorkerStep, TimelyStep, PoolStep

LEMMA TypeInductive == TypeOK /\ [Next]_vars => TypeOK'
<1>1. TypeOK /\ UNCHANGED vars => TypeOK'
  BY DEF TypeOK, vars
<1> QED
  BY <1>1, LoopTypes, WorkerTypes DEF Next

(***************************************************************************)
(* Pipeline is type correct.                                               *)
(***************************************************************************)
THEOREM TypeCorrect == Spec => []TypeOK
  BY InitTypes, TypeInductive, PTL DEF Spec
-----------------------------------------------------------------------------
(***************************************************************************)
(* The steps of a worker: they leave its loop alone, and only a running    *)
(* worker goes on.                                                         *)
(***************************************************************************)
LEMMA WorkerMoves ==
    ASSUME TypeOK, NEW t \in Tasks, WorkerStep(t) \/ PoolStep(t) \/ Panic(t)
    PROVE  /\ UNCHANGED <<loop, cancelled, spawned, joined>>
           /\ \A u \in Tasks \ {t} : wpc'[u] = wpc[u]
           /\ \/ wpc'[t] = wpc[t]
              \/ wpc[t] \in Running /\ wpc'[t] \in (Running \cup Ended) \ {"none"}
<1> USE DEF Keep, Goes, Leave, loopVars, dbVars, Running, InRun, Ended
<1>1. wpc \in [Tasks -> Running \cup Ended]
  BY DEF TypeOK
<1>2. CASE TakeUrl(t) \/ NoMoreUrls(t) \/ Prepare(t) \/ Fetch(t) \/ Extract(t) \/ Store(t)
  BY <1>1, <1>2 DEF TakeUrl, NoMoreUrls, Prepare, Fetch, Extract, Store
<1>3. CASE PrepareFails(t) \/ Close(t) \/ Finally(t) \/ Cleanup(t) \/ Notify(t)
  BY <1>1, <1>3 DEF PrepareFails, Close, Finally, Cleanup, Notify, AfterRun
<1>4. CASE \/ FetchEnds(t) \/ ExtractEnds(t) \/ StoreEnds(t) \/ NotifyFails(t)
           \/ WebhookEnds(t) \/ Webhook(t) \/ StoreFails(t)
  <2>1. /\ wpc[t] \in InRun
        /\ wpc' = [wpc EXCEPT ![t] = "closing"]
    BY <1>4, Zenon DEF FetchEnds, ExtractEnds, StoreEnds, NotifyFails, WebhookEnds, Webhook,
                       StoreFails
  <2>2. UNCHANGED <<loop, cancelled, spawned, joined>>
    BY <1>4 DEF FetchEnds, ExtractEnds, StoreEnds, NotifyFails, WebhookEnds, Webhook,
                StoreFails
  <2> QED
    BY <1>1, <2>1, <2>2
<1>5. CASE Stored(t) \/ DropWorker(t) \/ Panic(t)
  BY <1>1, <1>5 DEF Stored, DropWorker, Panic
<1>6. CASE PoolStep(t)
  BY <1>6 DEF PoolStep, Commit, NeverRun
<1> QED
  BY <1>2, <1>3, <1>4, <1>5, <1>6 DEF WorkerStep, TimelyStep

(***************************************************************************)
(* The loop and its workers: nobody is spawned before the first cycle,     *)
(* workers are spawned in order, and those that were joined have ended.    *)
(***************************************************************************)
LoopInv ==
    \A g \in Gens :
        /\ joined[g] <= spawned[g]
        /\ loop[g] \in {"none", "ready"} => \A i \in Workers(g) : wpc[<<g, i>>] = "none"
        /\ loop[g] = "cycle" =>
               \A i \in Workers(g) :
                   /\ i <= joined[g] => wpc[<<g, i>>] = "done"
                   /\ i > spawned[g] => wpc[<<g, i>>] = "none"
        /\ loop[g] = "sleeping" => \A i \in Workers(g) : wpc[<<g, i>>] = "done"

LEMMA InitLoop == Init => LoopInv
  BY TaskOf DEF Init, LoopInv

LEMMA LoopInductive == TypeOK /\ LoopInv /\ [Next]_vars => LoopInv'
<1> SUFFICES ASSUME TypeOK, LoopInv, [Next]_vars PROVE LoopInv'
  OBVIOUS
<1>1. ASSUME NEW t \in Tasks, WorkerStep(t) \/ PoolStep(t) \/ Panic(t) PROVE LoopInv'
  <2>1. \A u \in Tasks : wpc[u] \in {"none", "done"} => wpc'[u] = wpc[u]
    BY <1>1, WorkerMoves DEF Running, InRun
  <2>2. UNCHANGED <<loop, spawned, joined>>
    BY <1>1, WorkerMoves
  <2> QED
    BY <2>1, <2>2, TaskOf DEF LoopInv
<1>2. ASSUME NEW g \in Gens, LoopStep(g) \/ Cancel(g) PROVE LoopInv'
  <2> USE TaskOf DEF LoopInv, TypeOK
  <2>1. N[g] \in Nat /\ N[g] >= 1 /\ Workers(g) = 1..N[g]
    BY WorkerCount
  <2>2. \A t \in Tasks, h \in Gens : \A i \in Workers(h) : t = <<h, i>> => t[1] = h /\ t[2] = i
    OBVIOUS
  <2>3. CASE BeginCycle(g)
    <3>1. \A h \in Gens : \A i \in Workers(h) :
              wpc'[<<h, i>>] = IF h = g THEN "none" ELSE wpc[<<h, i>>]
      BY <2>3 DEF BeginCycle
    <3> QED
      BY <2>1, <2>3, <3>1 DEF BeginCycle
  <2>4. CASE SpawnWorker(g)
    <3>1. <<g, spawned[g] + 1>> \in Tasks
      BY <2>1, <2>4 DEF SpawnWorker
    <3>2. \A h \in Gens : \A i \in Workers(h) :
              h # g \/ i # spawned[g] + 1 => wpc'[<<h, i>>] = wpc[<<h, i>>]
      BY <2>4, <3>1 DEF SpawnWorker
    <3> QED
      BY <2>1, <2>4, <3>2 DEF SpawnWorker
  <2>5. CASE JoinWorker(g)
    <3>1. ASSUME NEW i \in Workers(g), i <= joined[g] + 1 PROVE wpc[<<g, i>>] = "done"
      <4>1. i <= joined[g] \/ i = joined[g] + 1
        BY <2>1, <3>1
      <4>2. loop[g] = "cycle" /\ wpc[<<g, joined[g] + 1>>] = "done"
        BY <2>5 DEF JoinWorker
      <4> QED
        BY <4>1, <4>2
    <3>2. /\ UNCHANGED <<loop, spawned, wpc>>
          /\ joined' = [joined EXCEPT ![g] = @ + 1]
          /\ joined[g] + 1 <= spawned[g]
      BY <2>1, <2>5 DEF JoinWorker
    <3> QED
      BY <2>1, <3>1, <3>2
  <2>6. CASE Finish(g)
    <3>1. /\ UNCHANGED <<joined, spawned, wpc>>
          /\ loop' = [loop EXCEPT ![g] = "sleeping"]
          /\ \A i \in Workers(g) : wpc[<<g, i>>] = "done"
      BY <2>1, <2>6 DEF Finish
    <3> QED
      BY <3>1
  <2>7. CASE JoinPanicked(g) \/ Respawn(g) \/ DropLoop(g) \/ Cancel(g)
    <3>1. UNCHANGED <<joined, spawned, wpc>>
      BY <2>7 DEF JoinPanicked, Respawn, DropLoop, Cancel
    <3>2. \/ loop' = loop
          \/ loop' = [loop EXCEPT ![g] = "gone"] \/ loop' = [loop EXCEPT ![g] = "dead"]
          \/ loop[g] = "none" /\ loop' = [loop EXCEPT ![g] = "ready"]
      BY <2>7 DEF JoinPanicked, Respawn, DropLoop, Cancel
    <3>3. CASE loop' = loop
      BY <3>1, <3>3
    <3>4. ASSUME NEW to \in {"gone", "dead"}, loop' = [loop EXCEPT ![g] = to] PROVE LoopInv'
      BY <3>1, <3>4
    <3>5. CASE loop[g] = "none" /\ loop' = [loop EXCEPT ![g] = "ready"]
      BY <3>1, <3>5
    <3> QED
      BY <3>2, <3>3, <3>4, <3>5
  <2> QED
    BY <1>2, <2>3, <2>4, <2>5, <2>6, <2>7 DEF LoopStep
<1>3. CASE UNCHANGED vars
  BY <1>3 DEF vars, LoopInv
<1> QED
  BY <1>1, <1>2, <1>3 DEF Next

(***************************************************************************)
(* on_finished runs when all runs of its cycle are over, however many      *)
(* workers and reloads there are.                                          *)
(***************************************************************************)
THEOREM FinishedIsAlwaysLast == Spec => []FinishedIsLast
<1>1. LoopInv => FinishedIsLast
  BY DEF LoopInv, FinishedIsLast
<1> QED
  BY <1>1, InitLoop, LoopInductive, TypeCorrect, PTL DEF Spec
-----------------------------------------------------------------------------
(***************************************************************************)
(* The urls of a cycle.  The queue is what is left of UrlList: the urls    *)
(* before it were taken once, those in it not yet.  A worker that found it *)
(* empty has ended, and it stays empty until the next cycle.               *)
(***************************************************************************)
Untouched(g) == queue[g] = <<>> /\ \A u \in DOMAIN UrlList : taken[g][u] = 0

TakenSoFar(g) == Len(UrlList) - Len(queue[g])

Shared(g) ==
    /\ TakenSoFar(g) \in Nat
    /\ \A i \in 1..Len(queue[g]) : queue[g][i] = TakenSoFar(g) + i
    /\ \A u \in DOMAIN UrlList : taken[g][u] = IF u <= TakenSoFar(g) THEN 1 ELSE 0

QueueInv ==
    \A g \in Gens :
        /\ Shared(g) \/ (Untouched(g) /\ loop[g] \notin {"cycle", "sleeping"})
        /\ \A i \in Workers(g) : wpc[<<g, i>>] = "done" => queue[g] = <<>>

LEMMA InitQueue == Init => QueueInv
<1> SUFFICES ASSUME Init PROVE QueueInv
  OBVIOUS
<1>1. \A g \in Gens : Untouched(g) /\ loop[g] \in {"none", "ready"}
  BY DEF Init, Untouched
<1> QED
  BY <1>1, TaskOf DEF Init, QueueInv

LEMMA QueueMoves ==
    ASSUME TypeOK, HasUrls, NEW t \in Tasks, WorkerStep(t) \/ PoolStep(t) \/ Panic(t)
    PROVE  \/ TakeUrl(t)
           \/ /\ UNCHANGED <<queue, taken>>
              /\ wpc'[t] = "done" => wpc[t] = "done" \/ queue[t[1]] = <<>>
<1> USE DEF Keep, Goes, Leave, AfterRun, TypeOK
<1>1. CASE NoMoreUrls(t) \/ Prepare(t) \/ Fetch(t) \/ Extract(t) \/ Store(t)
  BY <1>1 DEF NoMoreUrls, Prepare, Fetch, Extract, Store
<1>2. CASE PrepareFails(t) \/ Close(t) \/ Finally(t) \/ Cleanup(t) \/ Notify(t)
  BY <1>2 DEF PrepareFails, Close, Finally, Cleanup, Notify
<1>3. CASE \/ FetchEnds(t) \/ ExtractEnds(t) \/ StoreEnds(t) \/ NotifyFails(t)
           \/ WebhookEnds(t) \/ Webhook(t) \/ StoreFails(t)
  <2>1. wpc' = [wpc EXCEPT ![t] = "closing"]
    BY <1>3, Zenon DEF FetchEnds, ExtractEnds, StoreEnds, NotifyFails, WebhookEnds, Webhook,
                       StoreFails
  <2>2. UNCHANGED <<queue, taken>>
    BY <1>3 DEF FetchEnds, ExtractEnds, StoreEnds, NotifyFails, WebhookEnds, Webhook,
                StoreFails
  <2> QED
    BY <2>1, <2>2
<1>4. CASE Stored(t) \/ DropWorker(t) \/ Panic(t)
  BY <1>4 DEF Stored, DropWorker, Panic
<1>5. CASE PoolStep(t)
  BY <1>5 DEF PoolStep, Commit, NeverRun
<1> QED
  BY <1>1, <1>2, <1>3, <1>4, <1>5 DEF WorkerStep, TimelyStep

\* Taking a url moves the boundary by one.
LEMMA TakeKeepsShared ==
    ASSUME TypeOK, NEW t \in Tasks, TakeUrl(t), Shared(t[1])
    PROVE  Shared(t[1])'
<1> DEFINE g == t[1]
           q == queue[g]
           k == TakenSoFar(g)
<1>1. /\ g \in Gens /\ q \in Seq(DOMAIN UrlList) /\ q # <<>>
      /\ queue'[g] = Tail(q)
      /\ taken'[g] = [taken[g] EXCEPT ![Head(q)] = @ + 1]
      /\ taken[g] \in [DOMAIN UrlList -> Nat]
  BY TaskParts DEF TakeUrl, TypeOK
<1>2. /\ k = Len(UrlList) - Len(q) /\ k \in Nat
      /\ \A i \in 1..Len(q) : q[i] = k + i
      /\ \A u \in DOMAIN UrlList : taken[g][u] = IF u <= k THEN 1 ELSE 0
  BY DEF Shared, TakenSoFar
<1>3. /\ Len(UrlList) \in Nat /\ DOMAIN UrlList = 1..Len(UrlList)
      /\ Len(q) \in Nat /\ Len(q) >= 1
      /\ Head(q) = q[1] /\ Head(q) \in DOMAIN UrlList
  BY <1>1, UrlsAssumption, HeadTailProperties, LenProperties, EmptySeq
<1>4. /\ Len(Tail(q)) = Len(q) - 1
      /\ \A i \in 1..Len(q) - 1 : Tail(q)[i] = q[i + 1]
  BY <1>1, HeadTailProperties
<1> HIDE DEF g, q, k
<1>5. Len(UrlList) - Len(Tail(q)) = k + 1 /\ Head(q) = k + 1
  <2>1. q[1] = k + 1
    BY <1>2, <1>3
  <2>2. Len(UrlList) - Len(Tail(q)) = k + 1
    <3>1. \A n, m \in Nat : n - (m - 1) = (n - m) + 1
      OBVIOUS
    <3>2. Len(Tail(q)) = Len(q) - 1 /\ k = Len(UrlList) - Len(q)
      BY <1>2, <1>4
    <3> QED
      BY <1>3, <3>1, <3>2
  <2> QED
    BY <1>3, <2>1, <2>2
<1>6. \A i \in 1..Len(Tail(q)) : Tail(q)[i] = k + 1 + i
  BY <1>2, <1>3, <1>4
<1>7. \A u \in DOMAIN UrlList : taken'[g][u] = IF u <= k + 1 THEN 1 ELSE 0
  BY <1>1, <1>2, <1>3, <1>5
<1>8. Len(UrlList) - Len(queue'[g]) = k + 1 /\ k + 1 \in Nat
  BY <1>1, <1>2, <1>5
<1>9. Shared(g)'
  BY <1>1, <1>6, <1>7, <1>8 DEF Shared, TakenSoFar
<1> QED
  BY <1>9 DEF g

LEMMA QueueInductive ==
    HasUrls /\ TypeOK /\ LoopInv /\ QueueInv /\ [Next]_vars => QueueInv'
<1> SUFFICES ASSUME HasUrls, TypeOK, LoopInv, QueueInv, [Next]_vars PROVE QueueInv'
  OBVIOUS
<1>1. ASSUME NEW t \in Tasks, TakeUrl(t) PROVE QueueInv'
  <2>1. t[1] \in Gens /\ queue[t[1]] # <<>> /\ UNCHANGED loop
    BY <1>1, TaskParts DEF TakeUrl, loopVars
  <2>2. \A u \in Tasks : wpc'[u] = "done" => wpc[u] = "done" /\ u # t
    BY <1>1 DEF TakeUrl, Goes, TypeOK
  <2>3. \A i \in Workers(t[1]) : wpc'[<<t[1], i>>] # "done"
    BY <2>1, <2>2, TaskOf DEF QueueInv
  <2>4. Shared(t[1])'
    BY <1>1, <2>1, TakeKeepsShared DEF QueueInv, Untouched
  <2>5. ASSUME NEW h \in Gens, h # t[1]
        PROVE  /\ queue'[h] = queue[h] /\ taken'[h] = taken[h]
               /\ \A i \in Workers(h) : wpc'[<<h, i>>] = "done" => wpc[<<h, i>>] = "done"
    BY <1>1, <2>2, <2>5, TaskOf DEF TakeUrl, TypeOK
  <2>6. ASSUME NEW h \in Gens, h # t[1]
        PROVE  /\ Shared(h)' \/ (Untouched(h)' /\ loop'[h] \notin {"cycle", "sleeping"})
               /\ \A i \in Workers(h) : wpc'[<<h, i>>] = "done" => queue'[h] = <<>>
    <3>1. (Shared(h) => Shared(h)') /\ (Untouched(h) => Untouched(h)')
      BY <2>5, <2>6 DEF Shared, Untouched, TakenSoFar
    <3> QED
      BY <2>1, <2>5, <2>6, <3>1 DEF QueueInv
  <2> QED
    BY <2>3, <2>4, <2>6 DEF QueueInv
<1>2. ASSUME NEW t \in Tasks, UNCHANGED <<queue, taken, loop>>,
             \A u \in Tasks : wpc'[u] = "done" => wpc[u] = "done" \/ queue[u[1]] = <<>>
      PROVE  QueueInv'
  BY <1>2, TaskOf DEF QueueInv, Shared, Untouched, TakenSoFar
<1>3. ASSUME NEW t \in Tasks, WorkerStep(t) \/ PoolStep(t) \/ Panic(t) PROVE QueueInv'
  BY <1>1, <1>2, <1>3, QueueMoves, WorkerMoves
<1>4. ASSUME NEW g \in Gens, BeginCycle(g) PROVE QueueInv'
  <2>1. /\ queue'[g] = [u \in DOMAIN UrlList |-> u]
        /\ taken'[g] = [u \in DOMAIN UrlList |-> 0]
        /\ \A i \in Workers(g) : wpc'[<<g, i>>] = "none"
    BY <1>4, TaskOf DEF BeginCycle, TypeOK
  <2>2. Shared(g)'
    BY <2>1, UrlsAssumption DEF Shared, TakenSoFar
  <2>3. ASSUME NEW h \in Gens, h # g
        PROVE  /\ queue'[h] = queue[h] /\ taken'[h] = taken[h] /\ loop'[h] = loop[h]
               /\ \A i \in Workers(h) : wpc'[<<h, i>>] = wpc[<<h, i>>]
    BY <1>4, <2>3, TaskOf DEF BeginCycle, TypeOK
  <2>4. ASSUME NEW h \in Gens, h # g
        PROVE  /\ Shared(h)' \/ (Untouched(h)' /\ loop'[h] \notin {"cycle", "sleeping"})
               /\ \A i \in Workers(h) : wpc'[<<h, i>>] = "done" => queue'[h] = <<>>
    <3>1. (Shared(h) => Shared(h)') /\ (Untouched(h) => Untouched(h)')
      BY <2>3, <2>4 DEF Shared, Untouched, TakenSoFar
    <3> QED
      BY <2>3, <2>4, <3>1 DEF QueueInv
  <2> QED
    BY <2>1, <2>2, <2>4 DEF QueueInv
<1>5. ASSUME NEW g \in Gens, LoopStep(g) \/ Cancel(g), ~BeginCycle(g) PROVE QueueInv'
  <2>1. UNCHANGED <<queue, taken>>
    BY <1>5 DEF LoopStep, SpawnWorker, JoinWorker, JoinPanicked, Finish, Respawn, DropLoop,
                Cancel
  <2>2. \A t \in Tasks : wpc'[t] = "done" => wpc[t] = "done"
    BY <1>5 DEF LoopStep, SpawnWorker, JoinWorker, JoinPanicked, Finish, Respawn, DropLoop,
                Cancel, TypeOK
  <2>3. \A h \in Gens : loop'[h] \in {"cycle", "sleeping"} => loop[h] \in {"cycle", "sleeping"}
    BY <1>5 DEF LoopStep, SpawnWorker, JoinWorker, JoinPanicked, Finish, Respawn, DropLoop,
                Cancel, TypeOK
  <2> QED
    BY <2>1, <2>2, <2>3, TaskOf DEF QueueInv, Shared, Untouched, TakenSoFar
<1>6. CASE UNCHANGED vars
  BY <1>6 DEF vars, QueueInv, Shared, Untouched, TakenSoFar
<1> QED
  BY <1>3, <1>4, <1>5, <1>6 DEF Next

(***************************************************************************)
(* The workers of a cycle never scrape a url twice, and a cycle that ends  *)
(* has scraped all of them, for any number of urls and workers.            *)
(***************************************************************************)
THEOREM UrlsAreShared == Spec => []UrlsShared
<1>1. HasUrls /\ LoopInv /\ QueueInv => UrlsShared
  <2> SUFFICES ASSUME LoopInv, QueueInv, HasUrls, NEW g \in Gens, NEW u \in DOMAIN UrlList
               PROVE  taken[g][u] <= 1 /\ (loop[g] = "sleeping" => taken[g][u] = 1)
    BY DEF UrlsShared
  <2>1. taken[g][u] <= 1
    BY DEF QueueInv, Shared, Untouched
  <2>2. ASSUME loop[g] = "sleeping" PROVE taken[g][u] = 1
    <3>1. wpc[<<g, 1>>] = "done" /\ 1 \in Workers(g)
      BY <2>2, WorkerCount DEF LoopInv
    <3>2. queue[g] = <<>> /\ Shared(g)
      BY <2>2, <3>1 DEF QueueInv
    <3> QED
      BY <3>2, UrlsAssumption DEF Shared, TakenSoFar
  <2> QED
    BY <2>1, <2>2
<1>2. CASE HasUrls
  BY <1>1, <1>2, InitQueue, InitLoop, QueueInductive, LoopInductive, TypeCorrect, PTL
  DEF Spec
<1>3. CASE ~HasUrls
  <2>1. UrlsShared
    BY <1>3 DEF UrlsShared
  <2> QED
    BY <2>1, PTL
<1> QED
  BY <1>2, <1>3
-----------------------------------------------------------------------------
(***************************************************************************)
(* Who holds what: the hashes that a task has claimed in the database and  *)
(* has not notified, or not posted, yet.                                   *)
(***************************************************************************)
Unnotified(t) == IF pool[t] = "done" \/ wpc[t] = "notify" THEN items[t] ELSE {}
Unposted(t) == IF pool[t] = "done" \/ wpc[t] \in {"notify", "webhook"} THEN items[t] ELSE {}

\* A batch is on the pool only for a worker that waits for it or was dropped.
PoolInv == \A t \in Tasks : pool[t] # "none" => wpc[t] \in {"storing", "dropped"}

\* What is held is in the database and belongs to one task.
ClaimInv ==
    /\ \A t \in Tasks : Unposted(t) \subseteq seen
    /\ \A t, u \in Tasks : t # u => Unposted(t) \cap Unposted(u) = {}
    /\ TellsOnlySeen

\* The hashes task t holds may be lost; nothing else happens to claims.
MayLose(t) ==
    /\ UNCHANGED <<seen, told, posted>>
    /\ \A u \in Tasks \ {t} : Unnotified(u)' = Unnotified(u) /\ Unposted(u)' = Unposted(u)
    /\ Unnotified(t)' \in {Unnotified(t), {}}
    /\ Unposted(t)' \in {Unposted(t), {}}

LEMMA InitClaims == Init => PoolInv /\ ClaimInv
  BY DEF Init, PoolInv, ClaimInv, Unposted, TellsOnlySeen

(***************************************************************************)
(* The steps of the loop touch no claim: a new cycle begins when all       *)
(* workers of the last one have ended, and a worker that is spawned was    *)
(* not there before.                                                       *)
(***************************************************************************)
LEMMA LoopKeepsClaims ==
    ASSUME TypeOK, LoopInv, PoolInv, NEW g \in Gens, LoopStep(g) \/ Cancel(g)
    PROVE  /\ PoolInv'
           /\ UNCHANGED <<items, pool, seen, told, posted>>
           /\ \A t \in Tasks : Unnotified(t)' = Unnotified(t) /\ Unposted(t)' = Unposted(t)
<1>1. UNCHANGED <<items, pool, seen, told, posted>>
  BY DEF LoopStep, BeginCycle, SpawnWorker, JoinWorker, JoinPanicked, Finish, Respawn,
         DropLoop, Cancel, dbVars
<1>2. \A t \in Tasks :
          \/ wpc'[t] = wpc[t]
          \/ wpc[t] \in {"none", "done"} /\ wpc'[t] \in {"none", "idle", "prepare"}
  <2>1. CASE BeginCycle(g)
    <3>1. \A i \in Workers(g) : wpc[<<g, i>>] \in {"none", "done"}
      BY <2>1 DEF BeginCycle, LoopInv
    <3>2. \A t \in Tasks : t[1] = g => wpc[t] \in {"none", "done"}
      BY <3>1, TaskParts
    <3> QED
      BY <2>1, <3>2 DEF BeginCycle
  <2>2. CASE SpawnWorker(g)
    <3>1. spawned[g] + 1 \in Workers(g) /\ spawned[g] + 1 > spawned[g]
      BY <2>2, WorkerCount DEF SpawnWorker, TypeOK
    <3>2. wpc[<<g, spawned[g] + 1>>] = "none"
      BY <2>2, <3>1 DEF SpawnWorker, LoopInv
    <3> QED
      BY <2>2, <3>2 DEF SpawnWorker, TypeOK
  <2>3. CASE ~BeginCycle(g) /\ ~SpawnWorker(g)
    BY <2>3 DEF LoopStep, JoinWorker, JoinPanicked, Finish, Respawn, DropLoop, Cancel
  <2> QED
    BY <2>1, <2>2, <2>3
<1> QED
  BY <1>1, <1>2 DEF PoolInv, Unnotified, Unposted

(***************************************************************************)
(* The steps of a worker but Commit, Notify and Webhook: its claims stay   *)
(* or are lost.                                                            *)
(***************************************************************************)
LEMMA WorkerMayLose ==
    ASSUME TypeOK, PoolInv, NEW t \in Tasks, WorkerStep(t) \/ PoolStep(t) \/ Panic(t),
           ~Commit(t), ~Notify(t), ~Webhook(t)
    PROVE  MayLose(t) /\ PoolInv'
<1> USE DEF Keep, dbVars, Goes, Leave, AfterRun, TypeOK, PoolInv
<1>1. ASSUME UNCHANGED <<seen, told, posted>>,
             \A u \in Tasks \ {t} : /\ wpc'[u] = wpc[u] /\ pool'[u] = pool[u]
                                   /\ items'[u] = items[u],
             Unnotified(t)' \in {Unnotified(t), {}},
             Unposted(t)' \in {Unposted(t), {}},
             pool'[t] # "none" => wpc'[t] \in {"storing", "dropped"}
      PROVE  MayLose(t) /\ PoolInv'
  BY <1>1 DEF MayLose, Unnotified, Unposted
<1>2. CASE \/ TakeUrl(t) \/ NoMoreUrls(t) \/ Prepare(t) \/ PrepareFails(t) \/ Fetch(t)
           \/ Close(t) \/ Finally(t) \/ Cleanup(t)
  <2>1. /\ UNCHANGED <<items, pool, seen, told, posted>>
        /\ \A u \in Tasks \ {t} : wpc'[u] = wpc[u]
    BY <1>2 DEF TakeUrl, NoMoreUrls, Prepare, PrepareFails, Fetch, Close, Finally, Cleanup
  <2>2. /\ wpc[t] \in {"idle", "prepare", "fetch", "closing", "finally", "cleanup"}
        /\ wpc'[t] \in {"idle", "prepare", "done", "fetch", "extract", "finally", "cleanup"}
    BY <1>2 DEF TakeUrl, NoMoreUrls, Prepare, PrepareFails, Fetch, Close, Finally, Cleanup
  <2> QED
    BY <1>1, <2>1, <2>2 DEF Unnotified, Unposted
<1>3. CASE \/ FetchEnds(t) \/ ExtractEnds(t) \/ StoreEnds(t) \/ NotifyFails(t)
           \/ WebhookEnds(t)
  <2>1. /\ wpc[t] \in {"fetch", "extract", "store", "notify", "webhook"}
        /\ wpc' = [wpc EXCEPT ![t] = "closing"] /\ items' = [items EXCEPT ![t] = {}]
    BY <1>3, Zenon DEF FetchEnds, ExtractEnds, StoreEnds, NotifyFails, WebhookEnds
  <2>2. UNCHANGED <<pool, seen, told, posted>>
    BY <1>3 DEF FetchEnds, ExtractEnds, StoreEnds, NotifyFails, WebhookEnds
  <2> QED
    BY <1>1, <2>1, <2>2 DEF Unnotified, Unposted
<1>4. CASE Extract(t) \/ Store(t)
  <2>1. UNCHANGED <<seen, told, posted>>
    BY <1>4 DEF Extract, Store
  <2>2. \A u \in Tasks \ {t} : wpc'[u] = wpc[u] /\ pool'[u] = pool[u] /\ items'[u] = items[u]
    BY <1>4 DEF Extract, Store
  <2>3. /\ wpc[t] \in {"extract", "store"} /\ wpc'[t] \in {"store", "storing"}
        /\ pool'[t] # "done" /\ (pool'[t] # "none" => wpc'[t] = "storing")
    BY <1>4 DEF Extract, Store
  <2> QED
    BY <1>1, <2>1, <2>2, <2>3 DEF Unnotified, Unposted
<1>5. CASE Stored(t)
  BY <1>1, <1>5 DEF Stored, Unnotified, Unposted
<1>6. CASE StoreFails(t)
  BY <1>1, <1>6 DEF StoreFails, Unnotified, Unposted
<1>7. CASE DropWorker(t)
  BY <1>1, <1>7 DEF DropWorker, Unnotified, Unposted, Running, InRun
<1>8. CASE Panic(t)
  BY <1>1, <1>8 DEF Panic, Unnotified, Unposted
<1>9. CASE NeverRun(t)
  BY <1>1, <1>9 DEF NeverRun, Unnotified, Unposted
<1> QED
  BY <1>2, <1>3, <1>4, <1>5, <1>6, <1>7, <1>8, <1>9 DEF WorkerStep, TimelyStep, PoolStep

\* Commit claims what was not in the database; the other tasks keep theirs.
LEMMA CommitClaims ==
    ASSUME TypeOK, PoolInv, NEW t \in Tasks, Commit(t)
    PROVE  /\ Unnotified(t) = {} /\ Unposted(t) = {}
           /\ Unnotified(t)' = items[t] \ seen /\ Unposted(t)' = items[t] \ seen
           /\ \A u \in Tasks \ {t} : Unnotified(u)' = Unnotified(u) /\ Unposted(u)' = Unposted(u)
           /\ seen' = seen \cup (items[t] \ seen)
           /\ UNCHANGED <<told, posted>>
           /\ PoolInv'
<1>1. /\ pool[t] = "running" /\ wpc[t] \in {"storing", "dropped"} /\ UNCHANGED wpc
      /\ pool' = [pool EXCEPT ![t] = "done"] /\ items' = [items EXCEPT ![t] = @ \ seen]
      /\ seen' = seen \cup items[t] /\ UNCHANGED <<told, posted>>
  BY DEF Commit, PoolInv
<1> QED
  BY <1>1 DEF TypeOK, PoolInv, Unnotified, Unposted

\* Notify tells of what the task holds, or of a part of it, and never again.
LEMMA NotifySettles ==
    ASSUME TypeOK, PoolInv, NEW t \in Tasks, Notify(t)
    PROVE  /\ Unnotified(t) = items[t] /\ Unnotified(t)' = {}
           /\ \A u \in Tasks \ {t} : Unnotified(u)' = Unnotified(u)
           /\ \A u \in Tasks : Unposted(u)' = Unposted(u)
           /\ \E S \in SUBSET items[t] : told' = Count(told, S)
           /\ UNCHANGED <<seen, posted>>
           /\ PoolInv'
<1>1. /\ wpc[t] = "notify" /\ wpc' = [wpc EXCEPT ![t] = "webhook"]
      /\ UNCHANGED <<items, pool, seen, posted>>
      /\ pool[t] = "none"
  BY DEF Notify, Goes, Keep, PoolInv, TypeOK
<1>2. \E S \in SUBSET items[t] : told' = Count(told, S)
  BY DEF Notify
<1> QED
  BY <1>1, <1>2 DEF TypeOK, PoolInv, Unnotified, Unposted

\* Webhook posts what the task holds, and never again.
LEMMA WebhookSettles ==
    ASSUME TypeOK, PoolInv, NEW t \in Tasks, Webhook(t)
    PROVE  /\ Unposted(t) = items[t] /\ Unposted(t)' = {}
           /\ \A u \in Tasks \ {t} : Unposted(u)' = Unposted(u)
           /\ \A u \in Tasks : Unnotified(u)' = Unnotified(u)
           /\ posted' = Count(posted, items[t])
           /\ UNCHANGED <<seen, told>>
           /\ PoolInv'
<1>1. /\ wpc[t] = "webhook" /\ wpc' = [wpc EXCEPT ![t] = "closing"]
      /\ items' = [items EXCEPT ![t] = {}] /\ posted' = Count(posted, items[t])
      /\ UNCHANGED <<pool, seen, told>>
      /\ pool[t] = "none"
  BY DEF Webhook, Leave, Keep, PoolInv, TypeOK
<1> QED
  BY <1>1 DEF TypeOK, PoolInv, Unnotified, Unposted

LEMMA ClaimInductive ==
    TypeOK /\ LoopInv /\ PoolInv /\ ClaimInv /\ [Next]_vars => PoolInv' /\ ClaimInv'
<1> SUFFICES ASSUME TypeOK, LoopInv, PoolInv, ClaimInv, [Next]_vars
             PROVE  PoolInv' /\ ClaimInv'
  OBVIOUS
<1>1. ASSUME NEW g \in Gens, LoopStep(g) \/ Cancel(g) PROVE PoolInv' /\ ClaimInv'
  BY <1>1, LoopKeepsClaims DEF ClaimInv, TellsOnlySeen
<1>2. ASSUME NEW t \in Tasks, MayLose(t) PROVE ClaimInv'
  <2>1. UNCHANGED <<seen, told, posted>> /\ \A u \in Tasks : Unposted(u)' \subseteq Unposted(u)
    BY <1>2 DEF MayLose
  <2> QED
    BY <2>1 DEF ClaimInv, TellsOnlySeen
<1>3. ASSUME NEW t \in Tasks, Commit(t) PROVE PoolInv' /\ ClaimInv'
  <2> DEFINE new == items[t] \ seen
  <2>1. /\ PoolInv' /\ UNCHANGED <<told, posted>> /\ seen' = seen \cup new
        /\ Unposted(t)' = new
        /\ \A u \in Tasks \ {t} : Unposted(u)' = Unposted(u)
    BY <1>3, CommitClaims
  <2>2. \A u \in Tasks \ {t} : Unposted(u)' \cap new = {}
    BY <2>1 DEF ClaimInv
  <2> HIDE DEF new
  <2>3. \A u \in Tasks : Unposted(u)' \subseteq seen'
    BY <2>1 DEF ClaimInv
  <2>4. \A u, v \in Tasks : u # v => Unposted(u)' \cap Unposted(v)' = {}
    BY <2>1, <2>2 DEF ClaimInv
  <2>5. TellsOnlySeen'
    BY <2>1 DEF ClaimInv, TellsOnlySeen
  <2> QED
    BY <2>1, <2>3, <2>4, <2>5 DEF ClaimInv
<1>4. ASSUME NEW t \in Tasks, Notify(t) PROVE PoolInv' /\ ClaimInv'
  <2>1. PICK S \in SUBSET items[t] : told' = Count(told, S)
    BY <1>4, NotifySettles
  <2>2. wpc[t] = "notify"
    BY <1>4 DEF Notify, Goes
  <2>3. S \subseteq seen
    BY <2>1, <2>2 DEF ClaimInv, Unposted
  <2>4. \A h \in Hashes : told'[h] # told[h] => h \in seen
    BY <2>1, <2>3 DEF Count
  <2>5. \A h \in Hashes : /\ told[h] \in Nat /\ posted[h] \in Nat /\ told'[h] \in Nat
    BY <2>1 DEF TypeOK, Count
  <2>6. UNCHANGED <<seen, posted>>
    BY <1>4, NotifySettles
  <2>7. TellsOnlySeen'
    BY <2>4, <2>5, <2>6 DEF ClaimInv, TellsOnlySeen
  <2> QED
    BY <1>4, <2>6, <2>7, NotifySettles DEF ClaimInv
<1>5. ASSUME NEW t \in Tasks, Webhook(t) PROVE PoolInv' /\ ClaimInv'
  <2>1. posted' = Count(posted, items[t]) /\ UNCHANGED <<seen, told>>
    BY <1>5, WebhookSettles
  <2>2. items[t] \subseteq seen
    BY <1>5, WebhookSettles DEF ClaimInv
  <2>3. \A h \in Hashes : posted'[h] # posted[h] => h \in seen
    BY <2>1, <2>2 DEF Count
  <2>4. \A h \in Hashes : /\ told[h] \in Nat /\ posted[h] \in Nat /\ posted'[h] \in Nat
    BY <2>1 DEF TypeOK, Count
  <2>5. TellsOnlySeen'
    BY <2>1, <2>3, <2>4 DEF ClaimInv, TellsOnlySeen
  <2>6. \A u \in Tasks : Unposted(u)' \subseteq Unposted(u)
    BY <1>5, WebhookSettles
  <2> QED
    BY <1>5, <2>1, <2>5, <2>6, WebhookSettles DEF ClaimInv
<1>6. CASE UNCHANGED vars
  BY <1>6 DEF vars, PoolInv, ClaimInv, Unposted, TellsOnlySeen
<1> QED
  BY <1>1, <1>2, <1>3, <1>4, <1>5, <1>6, WorkerMayLose DEF Next

LEMMA ClaimsHold == Spec => [](TypeOK /\ LoopInv /\ PoolInv /\ ClaimInv)
  BY InitTypes, TypeInductive, InitLoop, LoopInductive, InitClaims, ClaimInductive, PTL DEF Spec

(***************************************************************************)
(* No notification and no webhook carries an item that is not in the       *)
(* database, wherever a reload, a panic or an error cuts a run.            *)
(***************************************************************************)
THEOREM OnlySeenIsTold == Spec => []TellsOnlySeen
<1>1. ClaimInv => TellsOnlySeen
  BY DEF ClaimInv
<1> QED
  BY <1>1, ClaimsHold, PTL
-----------------------------------------------------------------------------
(***************************************************************************)
(* Refinement.  For notifications and for webhooks: Commit is a Claim,     *)
(* Notify or Webhook settles what its task holds, a step that loses items  *)
(* settles them untold, and every other step leaves the promise alone.     *)
(***************************************************************************)
LEMMA HeldAre ==
    /\ Held({"notify"}) = UNION {Unnotified(t) : t \in Tasks}
    /\ Held({"notify", "webhook"}) = UNION {Unposted(t) : t \in Tasks}
    /\ Held({"notify"})' = UNION {Unnotified(t)' : t \in Tasks}
    /\ Held({"notify", "webhook"})' = UNION {Unposted(t)' : t \in Tasks}
  BY DEF Held, Unnotified, Unposted

LEMMA InitRefines == Init => NotifyPromise!Init /\ WebhookPromise!Init
<1> SUFFICES ASSUME Init PROVE NotifyPromise!Init /\ WebhookPromise!Init
  OBVIOUS
<1>1. \A stages \in SUBSET {"notify", "webhook"} : Held(stages) = {}
  BY DEF Init, Held
<1> QED
  BY <1>1 DEF Init, NotifyPromise!Init, WebhookPromise!Init

LEMMA NotifyRefines ==
    TypeOK /\ LoopInv /\ PoolInv /\ ClaimInv /\ [Next]_vars
    => [NotifyPromise!Next]_(NotifyPromise!vars)
<1> DEFINE Owed == Held({"notify"})
<1>0. Owed = UNION {Unnotified(t) : t \in Tasks} /\ Owed' = UNION {Unnotified(t)' : t \in Tasks}
  BY HeldAre
<1> SUFFICES ASSUME TypeOK, LoopInv, PoolInv, ClaimInv, [Next]_vars
             PROVE  NotifyPromise!Next \/ UNCHANGED <<seen, Owed, told>>
  BY DEF NotifyPromise!vars
<1> HIDE DEF Owed
<1>1. \A t \in Tasks : Unnotified(t) \subseteq Unposted(t) /\ Unnotified(t) \in SUBSET Hashes
  BY DEF Unnotified, Unposted, TypeOK
<1>2. \A t, u \in Tasks : t # u => Unnotified(t) \cap Unnotified(u) = {}
  BY <1>1 DEF ClaimInv
<1>3. ASSUME NEW t \in Tasks, NEW T \in SUBSET Unnotified(t), Unnotified(t)' = {},
             \A u \in Tasks \ {t} : Unnotified(u)' = Unnotified(u),
             told' = Count(told, T), UNCHANGED seen
      PROVE  NotifyPromise!Next
  <2>1. Owed' = Owed \ Unnotified(t) /\ Unnotified(t) \subseteq Owed
    BY <1>0, <1>2, <1>3
  <2>2. NotifyPromise!Settle(Unnotified(t), T)
    BY <1>3, <2>1 DEF Owed, NotifyPromise!Settle, Count
  <2> QED
    BY <1>1, <2>2 DEF NotifyPromise!Next
<1>4. told = Count(told, {})
  BY DEF TypeOK, Count
<1>5. ASSUME NEW g \in Gens, LoopStep(g) \/ Cancel(g) PROVE UNCHANGED <<seen, Owed, told>>
  BY <1>0, <1>5, LoopKeepsClaims
<1>6. ASSUME NEW t \in Tasks, MayLose(t) PROVE NotifyPromise!Next \/ UNCHANGED <<seen, Owed, told>>
  <2>1. CASE Unnotified(t)' = {}
    BY <1>3, <1>4, <1>6, <2>1 DEF MayLose
  <2>2. CASE Unnotified(t)' = Unnotified(t)
    BY <1>0, <1>6, <2>2 DEF MayLose
  <2> QED
    BY <1>6, <2>1, <2>2 DEF MayLose
<1>7. ASSUME NEW t \in Tasks, Commit(t) PROVE NotifyPromise!Next
  <2> DEFINE new == items[t] \ seen
  <2>1. Owed' = Owed \cup new
    BY <1>0, <1>7, CommitClaims
  <2>2. NotifyPromise!Claim(new)
    BY <1>7, <2>1, CommitClaims DEF Owed, NotifyPromise!Claim
  <2>3. new \in SUBSET Hashes
    BY DEF TypeOK
  <2> QED
    BY <2>2, <2>3 DEF NotifyPromise!Next
<1>8. ASSUME NEW t \in Tasks, Notify(t) PROVE NotifyPromise!Next
  BY <1>3, <1>8, NotifySettles
<1>9. ASSUME NEW t \in Tasks, Webhook(t) PROVE UNCHANGED <<seen, Owed, told>>
  BY <1>0, <1>9, WebhookSettles
<1>10. CASE UNCHANGED vars
  BY <1>0, <1>10 DEF vars, Unnotified
<1> QED
  BY <1>5, <1>6, <1>7, <1>8, <1>9, <1>10, WorkerMayLose DEF Next

LEMMA WebhookRefines ==
    TypeOK /\ LoopInv /\ PoolInv /\ ClaimInv /\ [Next]_vars
    => [WebhookPromise!Next]_(WebhookPromise!vars)
<1> DEFINE Owed == Held({"notify", "webhook"})
<1>0. Owed = UNION {Unposted(t) : t \in Tasks} /\ Owed' = UNION {Unposted(t)' : t \in Tasks}
  BY HeldAre
<1> SUFFICES ASSUME TypeOK, LoopInv, PoolInv, ClaimInv, [Next]_vars
             PROVE  WebhookPromise!Next \/ UNCHANGED <<seen, Owed, posted>>
  BY DEF WebhookPromise!vars
<1> HIDE DEF Owed
<1>1. \A t \in Tasks : Unposted(t) \in SUBSET Hashes
  BY DEF Unposted, TypeOK
<1>2. \A t, u \in Tasks : t # u => Unposted(t) \cap Unposted(u) = {}
  BY DEF ClaimInv
<1>3. ASSUME NEW t \in Tasks, NEW T \in SUBSET Unposted(t), Unposted(t)' = {},
             \A u \in Tasks \ {t} : Unposted(u)' = Unposted(u),
             posted' = Count(posted, T), UNCHANGED seen
      PROVE  WebhookPromise!Next
  <2>1. Owed' = Owed \ Unposted(t) /\ Unposted(t) \subseteq Owed
    BY <1>0, <1>2, <1>3
  <2>2. WebhookPromise!Settle(Unposted(t), T)
    BY <1>3, <2>1 DEF Owed, WebhookPromise!Settle, Count
  <2> QED
    BY <1>1, <2>2 DEF WebhookPromise!Next
<1>4. posted = Count(posted, {})
  BY DEF TypeOK, Count
<1>5. ASSUME NEW g \in Gens, LoopStep(g) \/ Cancel(g) PROVE UNCHANGED <<seen, Owed, posted>>
  BY <1>0, <1>5, LoopKeepsClaims
<1>6. ASSUME NEW t \in Tasks, MayLose(t)
      PROVE  WebhookPromise!Next \/ UNCHANGED <<seen, Owed, posted>>
  <2>1. CASE Unposted(t)' = {}
    BY <1>3, <1>4, <1>6, <2>1 DEF MayLose
  <2>2. CASE Unposted(t)' = Unposted(t)
    BY <1>0, <1>6, <2>2 DEF MayLose
  <2> QED
    BY <1>6, <2>1, <2>2 DEF MayLose
<1>7. ASSUME NEW t \in Tasks, Commit(t) PROVE WebhookPromise!Next
  <2> DEFINE new == items[t] \ seen
  <2>1. Owed' = Owed \cup new
    BY <1>0, <1>7, CommitClaims
  <2>2. WebhookPromise!Claim(new)
    BY <1>7, <2>1, CommitClaims DEF Owed, WebhookPromise!Claim
  <2>3. new \in SUBSET Hashes
    BY DEF TypeOK
  <2> QED
    BY <2>2, <2>3 DEF WebhookPromise!Next
<1>8. ASSUME NEW t \in Tasks, Notify(t) PROVE UNCHANGED <<seen, Owed, posted>>
  BY <1>0, <1>8, NotifySettles
<1>9. ASSUME NEW t \in Tasks, Webhook(t) PROVE WebhookPromise!Next
  BY <1>3, <1>9, WebhookSettles
<1>10. CASE UNCHANGED vars
  BY <1>0, <1>10 DEF vars, Unposted
<1> QED
  BY <1>5, <1>6, <1>7, <1>8, <1>9, <1>10, WorkerMayLose DEF Next

(***************************************************************************)
(* Notifications and webhooks keep the deduplication promise of SeenStore, *)
(* for any workers, cycles, reloads, errors and panics.                    *)
(***************************************************************************)
THEOREM PipelineKeepsPromise == Spec => ToldOnce
<1>1. Spec => NotifyPromise!Spec
  BY InitRefines, NotifyRefines, ClaimsHold, PTL DEF Spec, NotifyPromise!Spec
<1>2. Spec => WebhookPromise!Spec
  BY InitRefines, WebhookRefines, ClaimsHold, PTL DEF Spec, WebhookPromise!Spec
<1> QED
  BY <1>1, <1>2 DEF ToldOnce
=============================================================================
