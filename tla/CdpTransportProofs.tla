------------------------- MODULE CdpTransportProofs -------------------------
(***************************************************************************)
(* Proofs about CdpTransport for any number of calls, waiters and events.  *)
(***************************************************************************)
EXTENDS CdpTransport, TLAPS

(***************************************************************************)
(* Calls.  An id belongs to one call, and so does everything that carries  *)
(* it: the entry in pending, the request in the channel and on the wire.   *)
(* Who is under way without an answer is in pending, and once close() has  *)
(* begun nobody can send.                                                  *)
(***************************************************************************)
Own(p) == p[2] \in Calls /\ cpc[p[2]] # "idle" /\ p = <<id[p[2]], p[2]>>

CallShape ==
    /\ nextId \in Nat
    /\ cpc \in [Calls -> {"idle", "inserted", "waiting", "ended"}]
    /\ id \in [Calls -> Nat]
    /\ DOMAIN reply = Calls
    /\ txQueue \in Seq(Nat \X Calls)

Ids ==
    /\ \A c \in Calls : cpc[c] # "idle" => id[c] < nextId
    /\ \A c, d \in Calls : cpc[c] # "idle" /\ cpc[d] # "idle" /\ id[c] = id[d] => c = d
    /\ \A p \in pending \cup onWire : Own(p)
    /\ \A i \in 1..Len(txQueue) : Own(txQueue[i])

IsPending ==
    \A c \in Calls : cpc[c] \in {"inserted", "waiting"} /\ reply[c] = "none"
                     => <<id[c], c>> \in pending

CallInv ==
    /\ CallShape /\ Ids /\ IsPending
    /\ closer # "none" => txClosed
    /\ AnswersMatch /\ CloseAnswersAll

LEMMA InitCalls == Init => CallInv
  BY DEF Init, CallInv, CallShape, Ids, IsPending, AnswersMatch, CloseAnswersAll

LEMMA FailKeeps ==
    ASSUME CallInv, FailPending, UNCHANGED <<nextId, cpc, id, txQueue, txClosed>>,
           onWire' = onWire,
           \/ closer' = closer
           \/ closer' = "closed" /\ closer = "closing"
    PROVE  CallInv'
<1> USE DEF CallInv, CallShape, FailPending
<1>1. CallShape' /\ Ids'
  BY DEF Ids, Own
<1>2. \A c \in Calls : /\ reply'[c] \in {reply[c], "error"}
                       /\ <<id[c], c>> \in pending => reply'[c] = "error"
                       /\ reply[c] # "none" => reply'[c] # "none"
  OBVIOUS
<1>3. \A c \in Calls : cpc[c] \in {"inserted", "waiting"} => reply'[c] # "none"
  BY <1>2 DEF IsPending
<1>4. IsPending' /\ AnswersMatch' /\ CloseAnswersAll'
  BY <1>2, <1>3 DEF IsPending, AnswersMatch, CloseAnswersAll
<1> QED
  BY <1>1, <1>4

LEMMA CallsInductive == CallInv /\ [Next]_vars => CallInv'
<1> SUFFICES ASSUME CallInv, [Next]_vars PROVE CallInv'
  OBVIOUS
<1> USE DEF CallInv, CallShape, callVars, wireVars, Goes
<1>1. ASSUME NEW c \in Calls, Insert(c) PROVE CallInv'
  <2>1. CallShape' /\ UNCHANGED <<reply, wireVars, closer>>
    BY <1>1 DEF Insert
  <2>2. /\ cpc[c] = "idle" /\ cpc'[c] = "inserted" /\ id'[c] = nextId /\ nextId' = nextId + 1
        /\ \A d \in Calls \ {c} : cpc'[d] = cpc[d] /\ id'[d] = id[d]
        /\ pending' = pending \cup {<<nextId, c>>}
    BY <1>1 DEF Insert
  <2>3. \A p : Own(p) => Own(p)'
    BY <2>2 DEF Own
  <2>4. \A d \in Calls \ {c} : cpc[d] # "idle" => id'[d] < nextId
    BY <2>2 DEF Ids
  <2>5. \A d \in Calls : cpc'[d] # "idle" => id'[d] < nextId'
    BY <2>2, <2>4
  <2>6. \A d, e \in Calls : cpc'[d] # "idle" /\ cpc'[e] # "idle" /\ id'[d] = id'[e]
                            => d = e
    <3> SUFFICES ASSUME NEW d \in Calls, NEW e \in Calls, cpc'[d] # "idle",
                        cpc'[e] # "idle", id'[d] = id'[e], d # e
                 PROVE  FALSE
      OBVIOUS
    <3>1. CASE d = c
      BY <3>1, <2>2, <2>4
    <3>2. CASE e = c
      BY <3>2, <2>2, <2>4
    <3>3. CASE d # c /\ e # c
      BY <3>3, <2>2 DEF Ids
    <3> QED
      BY <3>1, <3>2, <3>3
  <2>7. \A p \in pending' : Own(p)'
    <3>1. \A p \in pending : Own(p)'
      BY <2>3 DEF Ids
    <3>2. ASSUME NEW p, p = <<nextId, c>> PROVE Own(p)'
      BY <3>2, <2>2 DEF Own
    <3> QED
      BY <3>1, <3>2, <2>2
  <2>8. Ids'
    BY <2>1, <2>3, <2>5, <2>6, <2>7 DEF Ids
  <2>9. IsPending' /\ AnswersMatch' /\ CloseAnswersAll'
    BY <2>1, <2>2 DEF IsPending, AnswersMatch, CloseAnswersAll
  <2> QED
    BY <2>1, <2>8, <2>9
<1>2. ASSUME NEW c \in Calls, Send(c) PROVE CallInv'
  <2>1. /\ cpc' = [cpc EXCEPT ![c] = "waiting"] /\ cpc[c] = "inserted"
        /\ txQueue' = Append(txQueue, <<id[c], c>>) /\ ~txClosed
        /\ UNCHANGED <<nextId, pending, id, reply, txClosed, onWire, closer>>
    BY <1>2 DEF Send
  <2>2. CallShape'
    BY <2>1
  <2>3. \A p : Own(p) => Own(p)'
    BY <2>1 DEF Own
  <2>4. Own(<<id[c], c>>)'
    BY <2>1 DEF Own
  <2>5. \A i \in 1..Len(txQueue') :
            \/ txQueue'[i] = <<id[c], c>>
            \/ i \in 1..Len(txQueue) /\ txQueue'[i] = txQueue[i]
    BY <2>1
  <2>7. Ids'
    BY <2>1, <2>3, <2>4, <2>5 DEF Ids
  <2>8. IsPending' /\ AnswersMatch' /\ CloseAnswersAll'
    BY <2>1 DEF IsPending, AnswersMatch, CloseAnswersAll
  <2> QED
    BY <2>1, <2>2, <2>7, <2>8
<1>3. ASSUME NEW c \in Calls, SendFails(c) PROVE CallInv'
  <2>1. /\ cpc' = [cpc EXCEPT ![c] = "ended"] /\ cpc[c] = "inserted"
        /\ pending' = {p \in pending : p[1] # id[c]}
        /\ UNCHANGED <<nextId, id, reply, txQueue, txClosed, onWire, closer>>
    BY <1>3 DEF SendFails
  <2>2. CallShape'
    BY <2>1
  <2>3. \A p : Own(p) => Own(p)'
    BY <2>1 DEF Own
  <2>4. Ids'
    BY <2>1, <2>3 DEF Ids
  <2>5. \A d \in Calls \ {c} : cpc[d] # "idle" => id[d] # id[c]
    BY <2>1 DEF Ids
  <2>6. IsPending' /\ AnswersMatch' /\ CloseAnswersAll'
    BY <2>1, <2>5 DEF IsPending, AnswersMatch, CloseAnswersAll
  <2> QED
    BY <2>1, <2>2, <2>4, <2>6
<1>4. ASSUME NEW c \in Calls, Answered(c) \/ Drop(c) PROVE CallInv'
  <2>1. /\ cpc' = [cpc EXCEPT ![c] = "ended"] /\ cpc[c] = "waiting"
        /\ DOMAIN reply' = Calls /\ \A d \in Calls \ {c} : reply'[d] = reply[d]
        /\ reply'[c] \in {"none", reply[c]}
        /\ UNCHANGED <<nextId, id, pending, txQueue, txClosed, onWire, closer>>
    BY <1>4 DEF Answered, Drop
  <2>2. CallShape'
    BY <2>1
  <2>3. \A p : Own(p) => Own(p)'
    BY <2>1 DEF Own
  <2>4. Ids'
    BY <2>1, <2>3 DEF Ids
  <2>5. IsPending' /\ AnswersMatch' /\ CloseAnswersAll'
    BY <2>1 DEF IsPending, AnswersMatch, CloseAnswersAll
  <2> QED
    BY <2>1, <2>2, <2>4, <2>5
<1>5. CASE Write \/ WriteFails
  <2>1. /\ UNCHANGED callVars /\ UNCHANGED closer
        /\ txQueue # <<>> /\ txQueue' = Tail(txQueue)
        /\ onWire' \subseteq onWire \cup {Head(txQueue)}
        /\ txClosed => txClosed'
        /\ txClosed' # txClosed => writer = "open"
    BY <1>5 DEF Write, WriteFails
  <2>2. /\ Head(txQueue) = txQueue[1] /\ 1 \in 1..Len(txQueue)
        /\ \A i \in 1..Len(txQueue') : i + 1 \in 1..Len(txQueue)
                                       /\ txQueue'[i] = txQueue[i + 1]
    BY <2>1
  <2>3. CallShape'
    BY <2>1
  <2>4. \A p : Own(p) => Own(p)'
    BY <2>1 DEF Own
  <2>5. \A p \in onWire' : Own(p)
    BY <2>1, <2>2 DEF Ids
  <2>6. \A i \in 1..Len(txQueue') : Own(txQueue'[i])
    BY <2>2 DEF Ids
  <2>7. Ids'
    BY <2>1, <2>5, <2>6 DEF Ids, Own
  <2>8. IsPending' /\ AnswersMatch' /\ CloseAnswersAll'
    BY <2>1 DEF IsPending, AnswersMatch, CloseAnswersAll
  <2> QED
    BY <2>1, <2>3, <2>7, <2>8
<1>6. ASSUME NEW r \in Request, ReadResponse(r) PROVE CallInv'
  <2>1. /\ r \in onWire /\ onWire' = onWire \ {r}
        /\ pending' = {p \in pending : p[1] # r[1]}
        /\ DOMAIN reply' = Calls
        /\ \A c \in Calls : reply'[c] = IF <<r[1], c>> \in pending THEN r[2] ELSE reply[c]
        /\ UNCHANGED <<nextId, cpc, id, txQueue, txClosed, closer>>
    BY <1>6 DEF ReadResponse
  <2>2. r[2] \in Calls /\ r[1] = id[r[2]] /\ cpc[r[2]] # "idle"
    BY <2>1 DEF Ids, Own
  <2>3. \A c \in Calls : <<r[1], c>> \in pending => c = r[2]
    <3> SUFFICES ASSUME NEW c \in Calls, <<r[1], c>> \in pending PROVE c = r[2]
      OBVIOUS
    <3>1. Own(<<r[1], c>>)
      BY DEF Ids
    <3>2. cpc[c] # "idle" /\ id[c] = r[1]
      BY <3>1 DEF Own
    <3> QED
      BY <3>2, <2>2 DEF Ids
  <2>4. r[2] \notin {"none", "error"}
    BY <2>2, CallsAssumption
  <2>5. CallShape' /\ Ids'
    BY <2>1 DEF Ids, Own
  <2>6. AnswersMatch' /\ CloseAnswersAll'
    BY <2>1, <2>3, <2>4 DEF AnswersMatch, CloseAnswersAll
  <2>7. IsPending'
    <3> SUFFICES ASSUME NEW c \in Calls, cpc[c] \in {"inserted", "waiting"},
                        reply'[c] = "none"
                 PROVE  <<id[c], c>> \in pending'
      BY <2>1 DEF IsPending
    <3>1. <<id[c], c>> \in pending /\ <<r[1], c>> \notin pending
      BY <2>1, <2>4 DEF IsPending
    <3> QED
      BY <3>1, <2>1
  <2> QED
    BY <2>1, <2>5, <2>6, <2>7
<1>7. CASE Drain
  <2>1. FailPending /\ UNCHANGED <<nextId, cpc, id, txQueue, txClosed>>
        /\ onWire' = onWire /\ closer' = closer
    BY <1>7 DEF Drain
  <2> QED
    BY <2>1, FailKeeps
<1>8. CASE CloseFails
  <2>1. FailPending /\ UNCHANGED <<nextId, cpc, id, txQueue, txClosed>>
        /\ onWire' = onWire /\ closer' = "closed" /\ closer = "closing"
    BY <1>8 DEF CloseFails
  <2> QED
    BY <2>1, FailKeeps
<1>9. CASE \/ Disconnect \/ WriterEnds \/ Delivered \/ ReadEnds \/ CloseChannel
           \/ UNCHANGED vars
           \/ \E w \in Waiters : Deliver(w) \/ Listen(w) \/ Waiter(w)
           \/ \E k \in Keys : ReadEvent(k)
           \/ \E k \in Sessions : Unregister(k)
  <2>1. /\ UNCHANGED callVars /\ txQueue' = txQueue /\ onWire' \subseteq onWire
        /\ txClosed => txClosed'
        /\ \/ closer' = closer
           \/ closer' = "closing" /\ txClosed'
    BY <1>9 DEF Disconnect, WriterEnds, Delivered, ReadEnds, CloseChannel, vars, Deliver,
                Listen, Waiter, Take, Gets, Timeout, Disconnected, Ends, ReadEvent,
                Unregister, NoteFreed
  <2>2. CallShape' /\ Ids'
    BY <2>1 DEF Ids, Own
  <2>3. IsPending' /\ AnswersMatch' /\ CloseAnswersAll'
    BY <2>1 DEF IsPending, AnswersMatch, CloseAnswersAll
  <2> QED
    BY <2>1, <2>2, <2>3
<1> QED
  BY <1>1, <1>2, <1>3, <1>4, <1>5, <1>6, <1>7, <1>8, <1>9
  DEF Next, Caller, WriteLoop, ReadLoop

LEMMA CallInvariant == Spec => []CallInv
  BY InitCalls, CallsInductive, PTL DEF Spec

(***************************************************************************)
(* A response reaches the call that sent the request, for any number of    *)
(* calls and however inserts, both loops, drops and close() interleave.    *)
(***************************************************************************)
THEOREM AnswersReachTheirCalls == Spec => []AnswersMatch
<1>1. CallInv => AnswersMatch
  BY DEF CallInv
<1> QED
  BY <1>1, CallInvariant, PTL

(***************************************************************************)
(* When close() returns, no call is left waiting without its answer.       *)
(***************************************************************************)
THEOREM CloseLeavesNobody == Spec => []CloseAnswersAll
<1>1. CallInv => CloseAnswersAll
  BY DEF CallInv
<1> QED
  BY <1>1, CallInvariant, PTL

(***************************************************************************)
(* Events.  A listener's next event, with what its channel holds, is the   *)
(* next one routed; for a listener in the cloned list, which the last      *)
(* routed event has yet to reach, it is that event.                        *)
(***************************************************************************)
EventShape ==
    /\ routed \in [Keys -> Nat]
    /\ box \in [Waiters -> Seq(Nat)]
    /\ due \in [Waiters -> Nat]
    /\ wpc \in [Waiters -> {"idle", "waiting", "ended"}]
    /\ listed \subseteq Waiters /\ carried \subseteq Waiters

\* What holds of waiter w while it waits.
InOrder(w) ==
    /\ \A i \in 1..Len(box[w]) : box[w][i] = due[w] + i - 1
    /\ w \in freed \cup listed
    /\ w \in listed \ carried => due[w] + Len(box[w]) = routed[Key[w]] + 1
    /\ w \in carried => due[w] + Len(box[w]) = routed[Key[w]]

EventInv ==
    /\ EventShape
    /\ carried # {} => reader = "delivering"
    /\ \A w \in listed \cup carried : wpc[w] # "idle"
    /\ \A w \in Waiters : wpc[w] = "idle" => box[w] = <<>>
    /\ \A w \in Waiters : wpc[w] = "waiting" => InOrder(w)

LEMMA InitEvents == Init => EventInv
  BY KeysAssumption DEF Init, EventInv, EventShape, InOrder

LEMMA EventsInductive == EventInv /\ [Next]_vars => EventInv'
<1> SUFFICES ASSUME EventInv, [Next]_vars PROVE EventInv'
  OBVIOUS
<1> USE KeysAssumption DEF EventInv, EventShape, InOrder, eventVars
<1>1. ASSUME NEW k \in Keys, ReadEvent(k) PROVE EventInv'
  <2>1. /\ carried = {} /\ reader' = "delivering"
        /\ routed' = [routed EXCEPT ![k] = @ + 1]
        /\ listed' = {w \in listed : Key[w] = k => wpc[w] = "waiting"}
        /\ carried' = {w \in listed' : Key[w] = k}
        /\ UNCHANGED <<box, wpc, due, freed>>
    BY <1>1 DEF ReadEvent, Closed
  <2> QED
    BY <2>1
<1>2. ASSUME NEW w \in Waiters, Deliver(w) PROVE EventInv'
  <2>1. /\ w \in carried /\ carried' = carried \ {w}
        /\ UNCHANGED <<reader, listed, routed, wpc, due, freed>>
    BY <1>2 DEF Deliver
  <2>2. CASE wpc[w] # "waiting"
    BY <2>1, <2>2, <1>2 DEF Deliver, Closed
  <2>3. CASE wpc[w] = "waiting"
    <3>1. /\ box' = [box EXCEPT ![w] = Append(box[w], routed[Key[w]])]
          /\ routed[Key[w]] = due[w] + Len(box[w]) /\ box[w] \in Seq(Nat)
      BY <2>1, <2>3, <1>2 DEF Deliver, Closed
    <3>2. /\ box'[w] \in Seq(Nat) /\ Len(box'[w]) = Len(box[w]) + 1
          /\ \A i \in 1..Len(box'[w]) : box'[w][i] = due[w] + i - 1
      <4>1. \A i \in 1..Len(box[w]) : box[w][i] = due[w] + i - 1
        BY <2>3
      <4>2. due[w] \in Nat /\ routed[Key[w]] \in Nat
        OBVIOUS
      <4>3. box'[w] = Append(box[w], routed[Key[w]])
        BY <3>1
      <4> HIDE DEF EventInv, EventShape, InOrder
      <4>4. \A i \in 1..Len(box'[w]) :
                \/ i \in 1..Len(box[w]) /\ box'[w][i] = box[w][i]
                \/ i = Len(box[w]) + 1 /\ box'[w][i] = routed[Key[w]]
        BY <3>1, <4>2, <4>3
      <4>5. box'[w] \in Seq(Nat) /\ Len(box'[w]) = Len(box[w]) + 1
        BY <3>1, <4>2, <4>3
      <4>6. Len(box[w]) \in Nat
        BY <3>1
      <4>7. \A i \in 1..Len(box'[w]) : box'[w][i] = due[w] + i - 1
        <5> SUFFICES ASSUME NEW i \in 1..Len(box'[w])
                     PROVE  box'[w][i] = due[w] + i - 1
          OBVIOUS
        <5>1. CASE i \in 1..Len(box[w]) /\ box'[w][i] = box[w][i]
          BY <5>1, <4>1
        <5>2. CASE i = Len(box[w]) + 1 /\ box'[w][i] = routed[Key[w]]
          BY <5>2, <3>1, <4>2, <4>6
        <5> QED
          BY <5>1, <5>2, <4>4
      <4> QED
        BY <4>5, <4>7
    <3>3. \A u \in Waiters \ {w} : box'[u] = box[u]
      BY <3>1
    <3>4. EventShape'
      BY <2>1, <3>1, <3>2
    <3>5. due[w] + Len(box'[w]) = routed[Key[w]] + 1
      BY <3>1, <3>2
    <3>6. InOrder(w)'
      BY <2>1, <2>3, <3>2, <3>5
    <3>7. \A u \in Waiters \ {w} : InOrder(u) => InOrder(u)'
      BY <2>1, <3>3
    <3>8. \A u \in Waiters : wpc[u] = "idle" => box'[u] = <<>>
      BY <2>3, <3>3
    <3> HIDE DEF InOrder
    <3> QED
      BY <2>1, <2>3, <3>4, <3>6, <3>7, <3>8
  <2> QED
    BY <2>2, <2>3
<1>3. ASSUME NEW w \in Waiters, Listen(w) PROVE EventInv'
  BY <1>3 DEF Listen
<1>4. ASSUME NEW w \in Waiters, Take(w) PROVE EventInv'
  <2>1. /\ wpc[w] = "waiting" /\ box[w] \in Seq(Nat) /\ box[w] # <<>>
        /\ box' = [box EXCEPT ![w] = Tail(box[w])]
        /\ due' = [due EXCEPT ![w] = due[w] + 1]
        /\ UNCHANGED <<reader, listed, carried, routed, wpc, freed>>
    BY <1>4 DEF Take
  <2>2. /\ box'[w] \in Seq(Nat) /\ Len(box'[w]) = Len(box[w]) - 1
        /\ \A i \in 1..Len(box'[w]) : box'[w][i] = box[w][i + 1]
                                      /\ i + 1 \in 1..Len(box[w])
    BY <2>1
  <2>3. \A i \in 1..Len(box'[w]) : box'[w][i] = due'[w] + i - 1
    <3>1. \A i \in 1..Len(box[w]) : box[w][i] = due[w] + i - 1
      BY <2>1
    <3>2. due[w] \in Nat /\ due'[w] = due[w] + 1
      BY <2>1
    <3> QED
      BY <3>1, <3>2, <2>2
  <2>4. due'[w] + Len(box'[w]) = due[w] + Len(box[w])
    BY <2>1, <2>2
  <2>5. \A u \in Waiters \ {w} : box'[u] = box[u] /\ due'[u] = due[u]
    BY <2>1
  <2>6. EventShape'
    BY <2>1, <2>2
  <2>7. InOrder(w)'
    BY <2>1, <2>3, <2>4
  <2>8. \A u \in Waiters \ {w} : InOrder(u) => InOrder(u)'
    BY <2>1, <2>5
  <2>9. \A u \in Waiters : wpc[u] = "idle" => box'[u] = <<>>
    BY <2>1, <2>5
  <2> HIDE DEF InOrder
  <2> QED
    BY <2>1, <2>6, <2>7, <2>8, <2>9
<1>5. ASSUME NEW w \in Waiters, Gets(w) \/ Timeout(w) \/ Disconnected(w)
      PROVE  EventInv'
  <2>1. Ends(w)
    BY <1>5 DEF Gets, Timeout, Disconnected
  <2> QED
    BY <2>1 DEF Ends
<1>6. ASSUME NEW k \in Sessions, Unregister(k) PROVE EventInv'
  BY <1>6 DEF Unregister, NoteFreed
<1>7. CASE Delivered
  BY <1>7 DEF Delivered
<1>8. CASE ReadEnds \/ Drain
  BY <1>8 DEF ReadEnds, Drain
<1>9. CASE \/ \E c \in Calls : Insert(c) \/ Caller(c) \/ Drop(c)
           \/ Disconnect \/ WriteLoop \/ CloseChannel \/ CloseFails
           \/ \E r \in Request : ReadResponse(r)
           \/ UNCHANGED vars
  <2>1. UNCHANGED <<reader, eventVars>>
    BY <1>9 DEF Insert, Caller, Send, SendFails, Answered, Drop, Disconnect, WriteLoop,
                Write, WriteFails, WriterEnds, CloseChannel, CloseFails, ReadResponse, vars
  <2> QED
    BY <2>1
<1> QED
  BY <1>1, <1>2, <1>3, <1>4, <1>5, <1>6, <1>7, <1>8, <1>9 DEF Next, ReadLoop, Waiter

(***************************************************************************)
(* A waiter sees every event from its registration on, once and in order,  *)
(* for any number of waiters, sessions and events.                         *)
(***************************************************************************)
THEOREM EventsArriveInOrder == Spec => []EventsInOrder
<1>1. EventInv => EventsInOrder
  <2> SUFFICES ASSUME EventInv, NEW w \in Waiters, wpc[w] = "waiting"
               PROVE  /\ \A i \in DOMAIN box[w] : box[w][i] = due[w] + i - 1
                      /\ w \in freed \/ w \in listed
                      /\ w \in listed \ carried => due[w] + Len(box[w]) = routed[Key[w]] + 1
    BY DEF EventsInOrder
  <2>1. InOrder(w) /\ DOMAIN box[w] = 1..Len(box[w])
    BY DEF EventInv, EventShape
  <2> QED
    BY <2>1 DEF InOrder
<1> QED
  BY <1>1, InitEvents, EventsInductive, PTL DEF Spec
=============================================================================
