---------------------------- MODULE CdpTransport ----------------------------
(***************************************************************************)
(* cdp/transport.rs: one WebSocket to a browser, shared by all calls and   *)
(* event waiters.  A write loop takes requests from an unbounded channel;  *)
(* a read loop hands responses to the pending calls and events to the      *)
(* listeners of their session.  Both are detached tasks.  Calls insert     *)
(* themselves into "pending" before they send; the read loop, when the     *)
(* connection ends, and close() take all of "pending" and fail it.         *)
(*                                                                         *)
(* Frames that are no text, do not parse, or answer an unknown id are      *)
(* skipped by the read loop and left out.  Whether an event is the awaited *)
(* one is any outcome of the name and the predicate.                       *)
(***************************************************************************)
EXTENDS Naturals, Sequences, FiniteSets

CONSTANTS
    Calls,      \* uses of call and call_session
    Waiters,    \* uses of wait_event and its variants
    Keys,       \* listener keys: a session id each, or the main transport's
    Sessions,   \* the keys that are session ids
    Key,        \* the key each waiter listens to
    Timed,      \* the waiters that gave a timeout
    MaxEvents   \* bound: events routed for each key

ASSUME CallsAssumption == IsFiniteSet(Calls) /\ Calls \cap {"none", "error"} = {}
ASSUME KeysAssumption ==
    /\ Sessions \subseteq Keys
    /\ Key \in [Waiters -> Keys]
    /\ Timed \subseteq Waiters
    /\ MaxEvents \in Nat

VARIABLES
    net,        \* the connection, as the browser's end has it
    nextId,     \* next_id
    pending,    \* pairs <<id, call>>
    txQueue,    \* requests in the ws channel
    txClosed,   \* the ws channel is closed
    writer,     \* the write loop
    onWire,     \* requests the browser has and did not answer
    reader,     \* the read loop
    cpc,        \* where each call is
    id,         \* the id each call drew
    reply,      \* what the call's oneshot channel holds
    closer,     \* close()
    listed,     \* the waiters whose sender is in listeners
    carried,    \* the senders of the list the read loop has cloned
    routed,     \* events routed for each key so far
    box,        \* each waiter's channel: events by their number
    wpc,        \* where each waiter is
    due,        \* history: the event each waiter has to take next
    freed,      \* history: the waiters whose listener was unregistered
    late        \* history: the calls inserted after the last Drain

callVars == <<nextId, pending, cpc, id, reply, late>>
wireVars == <<txQueue, txClosed, writer, onWire>>
eventVars == <<listed, carried, routed, box, wpc, due, freed>>
vars == <<net, callVars, wireVars, reader, closer, eventVars>>

Request == (1..Cardinality(Calls)) \X Calls

TypeOK ==
    /\ net \in {"up", "down"}
    /\ nextId \in 1..(Cardinality(Calls) + 1)
    /\ pending \subseteq Request
    /\ txQueue \in Seq(Request)
    /\ txClosed \in BOOLEAN
    /\ writer \in {"open", "gone"}
    /\ onWire \subseteq Request
    /\ reader \in {"reading", "delivering", "ended", "gone"}
    /\ cpc \in [Calls -> {"idle", "inserted", "waiting", "ended"}]
    /\ id \in [Calls -> 0..Cardinality(Calls)]
    /\ \A c \in Calls : reply[c] \in {"none", "error"} \cup Calls
    /\ closer \in {"none", "closing", "closed"}
    /\ listed \subseteq Waiters /\ carried \subseteq Waiters
    /\ routed \in [Keys -> 0..MaxEvents]
    /\ box \in [Waiters -> Seq(1..MaxEvents)]
    /\ wpc \in [Waiters -> {"idle", "waiting", "ended"}]
    /\ due \in [Waiters -> 0..(MaxEvents + 1)]
    /\ freed \subseteq Waiters /\ late \subseteq Calls

Init ==
    /\ net = "up"
    /\ nextId = 1 /\ pending = {}
    /\ txQueue = <<>> /\ txClosed = FALSE /\ writer = "open" /\ onWire = {}
    /\ reader = "reading"
    /\ cpc = [c \in Calls |-> "idle"]
    /\ id = [c \in Calls |-> 0]
    /\ reply = [c \in Calls |-> "none"]
    /\ closer = "none"
    /\ listed = {} /\ carried = {}
    /\ routed = [k \in Keys |-> 0]
    /\ box = [w \in Waiters |-> <<>>]
    /\ wpc = [w \in Waiters |-> "idle"]
    /\ due = [w \in Waiters |-> 0]
    /\ freed = {} /\ late = {}

\* The browser dies or closes the connection.
Disconnect ==
    /\ net = "up"
    /\ net' = "down"
    /\ UNCHANGED <<callVars, wireVars, reader, closer, eventVars>>
-----------------------------------------------------------------------------
(* call_inner.                                                              *)

Goes(c, from, to) == cpc[c] = from /\ cpc' = [cpc EXCEPT ![c] = to]

NoteLate(c) == late' = IF reader = "gone" THEN late \cup {c} ELSE late

\* Mutant: the id is read and advanced in two steps, the second one lost.
InsertSameId(c) ==
    /\ Goes(c, "idle", "inserted")
    /\ id' = [id EXCEPT ![c] = nextId]
    /\ pending' = {p \in pending : p[1] # nextId} \cup {<<nextId, c>>}
    /\ NoteLate(c)
    /\ UNCHANGED <<net, nextId, reply, wireVars, reader, closer, eventVars>>

\* fetch_add, then the insert under the lock.
Insert(c) ==
    /\ Goes(c, "idle", "inserted")
    /\ id' = [id EXCEPT ![c] = nextId]
    /\ nextId' = nextId + 1
    /\ pending' = pending \cup {<<nextId, c>>}
    /\ NoteLate(c)
    /\ UNCHANGED <<net, reply, wireVars, reader, closer, eventVars>>

Send(c) ==
    /\ ~txClosed
    /\ Goes(c, "inserted", "waiting")
    /\ txQueue' = Append(txQueue, <<id[c], c>>)
    /\ UNCHANGED <<net, nextId, pending, id, reply, late, txClosed, writer, onWire,
                   reader, closer, eventVars>>

\* The call returns "WebSocket write channel closed"
SendFails(c) ==
    /\ txClosed
    /\ Goes(c, "inserted", "ended")
    /\ pending' = {p \in pending : p[1] # id[c]}
    /\ UNCHANGED <<net, nextId, id, reply, late, wireVars, reader, closer, eventVars>>

\* The call returns what its channel holds.
Answered(c) ==
    /\ reply[c] # "none"
    /\ Goes(c, "waiting", "ended")
    /\ reply' = [reply EXCEPT ![c] = "none"]
    /\ UNCHANGED <<net, nextId, pending, id, late, wireVars, reader, closer, eventVars>>

\* The call's future is dropped, with the job's task: its entry stays.
Drop(c) ==
    /\ Goes(c, "waiting", "ended")
    /\ UNCHANGED <<net, nextId, pending, id, reply, late, wireVars, reader, closer, eventVars>>

\* Takes all of pending and fails it.
FailPending ==
    /\ pending' = {}
    /\ reply' = [c \in Calls |-> IF \E p \in pending : p[2] = c THEN "error" ELSE reply[c]]

-----------------------------------------------------------------------------
(* The write loop.                                                          *)

Write ==
    /\ writer = "open"
    /\ txQueue # <<>>
    /\ txQueue' = Tail(txQueue)
    /\ onWire' = IF net = "up" THEN onWire \cup {Head(txQueue)} ELSE onWire
    /\ UNCHANGED <<net, callVars, txClosed, writer, reader, closer, eventVars>>

\* The loop breaks, its receiver is dropped, which closes the channel.
WriteFails ==
    /\ writer = "open"
    /\ txQueue # <<>>
    /\ net = "down"
    /\ txQueue' = Tail(txQueue)
    /\ writer' = "gone"
    /\ txClosed' = TRUE
    /\ UNCHANGED <<net, callVars, onWire, reader, closer, eventVars>>

WriterEnds ==
    /\ writer = "open"
    /\ txQueue = <<>> /\ txClosed
    /\ writer' = "gone"
    /\ UNCHANGED <<net, callVars, txQueue, txClosed, onWire, reader, closer, eventVars>>

-----------------------------------------------------------------------------
(* The read loop.                                                           *)

\* The browser answers request r, with a result or a protocol error.
ReadResponse(r) ==
    /\ reader = "reading"
    /\ r \in onWire
    /\ onWire' = onWire \ {r}
    /\ pending' = {p \in pending : p[1] # r[1]}
    /\ reply' = [c \in Calls |-> IF <<r[1], c>> \in pending THEN r[2] ELSE reply[c]]
    /\ UNCHANGED <<net, nextId, cpc, id, late, txQueue, txClosed, writer, reader, closer,
                   eventVars>>

\* A waiter that has returned has dropped its receiver.
Closed(w) == wpc[w] # "waiting"

\* Mutant: retain keeps the wrong ones.
ReadEventRetainClosed(k) ==
    /\ reader = "reading"
    /\ routed[k] < MaxEvents
    /\ routed' = [routed EXCEPT ![k] = @ + 1]
    /\ listed' = {w \in listed : Key[w] = k => Closed(w)}
    /\ carried' = {w \in listed' : Key[w] = k}
    /\ reader' = "delivering"
    /\ UNCHANGED <<net, callVars, wireVars, closer, box, wpc, due, freed>>

\* An event for key k: forget closed listeners, clone the list, unlock ...
ReadEvent(k) ==
    /\ reader = "reading"
    /\ routed[k] < MaxEvents
    /\ routed' = [routed EXCEPT ![k] = @ + 1]
    /\ listed' = {w \in listed : Key[w] = k => ~Closed(w)}
    /\ carried' = {w \in listed' : Key[w] = k}
    /\ reader' = "delivering"
    /\ UNCHANGED <<net, callVars, wireVars, closer, box, wpc, due, freed>>

\* ... and send it to each of them.
Deliver(w) ==
    /\ w \in carried
    /\ carried' = carried \ {w}
    /\ box' = IF Closed(w) THEN box ELSE [box EXCEPT ![w] = Append(@, routed[Key[w]])]
    /\ UNCHANGED <<net, callVars, wireVars, reader, closer, listed, routed, wpc, due, freed>>

Delivered ==
    /\ reader = "delivering"
    /\ carried = {}
    /\ reader' = "reading"
    /\ UNCHANGED <<net, callVars, wireVars, closer, eventVars>>

\* A Close frame, an error, or the end of the stream.
ReadEnds ==
    /\ reader = "reading"
    /\ net = "down"
    /\ reader' = "ended"
    /\ onWire' = {}
    /\ UNCHANGED <<net, callVars, txQueue, txClosed, writer, closer, eventVars>>

\* Mutant: one pending call is failed, the others stay in the map.
DrainOne ==
    /\ reader = "ended"
    /\ reader' = "gone"
    /\ \E p \in pending : /\ pending' = pending \ {p}
                         /\ reply' = [reply EXCEPT ![p[2]] = "error"]
    /\ UNCHANGED <<net, nextId, cpc, id, late, wireVars, closer, eventVars>>

\* The pending calls are failed; the listeners stay as they are.
Drain ==
    /\ reader = "ended"
    /\ reader' = "gone"
    /\ FailPending
    /\ UNCHANGED <<net, nextId, cpc, id, late, wireVars, closer, eventVars>>

-----------------------------------------------------------------------------
(* close().                                                                 *)

CloseChannel ==
    /\ closer = "none"
    /\ closer' = "closing"
    /\ txClosed' = TRUE
    /\ UNCHANGED <<net, callVars, txQueue, writer, onWire, reader, eventVars>>

\* Mutant: nothing is failed, the channel's end is left to do it.
CloseOnly ==
    /\ closer = "closing"
    /\ closer' = "closed"
    /\ UNCHANGED <<net, callVars, wireVars, reader, eventVars>>

CloseFails ==
    /\ closer = "closing"
    /\ closer' = "closed"
    /\ FailPending
    /\ UNCHANGED <<net, nextId, cpc, id, late, wireVars, reader, eventVars>>

-----------------------------------------------------------------------------
(* wait_event, wait_event_timeout and their session variants.               *)

Listen(w) ==
    /\ wpc[w] = "idle"
    /\ wpc' = [wpc EXCEPT ![w] = "waiting"]
    /\ listed' = listed \cup {w}
    /\ due' = [due EXCEPT ![w] = routed[Key[w]] + 1]
    /\ UNCHANGED <<net, callVars, wireVars, reader, closer, carried, routed, box, freed>>

\* The next event is not the awaited one, or it is.
Take(w) ==
    /\ wpc[w] = "waiting"
    /\ box[w] # <<>>
    /\ box' = [box EXCEPT ![w] = Tail(@)]
    /\ due' = [due EXCEPT ![w] = @ + 1]
    /\ UNCHANGED <<net, callVars, wireVars, reader, closer, listed, carried, routed, wpc, freed>>

Ends(w) ==
    /\ wpc[w] = "waiting"
    /\ wpc' = [wpc EXCEPT ![w] = "ended"]
    /\ box' = [box EXCEPT ![w] = <<>>]
    /\ due' = [due EXCEPT ![w] = 0]
    /\ UNCHANGED <<net, callVars, wireVars, reader, closer, listed, carried, routed, freed>>

Gets(w) == box[w] # <<>> /\ Ends(w)

Timeout(w) == w \in Timed /\ Ends(w)

\* "Transport event channel closed": no sender is left.
Disconnected(w) ==
    /\ box[w] = <<>>
    /\ w \notin listed \cup carried
    /\ Ends(w)

NoteFreed(k) == freed' = freed \cup {w \in Waiters : Key[w] = k /\ wpc[w] = "waiting"}

\* unregister_session_listener drops every listener of the session.
Unregister(k) ==
    /\ listed' = {w \in listed : Key[w] # k}
    /\ NoteFreed(k)
    /\ UNCHANGED <<net, callVars, wireVars, reader, closer, carried, routed, box, wpc, due>>
-----------------------------------------------------------------------------
Caller(c) == Send(c) \/ SendFails(c) \/ Answered(c)
Waiter(w) == Take(w) \/ Gets(w) \/ Timeout(w) \/ Disconnected(w)
WriteLoop == Write \/ WriteFails \/ WriterEnds
ReadLoop == (\E w \in Waiters : Deliver(w)) \/ Delivered \/ ReadEnds \/ Drain

Next ==
    \/ Disconnect
    \/ \E c \in Calls : Insert(c) \/ Caller(c) \/ Drop(c)
    \/ WriteLoop \/ ReadLoop
    \/ \E r \in Request : ReadResponse(r)
    \/ \E k \in Keys : ReadEvent(k)
    \/ CloseChannel \/ CloseFails
    \/ \E w \in Waiters : Listen(w) \/ Waiter(w)
    \/ \E k \in Sessions : Unregister(k)

Spec == Init /\ [][Next]_vars

\* Both loops and every call and waiter are polled, close() returns.  No
\* waiter is saved by its timer; the browser need not answer, send events,
\* or go away.
Fairness ==
    /\ \A c \in Calls : WF_vars(Caller(c))
    /\ \A w \in Waiters : WF_vars(Take(w) \/ Gets(w) \/ Disconnected(w))
    /\ WF_vars(WriteLoop) /\ WF_vars(ReadLoop) /\ WF_vars(CloseFails)

FairSpec == Spec /\ Fairness
-----------------------------------------------------------------------------
(***************************************************************************)
(* A response reaches the call that sent the request: ids are never shared *)
(* (transport.rs:105-125, 196-222).                                        *)
(***************************************************************************)
AnswersMatch == \A c \in Calls : reply[c] \in {"none", "error", c}

(***************************************************************************)
(* close() leaves no call behind: each one that waits when it returns has  *)
(* its answer, and later ones cannot send, however insert, send, the two   *)
(* loops and close() interleave (transport.rs:319-328).                    *)
(***************************************************************************)
CloseAnswersAll ==
    closer = "closed" => \A c \in Calls : cpc[c] = "waiting" => reply[c] # "none"

(***************************************************************************)
(* A waiter sees every event of its session from its registration on, each *)
(* once and in order, although the list is cloned and sent to outside of   *)
(* the lock (transport.rs:137-150).                                        *)
(***************************************************************************)
EventsInOrder ==
    \A w \in Waiters : wpc[w] = "waiting" =>
        /\ \A i \in DOMAIN box[w] : box[w][i] = due[w] + i - 1
        /\ w \in freed \/ w \in listed
        /\ w \in listed \ carried => due[w] + Len(box[w]) = routed[Key[w]] + 1

(***************************************************************************)
(* When the connection ends, every call under way ends, but for the late   *)
(* ones, inserted after the read loop had failed all pending ones: the     *)
(* write loop still takes a request before it finds out, and nothing will  *)
(* fail that call (transport.rs:155-163, 213-222).                         *)
(***************************************************************************)
CallsEnd ==
    \A c \in Calls :
        net = "down" /\ cpc[c] \in {"inserted", "waiting"} ~>
            cpc[c] = "ended" \/ c \in late
=============================================================================
