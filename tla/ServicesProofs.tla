--------------------------- MODULE ServicesProofs ---------------------------
(***************************************************************************)
(* Proofs about the services, for any values of their constants.  A part   *)
(* takes steps of its own module only, so that the invariant of a part is  *)
(* inductive for the sum when it is for the part.                          *)
(***************************************************************************)
EXTENDS Services, FiniteSetTheorems, SequenceTheorems, TLAPS

(***************************************************************************)
(* The inductive invariant: a task is in one place at a time.  Until it is *)
(* handled it is with its caller, or once in the channel the caller chose, *)
(* or taken by that channel's worker; afterwards it is answered and in no  *)
(* place any more.                                                         *)
(***************************************************************************)
TasksFit ==
    /\ cpc \in [Callers -> {"idle", "ensure", "start", "send", "retry",
                            "resend", "wait", "late", "answered", "failed"}]
    /\ DOMAIN chan = Callers
    /\ written \in [Callers -> Nat]
    /\ replied \in [Callers -> BOOLEAN]
    /\ queue \in [Chans -> Seq(Callers)]
    /\ current \in [Chans -> SUBSET Callers]

Waiting == {"wait", "late"}

\* Task c was accepted by channel k and waits for its worker.
Waits(c, k) == cpc[c] \in Waiting /\ chan[c] = k /\ ~replied[c]

OnePlace ==
    \A k \in Chans :
        /\ \A i \in 1..Len(queue[k]) : Waits(queue[k][i], k)
        /\ \A i, j \in 1..Len(queue[k]) : queue[k][i] = queue[k][j] => i = j
        /\ \A c \in current[k] :
               Waits(c, k) /\ \A i \in 1..Len(queue[k]) : queue[k][i] # c

Counted ==
    \A c \in Callers :
        /\ replied[c] => cpc[c] \in {"wait", "late", "answered"}
        /\ cpc[c] = "answered" => replied[c]
        /\ written[c] = IF replied[c] THEN 1 ELSE 0

TaskInv == TasksFit /\ OnePlace /\ Counted

LEMMA InitTask == Init => TaskInv
  BY DEF Init, TaskInv, TasksFit, OnePlace, Counted

LEMMA Appended ==
    ASSUME NEW S, NEW s \in Seq(S), NEW x \in S, NEW i \in 1..Len(Append(s, x))
    PROVE  \/ i \in 1..Len(s) /\ Append(s, x)[i] = s[i]
           \/ i = Len(s) + 1 /\ Append(s, x)[i] = x
  OBVIOUS

LEMMA Shifted ==
    ASSUME NEW S, NEW s \in Seq(S), s # <<>>, NEW i \in 1..Len(Tail(s))
    PROVE  i + 1 \in 1..Len(s) /\ i + 1 # 1 /\ Tail(s)[i] = s[i + 1]
  OBVIOUS

\* A channel that a caller sends to is in Chans; the proof need not know.
LEMMA EnqueueKeeps ==
    ASSUME TaskInv, NEW c \in Callers, cpc[c] \in {"send", "resend"},
           Enqueue(c), UNCHANGED <<chan, current, written, replied>>
    PROVE  TaskInv'
<1> DEFINE Waits1(d, h) == cpc'[d] \in Waiting /\ chan'[d] = h /\ ~replied'[d]
<1>1. /\ \A h \in Chans : queue'[h] = IF h = chan[c] THEN Append(queue[h], c) ELSE queue[h]
      /\ \A h \in Chans : queue[h] \in Seq(Callers)
      /\ queue' \in [Chans -> Seq(Callers)]
      /\ current' = current
  <2>1. /\ queue \in [Chans -> Seq(Callers)]
        /\ queue' = [queue EXCEPT ![chan[c]] = Append(@, c)]
    BY DEF Enqueue, TaskInv, TasksFit
  <2>2. \A h \in Chans : Append(queue[h], c) \in Seq(Callers)
    BY <2>1
  <2> QED
    BY <2>1, <2>2
<1>2. /\ cpc' = [cpc EXCEPT ![c] = IF wpc[chan[c]] = "leaving" THEN "late" ELSE "wait"]
      /\ ~replied[c]
      /\ chan' = chan
  BY DEF Enqueue, Accepted, TaskInv, TasksFit, Counted
<1>3. TasksFit' /\ Counted'
  BY <1>1, <1>2 DEF TaskInv, TasksFit, Counted
<1>4. ASSUME NEW h \in Chans
      PROVE  /\ \A i \in 1..Len(queue[h]) : Waits1(queue[h][i], h) /\ queue[h][i] # c
             /\ \A i, j \in 1..Len(queue[h]) : queue[h][i] = queue[h][j] => i = j
             /\ \A d \in current[h] : Waits1(d, h) /\ d # c
                    /\ \A i \in 1..Len(queue[h]) : queue[h][i] # d
  <2>1. \A d \in Callers : Waits(d, h) => Waits1(d, h) /\ d # c
    BY <1>2 DEF Waits, Waiting, TaskInv, TasksFit
  <2>2. current[h] \subseteq Callers /\ \A i \in 1..Len(queue[h]) : queue[h][i] \in Callers
    BY <1>1 DEF TaskInv, TasksFit
  <2> QED
    BY <2>1, <2>2 DEF TaskInv, OnePlace
<1>5. ASSUME NEW h \in Chans
      PROVE  /\ \A i \in 1..Len(queue'[h]) : Waits1(queue'[h][i], h)
             /\ \A i, j \in 1..Len(queue'[h]) : queue'[h][i] = queue'[h][j] => i = j
             /\ \A d \in current'[h] : Waits1(d, h)
                    /\ \A i \in 1..Len(queue'[h]) : queue'[h][i] # d
  <2>1. CASE h # chan[c]
    BY <2>1, <1>1, <1>4
  <2>2. CASE h = chan[c]
    <3>1. \A i \in 1..Len(queue'[h]) :
              \/ i \in 1..Len(queue[h]) /\ queue'[h][i] = queue[h][i]
              \/ i = Len(queue[h]) + 1 /\ queue'[h][i] = c
      <4>1. queue[h] \in Seq(Callers) /\ queue'[h] = Append(queue[h], c)
        BY <2>2, <1>1
      <4> QED
        BY <4>1, Appended
    <3>2. Waits1(c, h)
      BY <2>2, <1>2 DEF Waiting, TaskInv, TasksFit
    <3>3. \A i \in 1..Len(queue'[h]) : Waits1(queue'[h][i], h)
      BY <3>1, <3>2, <1>4
    <3>4. \A i, j \in 1..Len(queue'[h]) : queue'[h][i] = queue'[h][j] => i = j
      BY <3>1, <1>4
    <3>5. \A d \in current'[h] : Waits1(d, h)
              /\ \A i \in 1..Len(queue'[h]) : queue'[h][i] # d
      BY <3>1, <1>1, <1>4
    <3> QED
      BY <3>3, <3>4, <3>5
  <2> QED
    BY <2>1, <2>2
<1>6. OnePlace'
  BY <1>5 DEF OnePlace, Waits
<1> QED
  BY <1>3, <1>6 DEF TaskInv

LEMMA TakeKeeps ==
    ASSUME TaskInv, NEW k \in Chans, Take(k), UNCHANGED <<cpc, chan, written, replied>>
    PROVE  TaskInv'
<1> USE DEF TaskInv, TasksFit
<1>1. /\ queue[k] \in Seq(Callers) /\ Len(queue[k]) \in Nat \ {0}
      /\ queue'[k] = Tail(queue[k]) /\ current'[k] = {Head(queue[k])}
      /\ \A h \in Chans \ {k} : queue'[h] = queue[h] /\ current'[h] = current[h]
  BY DEF Take
<1>2. /\ Len(queue'[k]) = Len(queue[k]) - 1
      /\ \A i \in 1..Len(queue'[k]) : queue'[k][i] = queue[k][i + 1]
      /\ Head(queue[k]) = queue[k][1] /\ queue[k][1] \in Callers
  BY <1>1
<1>3. TasksFit' /\ Counted'
  BY <1>1, <1>2 DEF Take, Counted
<1>4. \A h \in Chans, d \in Callers : Waits(d, h)' <=> Waits(d, h)
  BY DEF Waits
<1>5. OnePlace'
  <2> SUFFICES ASSUME NEW h \in Chans
               PROVE  /\ \A i \in 1..Len(queue'[h]) : Waits(queue'[h][i], h)
                      /\ \A i, j \in 1..Len(queue'[h]) :
                             queue'[h][i] = queue'[h][j] => i = j
                      /\ \A d \in current'[h] : Waits(d, h)
                             /\ \A i \in 1..Len(queue'[h]) : queue'[h][i] # d
    BY DEF OnePlace, Waits
  <2>1. CASE h # k
    BY <2>1, <1>1 DEF OnePlace
  <2>2. CASE h = k
    <3>1. \A i \in 1..Len(queue'[k]) : i + 1 \in 1..Len(queue[k]) /\ i + 1 # 1
                                       /\ queue'[k][i] = queue[k][i + 1]
      BY <1>1, Shifted
    <3>2. 1 \in 1..Len(queue[k])
      BY <1>1
    <3>3. /\ \A i \in 1..Len(queue[k]) : Waits(queue[k][i], k)
          /\ \A i, j \in 1..Len(queue[k]) : queue[k][i] = queue[k][j] => i = j
      BY DEF OnePlace
    <3>4. \A i \in 1..Len(queue'[k]) : Waits(queue'[k][i], k)
      BY <3>1, <3>3, <1>2
    <3>5. \A i, j \in 1..Len(queue'[k]) : queue'[k][i] = queue'[k][j] => i = j
      <4> SUFFICES ASSUME NEW i \in 1..Len(queue'[k]), NEW j \in 1..Len(queue'[k]),
                          queue'[k][i] = queue'[k][j]
                   PROVE  i = j
        OBVIOUS
      <4>1. i + 1 = j + 1
        BY <3>1, <3>3, <1>2
      <4> QED
        BY <4>1, <1>1, <1>2
    <3>6. \A d \in current'[k] : Waits(d, k)
              /\ \A i \in 1..Len(queue'[k]) : queue'[k][i] # d
      <4>1. Waits(queue[k][1], k) /\ current'[k] = {queue[k][1]}
        BY <3>2, <3>3, <1>1, <1>2
      <4>2. \A i \in 1..Len(queue'[k]) : queue'[k][i] # queue[k][1]
        BY <3>1, <3>2, <3>3
      <4> QED
        BY <4>1, <4>2
    <3> QED
      BY <3>4, <3>5, <3>6, <2>2
  <2> QED
    BY <2>1, <2>2
<1> QED
  BY <1>3, <1>5

\* What disturbs neither places nor counts.
LEMMA ElsewhereKeeps ==
    ASSUME TaskInv, UNCHANGED <<queue, current, written, replied>>, TasksFit', Counted',
           \A c \in Callers : cpc[c] \in Waiting /\ ~replied[c]
                              => cpc'[c] \in Waiting /\ chan'[c] = chan[c]
    PROVE  TaskInv'
<1>1. \A k \in Chans, c \in Callers : Waits(c, k) => Waits(c, k)'
  BY DEF Waits
<1>2. \A k \in Chans : current[k] \subseteq Callers
                       /\ \A i \in 1..Len(queue[k]) : queue[k][i] \in Callers
  BY DEF TaskInv, TasksFit
<1>3. OnePlace'
  BY <1>1, <1>2 DEF TaskInv, OnePlace
<1> QED
  BY <1>3 DEF TaskInv

LEMMA TaskInductive == TaskInv /\ [Next]_vars => TaskInv'
<1> SUFFICES ASSUME TaskInv, [Next]_vars PROVE TaskInv'
  OBVIOUS
<1>1. ASSUME NEW c \in Callers,
             \/ Call(c) \/ Ensure(c) \/ EnsureStart(c) \/ SendFails(c) \/ Restart(c)
             \/ ResendFails(c) \/ Answered(c)
      PROVE  TaskInv'
  <2> USE DEF Call, Ensure, EnsureStart, SendFails, Restart, ResendFails, Answered,
              Goes, StartFor, svcVars, workerVars
  <2>1. UNCHANGED <<queue, current, written, replied>>
    BY <1>1
  <2>2. \E to \in {"ensure", "start", "send", "retry", "resend", "failed", "answered"} :
            /\ cpc' = [cpc EXCEPT ![c] = to]
            /\ cpc[c] = "wait" <=> to = "answered"
            /\ cpc[c] # "late"
            /\ to = "answered" => replied[c]
            /\ cpc[c] # "answered"
    BY <1>1
  <2>3. DOMAIN chan' = Callers
    BY <1>1 DEF TaskInv, TasksFit
  <2>4. TasksFit' /\ Counted'
    BY <2>1, <2>2, <2>3 DEF TaskInv, TasksFit, Counted
  <2>5. \A d \in Callers : cpc[d] \in Waiting /\ ~replied[d]
                           => cpc'[d] \in Waiting /\ chan'[d] = chan[d]
    BY <1>1 DEF Waiting, TaskInv, TasksFit
  <2> QED
    BY <2>1, <2>4, <2>5, ElsewhereKeeps
<1>2. ASSUME NEW c \in Callers, Send(c) \/ Resend(c) PROVE TaskInv'
  BY <1>2, EnqueueKeeps DEF Send, Resend, svcVars, workerVars
<1>3. ASSUME NEW k \in Chans, Receive(k) \/ TakeNext(k) PROVE TaskInv'
  BY <1>3, TakeKeeps DEF Receive, TakeNext
<1>4. ASSUME NEW k \in Chans, Handle(k) PROVE TaskInv'
  <2>1. TasksFit'
    BY <1>4 DEF Handle, TaskInv, TasksFit
  <2>2. \A c \in current[k] : cpc[c] \in {"wait", "late"} /\ ~replied[c]
    BY DEF TaskInv, OnePlace, Waits, Waiting
  <2>3. Counted'
    <3>1. \A c \in Callers :
              /\ written'[c] = IF c \in current[k] THEN written[c] + 1 ELSE written[c]
              /\ replied'[c] <=> replied[c] \/ c \in current[k]
              /\ cpc'[c] = cpc[c]
      BY <1>4 DEF Handle
    <3>2. \A c \in Callers :
              /\ replied[c] => cpc[c] \in {"wait", "late", "answered"}
              /\ cpc[c] = "answered" => replied[c]
              /\ replied[c] => written[c] = 1
              /\ ~replied[c] => written[c] = 0
      BY DEF TaskInv, Counted
    <3>3. \A c \in Callers :
              /\ replied'[c] => written'[c] = 1
              /\ ~replied'[c] => written'[c] = 0
      BY <3>1, <3>2, <2>2
    <3> QED
      BY <3>1, <3>2, <3>3, <2>2 DEF Counted
  <2>4. \A h \in Chans, c \in Callers : Waits(c, h) /\ (h # k \/ c \notin current[k])
                                        => Waits(c, h)'
    BY <1>4 DEF Handle, Waits, TaskInv, TasksFit, OnePlace
  <2>5. \A h \in Chans : current[h] \subseteq Callers
                         /\ \A i \in 1..Len(queue[h]) : queue[h][i] \in Callers
    BY DEF TaskInv, TasksFit
  <2>6. /\ queue' = queue /\ current'[k] = {}
        /\ \A h \in Chans \ {k} : current'[h] = current[h]
    BY <1>4 DEF Handle, TaskInv, TasksFit
  <2>7. OnePlace'
    BY <2>4, <2>5, <2>6 DEF OnePlace, TaskInv
  <2> QED
    BY <2>1, <2>3, <2>7 DEF TaskInv
<1>5. CASE \/ \E k \in Chans : Leave(k) \/ Drained(k) \/ GoneAway(k)
           \/ ShutdownCloses \/ ShutdownJoins \/ UNCHANGED vars
  <2>1. UNCHANGED <<queue, current, written, replied, cpc, chan>>
    BY <1>5 DEF Leave, Drained, GoneAway, ShutdownCloses, ShutdownJoins, vars, workerVars
  <2>2. TasksFit' /\ Counted'
    BY <2>1 DEF TaskInv, TasksFit, Counted
  <2> QED
    BY <2>1, <2>2, ElsewhereKeeps
<1> QED
  BY <1>1, <1>2, <1>3, <1>4, <1>5 DEF Next, CallerStep, WorkerStep

(***************************************************************************)
(* However sends, idle ends, restarts and shutdown race, a task is written *)
(* at most once, and before its caller is answered.                        *)
(***************************************************************************)
THEOREM TasksAreWrittenOnce == Spec => []WrittenOnce
<1>1. TaskInv => WrittenOnce
  BY DEF TaskInv, TasksFit, Counted, WrittenOnce
<1> QED
  BY <1>1, InitTask, TaskInductive, PTL DEF Spec

-----------------------------------------------------------------------------
(***************************************************************************)
(* What shutdown waits for.  A caller starts at most two workers, one      *)
(* before its first send and one after it failed, so there is a channel    *)
(* for each; a task accepted and not answered is in its channel or in the  *)
(* hands of the worker, who has one only while it handles it.              *)
(***************************************************************************)
Entered == {c \in Callers : cpc[c] \notin {"idle", "ensure", "start"}}
Retried == {c \in Callers : cpc[c] \notin {"idle", "ensure", "start", "send", "retry"}}

StartsCounted == started <= Cardinality(Entered) + Cardinality(Retried)

HasChannel == \A c \in Callers : c \in Entered => chan[c] \in Chans

InQueue(c, k) == \E i \in 1..Len(queue[k]) : queue[k][i] = c

Located ==
    \A c \in Callers : \A k \in Chans :
        Waits(c, k) => InQueue(c, k) \/ c \in current[k]

Resting ==
    \A k \in Chans :
        /\ wpc[k] # "handling" => current[k] = {}
        /\ k > started => wpc[k] = "none"

DrainInv == TypeOK /\ StartsCounted /\ HasChannel /\ Located /\ Resting

LEMMA CallersCounted ==
    ASSUME NEW S, NEW T, S \subseteq T, T \subseteq Callers
    PROVE  /\ Cardinality(S) \in Nat /\ Cardinality(T) \in Nat
           /\ Cardinality(S) <= Cardinality(T)
           /\ \A c \in T : c \notin S => Cardinality(S) + 1 <= Cardinality(T)
<1>1. IsFiniteSet(S) /\ IsFiniteSet(T)
  BY CallersAssumption, FS_Subset
<1>2. /\ Cardinality(S) \in Nat /\ Cardinality(T) \in Nat
      /\ Cardinality(S) <= Cardinality(T)
  BY <1>1, FS_CardinalityType, FS_Subset
<1>3. ASSUME NEW c \in T, c \notin S PROVE Cardinality(S) + 1 <= Cardinality(T)
  <2>1. S \cup {c} \subseteq T
    BY <1>3
  <2>2. Cardinality(S \cup {c}) = Cardinality(S) + 1
    BY <1>1, <1>3, FS_AddElement
  <2> QED
    BY <1>1, <2>1, <2>2, FS_Subset
<1> QED
  BY <1>2, <1>3

LEMMA ChansAre ==
    /\ Cardinality(Callers) \in Nat /\ Chans = 1..(2 * Cardinality(Callers))
    /\ Cardinality(Chans) = 2 * Cardinality(Callers)
<1> DEFINE n == 2 * Cardinality(Callers)
<1>1. Cardinality(Callers) \in Nat /\ n \in Nat
  BY CallersAssumption, FS_CardinalityType
<1> HIDE DEF n
<1>2. Cardinality(1..n) = n
  BY <1>1, FS_Interval
<1> QED
  BY <1>1, <1>2 DEF Chans, n

LEMMA InitDrains == Init => DrainInv
<1> SUFFICES ASSUME Init PROVE DrainInv
  OBVIOUS
<1>1. TypeOK
  <2>1. started \in 0..Cardinality(Chans)
    BY ChansAre DEF Init
  <2>2. Cardinality({}) = 0 /\ Len(<<>>) = 0 /\ Capacity \in Nat /\ <<>> \in Seq(Callers)
    BY FS_EmptySet, CapacityAssumption
  <2> QED
    BY <2>1, <2>2 DEF Init, TypeOK
<1>2. Entered = {} /\ Retried = {}
  BY DEF Init, Entered, Retried
<1>3. StartsCounted
  BY <1>2, FS_EmptySet DEF Init, StartsCounted
<1>4. HasChannel /\ Located /\ Resting
  BY <1>2 DEF Init, HasChannel, Located, Waits, Resting
<1> QED
  BY <1>1, <1>3, <1>4 DEF DrainInv

\* Nobody goes back, so the counts never shrink.
LEMMA CountsGrow ==
    ASSUME NEW c \in Callers,
           NEW to \in {"ensure", "start", "send", "retry", "resend", "wait", "late", "failed",
                   "answered"},
           cpc \in [Callers -> {"idle", "ensure", "start", "send", "retry",
                            "resend", "wait", "late", "answered", "failed"}],
           cpc' = [cpc EXCEPT ![c] = to],
           c \in Entered => to \notin {"ensure", "start"},
           c \in Retried => to \notin {"ensure", "start", "send", "retry"}
    PROVE  /\ Entered \subseteq Entered' /\ Entered' \subseteq Entered \cup {c}
           /\ Retried \subseteq Retried' /\ Retried' \subseteq Callers /\ Entered' \subseteq Callers
           /\ c \in Entered' <=> to \notin {"ensure", "start"}
           /\ c \in Retried' <=> to \notin {"ensure", "start", "send", "retry"}
<1>1. \A d \in Callers : cpc'[d] = IF d = c THEN to ELSE cpc[d]
  OBVIOUS
<1>2. Entered' = {d \in Callers : cpc'[d] \notin {"idle", "ensure", "start"}}
  BY DEF Entered
<1>3. Retried' = {d \in Callers : cpc'[d] \notin {"idle", "ensure", "start", "send", "retry"}}
  BY DEF Retried
<1> QED
  BY <1>1, <1>2, <1>3 DEF Entered, Retried

\* A step of a caller that starts no worker and sends nothing.
LEMMA MoveDrains ==
    ASSUME DrainInv, NEW c \in Callers,
           \/ Call(c) \/ Ensure(c) \/ SendFails(c) \/ ResendFails(c) \/ Answered(c)
           \/ EnsureStart(c) /\ ValidSender
    PROVE  DrainInv'
<1>1. PICK to \in {"ensure", "start", "send", "retry", "failed", "answered"} :
          /\ cpc' = [cpc EXCEPT ![c] = to]
          /\ to = "ensure" => cpc[c] = "idle"
          /\ to = "start" => cpc[c] = "ensure"
          /\ to = "send" => cpc[c] \in {"ensure", "start"} /\ ValidSender
                            /\ chan' = [chan EXCEPT ![c] = sender]
          /\ to # "send" => chan' = chan
          /\ to = "retry" => cpc[c] = "send"
          /\ to = "failed" => cpc[c] = "resend"
          /\ to = "answered" => cpc[c] = "wait" /\ replied[c]
  BY DEF Call, Ensure, SendFails, ResendFails, Answered, EnsureStart, Goes
<1>2. UNCHANGED <<svcVars, queue, closed, workerVars, written, replied, down>>
  BY DEF Call, Ensure, SendFails, ResendFails, Answered, EnsureStart, Goes, workerVars
<1>3. TypeOK /\ (to = "send" => sender \in Chans)
  BY <1>1 DEF DrainInv, TypeOK, ValidSender
<1>4. TypeOK'
  <2>1. cpc' \in [Callers -> {"idle", "ensure", "start", "send", "retry",
                            "resend", "wait", "late", "answered", "failed"}]
    BY <1>1, <1>3 DEF TypeOK
  <2>2. chan' \in [Callers -> {0} \cup Chans]
    BY <1>1, <1>3 DEF TypeOK
  <2> QED
    BY <1>2, <1>3, <2>1, <2>2 DEF TypeOK, svcVars, workerVars
<1>5. /\ Entered \subseteq Entered' /\ Entered' \subseteq Entered \cup {c}
      /\ Retried \subseteq Retried' /\ Retried' \subseteq Callers /\ Entered' \subseteq Callers
      /\ c \in Entered' <=> to \notin {"ensure", "start"}
  <2>1. /\ c \in Entered => to \notin {"ensure", "start"}
        /\ c \in Retried => to \notin {"ensure", "start", "send", "retry"}
    BY <1>1 DEF Entered, Retried
  <2> QED
    BY <1>1, <1>3, <2>1, CountsGrow DEF TypeOK
<1>6. StartsCounted'
  <2>1. /\ Cardinality(Entered) \in Nat /\ Cardinality(Entered') \in Nat
        /\ Cardinality(Entered) <= Cardinality(Entered')
    BY <1>5, CallersCounted
  <2>2. /\ Cardinality(Retried) \in Nat /\ Cardinality(Retried') \in Nat
        /\ Cardinality(Retried) <= Cardinality(Retried')
    BY <1>5, CallersCounted
  <2>3. started \in Nat /\ started' = started
    BY <1>2, <1>3, ChansAre DEF TypeOK, svcVars
  <2>4. started <= Cardinality(Entered) + Cardinality(Retried)
    BY DEF DrainInv, StartsCounted
  <2>5. started' <= Cardinality(Entered') + Cardinality(Retried')
    <3> DEFINE x == Cardinality(Entered)
               y == Cardinality(Retried)
               u == Cardinality(Entered')
               v == Cardinality(Retried')
    <3> HIDE DEF x, y, u, v
    <3>1. started' <= u + v
      BY <2>1, <2>2, <2>3, <2>4 DEF x, y, u, v
    <3> QED
      BY <3>1 DEF u, v
  <2> QED
    BY <2>5 DEF StartsCounted
<1>7. HasChannel'
  <2>1. ASSUME NEW d \in Callers, d \in Entered' PROVE chan'[d] \in Chans
    BY <1>1, <1>3, <1>5, <2>1 DEF DrainInv, HasChannel, TypeOK, Entered
  <2> QED
    BY <2>1 DEF HasChannel
<1>8. Located' /\ Resting'
  <2>1. ASSUME NEW d \in Callers, NEW k \in Chans, Waits(d, k)' PROVE Waits(d, k)
    BY <1>1, <1>2, <1>3, <2>1 DEF Waits, Waiting, TypeOK
  <2> QED
    BY <1>2, <2>1 DEF DrainInv, Located, Resting, InQueue, workerVars, svcVars
<1> QED
  BY <1>4, <1>6, <1>7, <1>8 DEF DrainInv

\* A caller starts a worker: there is a channel for it.
LEMMA StartDrains ==
    ASSUME DrainInv, NEW c \in Callers, StartFor(c),
           NEW to \in {"send", "resend"}, cpc' = [cpc EXCEPT ![c] = to],
           cpc[c] = IF to = "send" THEN "start" ELSE "retry",
           UNCHANGED <<queue, closed, current, written, replied, down>>
    PROVE  DrainInv'
<1>1. TypeOK
  BY DEF DrainInv
<1>2. /\ Entered \subseteq Entered' /\ Entered' \subseteq Entered \cup {c}
      /\ Retried \subseteq Retried' /\ Retried' \subseteq Callers /\ Entered' \subseteq Callers
      /\ c \in Entered' /\ (c \in Retried' <=> to = "resend")
  <2>1. /\ c \in Entered => to \notin {"ensure", "start"}
        /\ c \in Retried => to \notin {"ensure", "start", "send", "retry"}
    BY DEF Entered, Retried
  <2> QED
    BY <1>1, <2>1, CountsGrow DEF TypeOK
<1>3. IF to = "send" THEN c \in Entered' \ Entered ELSE c \in Retried' \ Retried
  BY <1>2 DEF Entered, Retried
<1>4. started + 1 <= Cardinality(Entered') + Cardinality(Retried')
      /\ started \in Nat /\ started + 1 <= Cardinality(Chans)
  <2> DEFINE x == Cardinality(Entered)
             y == Cardinality(Retried)
             u == Cardinality(Entered')
             v == Cardinality(Retried')
             n == Cardinality(Callers)
  <2>1. x \in Nat /\ u \in Nat /\ x <= u /\ (to = "send" => x + 1 <= u)
    BY <1>2, <1>3, CallersCounted
  <2>2. y \in Nat /\ v \in Nat /\ y <= v /\ (to = "resend" => y + 1 <= v)
    BY <1>2, <1>3, CallersCounted
  <2>3. u <= n /\ v <= n /\ n \in Nat
    BY <1>2, CallersCounted, ChansAre
  <2>4. started \in Nat /\ started <= x + y
    BY <1>1, ChansAre DEF TypeOK, DrainInv, StartsCounted
  <2>5. Cardinality(Chans) = 2 * n
    BY ChansAre
  <2> HIDE DEF x, y, u, v, n
  <2>6. started + 1 <= u + v /\ started + 1 <= 2 * n
    BY <2>1, <2>2, <2>3, <2>4
  <2> QED
    BY <2>4, <2>5, <2>6 DEF u, v
<1>5. started + 1 \in Chans /\ started' = started + 1
  BY <1>4, ChansAre DEF StartFor
<1>6. TypeOK'
  <2>1. cpc' \in [Callers -> {"idle", "ensure", "start", "send", "retry",
                            "resend", "wait", "late", "answered", "failed"}]
    BY <1>1 DEF TypeOK
  <2>2. chan' \in [Callers -> {0} \cup Chans]
    BY <1>1, <1>5 DEF TypeOK, StartFor
  <2>3. wpc' \in [Chans -> {"none", "waiting", "handling", "draining", "leaving", "gone"}]
    BY <1>1, <1>5 DEF TypeOK, StartFor
  <2>4. started' \in 0..Cardinality(Chans) /\ sender' \in Chans /\ worker' \in Chans
    BY <1>4, <1>5, ChansAre DEF StartFor
  <2> QED
    BY <1>1, <2>1, <2>2, <2>3, <2>4 DEF TypeOK
<1>7. StartsCounted'
  BY <1>4, <1>5 DEF StartsCounted
<1>8. HasChannel'
  <2>1. ASSUME NEW d \in Callers, d \in Entered' PROVE chan'[d] \in Chans
    BY <1>1, <1>2, <1>5, <2>1 DEF DrainInv, HasChannel, TypeOK, StartFor
  <2> QED
    BY <2>1 DEF HasChannel
<1>9. Located'
  <2>1. ASSUME NEW d \in Callers, NEW k \in Chans, Waits(d, k)' PROVE Waits(d, k)
    BY <1>1, <2>1 DEF Waits, Waiting, TypeOK, StartFor
  <2> QED
    BY <2>1 DEF DrainInv, Located, InQueue
<1>10. Resting'
  <2>1. wpc[started + 1] = "none" /\ current[started + 1] = {}
    BY <1>4, <1>5 DEF DrainInv, Resting
  <2>2. \A k \in Chans : wpc'[k] = IF k = started + 1 THEN "waiting" ELSE wpc[k]
    BY <1>1, <1>5 DEF StartFor, TypeOK
  <2>3. \A k \in Chans : k \in Nat
    BY ChansAre
  <2> QED
    BY <1>4, <1>5, <2>1, <2>2, <2>3 DEF DrainInv, Resting
<1> QED
  BY <1>6, <1>7, <1>8, <1>9, <1>10 DEF DrainInv

\* A task is sent.
LEMMA SendDrains ==
    ASSUME TaskInv, DrainInv, NEW c \in Callers, Send(c) \/ Resend(c)
    PROVE  DrainInv'
<1> DEFINE k == chan[c]
           to == IF wpc[k] = "leaving" THEN "late" ELSE "wait"
<1>1. /\ cpc[c] \in {"send", "resend"} /\ Len(queue[k]) < Capacity
      /\ queue' = [queue EXCEPT ![k] = Append(@, c)]
      /\ cpc' = [cpc EXCEPT ![c] = to] /\ to \in {"wait", "late"}
      /\ UNCHANGED <<svcVars, closed, workerVars, chan, written, replied, down>>
  BY DEF Send, Resend, Enqueue, Accepted
<1> HIDE DEF to
<1>2. TypeOK /\ queue \in [Chans -> Seq(Callers)] /\ Capacity \in Nat
  BY CapacityAssumption DEF DrainInv, TaskInv, TasksFit
<1>3. k \in Chans
  BY <1>1 DEF DrainInv, HasChannel, Entered
<1>4. /\ Entered \subseteq Entered' /\ Entered' \subseteq Entered \cup {c}
      /\ Retried \subseteq Retried' /\ Retried' \subseteq Callers /\ Entered' \subseteq Callers
  <2>1. /\ c \in Entered => to \notin {"ensure", "start"}
        /\ c \in Retried => to \notin {"ensure", "start", "send", "retry"}
    BY <1>1
  <2> QED
    BY <1>1, <1>2, <2>1, CountsGrow DEF TypeOK
<1> HIDE DEF k
<1>5. /\ queue' \in [Chans -> Seq(Callers)]
      /\ \A h \in Chans : h # k => queue'[h] = queue[h]
      /\ queue[k] \in Seq(Callers) /\ queue'[k] = Append(queue[k], c)
  BY <1>1, <1>2, <1>3
<1>6. /\ Len(queue'[k]) = Len(queue[k]) + 1 /\ Len(queue[k]) \in Nat
      /\ \A i \in 1..Len(queue[k]) : queue'[k][i] = queue[k][i]
      /\ queue'[k][Len(queue[k]) + 1] = c
  BY <1>5
<1>7. TypeOK'
  <2>1. cpc' \in [Callers -> {"idle", "ensure", "start", "send", "retry",
                            "resend", "wait", "late", "answered", "failed"}]
    BY <1>1, <1>2 DEF TypeOK
  <2>2. \A h \in Chans : queue'[h] \in Seq(Callers) /\ Len(queue'[h]) <= Capacity
    BY <1>1, <1>2, <1>5, <1>6 DEF TypeOK
  <2> QED
    BY <1>1, <1>2, <2>1, <2>2 DEF TypeOK, svcVars, workerVars
<1>8. StartsCounted'
  <2> DEFINE x == Cardinality(Entered)
             y == Cardinality(Retried)
             u == Cardinality(Entered')
             v == Cardinality(Retried')
  <2>1. x \in Nat /\ u \in Nat /\ x <= u /\ y \in Nat /\ v \in Nat /\ y <= v
    BY <1>4, CallersCounted
  <2>2. started \in Nat /\ started <= x + y /\ started' = started
    BY <1>1, <1>2, ChansAre DEF TypeOK, DrainInv, StartsCounted, svcVars
  <2> HIDE DEF x, y, u, v
  <2>3. started' <= u + v
    BY <2>1, <2>2
  <2> QED
    BY <2>3 DEF StartsCounted, u, v
<1>9. HasChannel'
  <2>1. ASSUME NEW d \in Callers, d \in Entered' PROVE chan'[d] \in Chans
    BY <1>1, <1>3, <1>4, <2>1 DEF DrainInv, HasChannel, k
  <2> QED
    BY <2>1 DEF HasChannel
<1>10. Located'
  <2>1. ASSUME NEW d \in Callers, NEW h \in Chans, Waits(d, h)'
        PROVE  (\E i \in 1..Len(queue'[h]) : queue'[h][i] = d) \/ d \in current[h]
    <3>1. CASE d = c
      <4>1. h = k
        BY <1>1, <2>1, <3>1 DEF Waits, k
      <4>2. Len(queue[k]) + 1 \in 1..Len(queue'[k])
        BY <1>6
      <4> QED
        BY <1>6, <3>1, <4>1, <4>2
    <3>2. CASE d # c
      <4>1. Waits(d, h)
        BY <1>1, <1>2, <2>1, <3>2 DEF Waits, TypeOK
      <4>2. InQueue(d, h) \/ d \in current[h]
        BY <4>1 DEF DrainInv, Located
      <4>3. \A i \in 1..Len(queue[h]) : i \in 1..Len(queue'[h]) /\ queue'[h][i] = queue[h][i]
        BY <1>5, <1>6
      <4> QED
        BY <4>2, <4>3 DEF InQueue
    <3> QED
      BY <3>1, <3>2
  <2>2. current' = current
    BY <1>1 DEF workerVars
  <2> QED
    BY <2>1, <2>2 DEF Located, InQueue
<1>11. Resting'
  BY <1>1 DEF DrainInv, Resting, workerVars, svcVars
<1> QED
  BY <1>7, <1>8, <1>9, <1>10, <1>11 DEF DrainInv

\* What callers do not do leaves their counts and channels alone.
LEMMA ElsewhereDrains ==
    ASSUME DrainInv, UNCHANGED <<started, cpc, chan>>
    PROVE  StartsCounted' /\ HasChannel'
<1>1. Entered' = Entered /\ Retried' = Retried
  BY DEF Entered, Retried
<1> QED
  BY <1>1 DEF DrainInv, StartsCounted, HasChannel

\* A worker takes the first task of its channel.
LEMMA TakeDrains ==
    ASSUME TaskInv, DrainInv, NEW k \in Chans, Receive(k) \/ TakeNext(k)
    PROVE  DrainInv'
<1>1. /\ wpc[k] \in {"waiting", "draining"} /\ wpc' = [wpc EXCEPT ![k] = "handling"]
      /\ queue[k] # <<>> /\ queue' = [queue EXCEPT ![k] = Tail(@)]
      /\ current' = [current EXCEPT ![k] = {Head(queue[k])}]
      /\ UNCHANGED <<svcVars, closed, cpc, chan, written, replied, down>>
  BY DEF Receive, TakeNext, Moves, Take
<1>2. /\ TypeOK /\ queue \in [Chans -> Seq(Callers)]
      /\ current \in [Chans -> SUBSET Callers] /\ Capacity \in Nat
  BY CapacityAssumption DEF DrainInv, TaskInv, TasksFit
<1>3. /\ queue[k] \in Seq(Callers) /\ queue'[k] = Tail(queue[k])
      /\ current'[k] = {Head(queue[k])}
      /\ \A h \in Chans : h # k => queue'[h] = queue[h] /\ current'[h] = current[h]
  BY <1>1, <1>2
<1>4. /\ Tail(queue[k]) \in Seq(Callers) /\ Len(queue[k]) \in Nat \ {0}
      /\ Len(Tail(queue[k])) = Len(queue[k]) - 1
      /\ Head(queue[k]) = queue[k][1] /\ Head(queue[k]) \in Callers
      /\ \A i \in 1..(Len(queue[k]) - 1) : Tail(queue[k])[i] = queue[k][i + 1]
  BY <1>1, <1>3
<1>5. TypeOK'
  <2>1. ASSUME NEW h \in Chans PROVE queue'[h] \in Seq(Callers) /\ Len(queue'[h]) <= Capacity
    <3>1. Len(queue[h]) <= Capacity /\ queue[h] \in Seq(Callers)
      BY <1>2 DEF TypeOK
    <3>2. CASE h # k
      BY <1>3, <3>1, <3>2
    <3>3. CASE h = k
      <4> DEFINE m == Len(queue[k])
                 n == Len(Tail(queue[k]))
      <4>1. m \in Nat /\ n = m - 1 /\ m <= Capacity
        BY <1>4, <3>1, <3>3
      <4> HIDE DEF m, n
      <4>2. n <= Capacity
        BY <1>2, <4>1
      <4> QED
        BY <1>3, <1>4, <3>3, <4>2 DEF n
    <3> QED
      BY <3>2, <3>3
  <2>2. ASSUME NEW h \in Chans
        PROVE  current'[h] \subseteq Callers /\ Cardinality(current'[h]) <= 1
    <3>1. CASE h # k
      BY <1>2, <1>3, <3>1 DEF TypeOK
    <3>2. CASE h = k
      <4>1. current'[h] = {Head(queue[k])} /\ Head(queue[k]) \in Callers
        BY <1>3, <1>4, <3>2
      <4>2. Cardinality({Head(queue[k])}) = 1
        BY FS_Singleton
      <4> QED
        BY <4>1, <4>2
    <3> QED
      BY <3>1, <3>2
  <2>3. wpc' \in [Chans -> {"none", "waiting", "handling", "draining", "leaving", "gone"}]
    BY <1>1, <1>2 DEF TypeOK
  <2> QED
    BY <1>1, <1>2, <2>1, <2>2, <2>3 DEF TypeOK, svcVars
<1>6. StartsCounted' /\ HasChannel'
  BY <1>1, ElsewhereDrains DEF svcVars
<1>7. Located'
  <2>1. ASSUME NEW d \in Callers, NEW h \in Chans, Waits(d, h)'
        PROVE  (\E i \in 1..Len(queue'[h]) : queue'[h][i] = d) \/ d \in current'[h]
    <3>1. Waits(d, h)
      BY <1>1, <2>1 DEF Waits
    <3>2. InQueue(d, h) \/ d \in current[h]
      BY <3>1 DEF DrainInv, Located
    <3>3. CASE h # k
      BY <1>3, <3>2, <3>3 DEF InQueue
    <3>4. CASE h = k
      <4>1. current[k] = {}
        BY <1>1 DEF DrainInv, Resting
      <4>2. PICK i \in 1..Len(queue[k]) : queue[k][i] = d
        BY <3>2, <3>4, <4>1 DEF InQueue
      <4>3. CASE i = 1
        BY <1>3, <1>4, <3>4, <4>2, <4>3
      <4>4. CASE i # 1
        <5>1. /\ i - 1 \in 1..(Len(queue[k]) - 1) /\ (i - 1) + 1 = i
          BY <1>4, <4>4
        <5>2. i - 1 \in 1..Len(queue'[h]) /\ queue'[h][i - 1] = d
          BY <1>3, <1>4, <3>4, <4>2, <5>1
        <5> QED
          BY <5>2
      <4> QED
        BY <4>3, <4>4
    <3> QED
      BY <3>3, <3>4
  <2> QED
    BY <2>1 DEF Located, InQueue
<1>8. Resting'
  <2>1. /\ \A h \in Chans : wpc'[h] = IF h = k THEN "handling" ELSE wpc[h]
        /\ started' = started /\ wpc[k] # "none"
    BY <1>1, <1>2 DEF TypeOK, svcVars
  <2> QED
    BY <1>3, <2>1 DEF DrainInv, Resting
<1> QED
  BY <1>5, <1>6, <1>7, <1>8 DEF DrainInv

LEMMA HandleDrains ==
    ASSUME TaskInv, DrainInv, NEW k \in Chans, Handle(k)
    PROVE  DrainInv'
<1>1. /\ wpc[k] = "handling" /\ wpc' = [wpc EXCEPT ![k] = "draining"]
      /\ replied' = [c \in Callers |-> replied[c] \/ c \in current[k]]
      /\ written' = [c \in Callers |-> IF c \in current[k] THEN written[c] + 1 ELSE written[c]]
      /\ current' = [current EXCEPT ![k] = {}]
      /\ UNCHANGED <<svcVars, queue, closed, cpc, chan, down>>
  BY DEF Handle, Moves
<1>2. TypeOK /\ current \in [Chans -> SUBSET Callers]
  BY DEF DrainInv, TaskInv, TasksFit
<1>3. current'[k] = {} /\ \A h \in Chans : h # k => current'[h] = current[h]
  BY <1>1, <1>2
<1>4. TypeOK'
  <2>1. ASSUME NEW h \in Chans
        PROVE  current'[h] \subseteq Callers /\ Cardinality(current'[h]) <= 1
    <3>1. CASE h # k
      BY <1>2, <1>3, <3>1 DEF TypeOK
    <3>2. CASE h = k
      <4>1. current'[h] = {} /\ Cardinality({}) = 0
        BY <1>3, <3>2, FS_EmptySet
      <4> QED
        BY <4>1
    <3> QED
      BY <3>1, <3>2
  <2>2. wpc' \in [Chans -> {"none", "waiting", "handling", "draining", "leaving", "gone"}]
    BY <1>1, <1>2 DEF TypeOK
  <2>3. written' \in [Callers -> Nat] /\ replied' \in [Callers -> BOOLEAN]
    BY <1>1, <1>2 DEF TypeOK
  <2> QED
    BY <1>1, <1>2, <2>1, <2>2, <2>3 DEF TypeOK, svcVars
<1>5. StartsCounted' /\ HasChannel'
  BY <1>1, ElsewhereDrains DEF svcVars
<1>6. Located'
  <2>1. ASSUME NEW d \in Callers, NEW h \in Chans, Waits(d, h)'
        PROVE  InQueue(d, h) \/ d \in current'[h]
    <3>1. Waits(d, h) /\ d \notin current[k]
      BY <1>1, <2>1 DEF Waits
    <3> QED
      BY <1>3, <3>1 DEF DrainInv, Located
  <2> QED
    BY <1>1, <2>1 DEF Located, InQueue
<1>7. Resting'
  <2>1. /\ \A h \in Chans : wpc'[h] = IF h = k THEN "draining" ELSE wpc[h]
        /\ started' = started /\ wpc[k] # "none"
    BY <1>1, <1>2 DEF TypeOK, svcVars
  <2> QED
    BY <1>3, <2>1 DEF DrainInv, Resting
<1> QED
  BY <1>4, <1>5, <1>6, <1>7 DEF DrainInv

LEMMA DrainInductive == TaskInv /\ DrainInv /\ [Next]_vars => DrainInv'
<1> SUFFICES ASSUME TaskInv, DrainInv, [Next]_vars PROVE DrainInv'
  OBVIOUS
<1>1. TypeOK
  BY DEF DrainInv
<1>2. ASSUME NEW c \in Callers, EnsureStart(c) PROVE DrainInv'
  <2>1. CASE ValidSender
    BY <1>2, <2>1, MoveDrains
  <2>2. CASE ~ValidSender
    <3> DEFINE to == "send"
    <3>1. /\ StartFor(c) /\ cpc' = [cpc EXCEPT ![c] = to] /\ cpc[c] = "start"
          /\ UNCHANGED <<queue, closed, current, written, replied, down>>
      BY <1>2, <2>2 DEF EnsureStart, Goes
    <3> QED
      BY <3>1, StartDrains
  <2> QED
    BY <2>1, <2>2
<1>3. ASSUME NEW c \in Callers, Restart(c) PROVE DrainInv'
  <2>1. /\ StartFor(c) /\ cpc' = [cpc EXCEPT ![c] = "resend"] /\ cpc[c] = "retry"
        /\ UNCHANGED <<queue, closed, current, written, replied, down>>
    BY <1>3 DEF Restart, Goes
  <2> QED
    BY <2>1, StartDrains
<1>4. ASSUME NEW c \in Callers,
             Call(c) \/ Ensure(c) \/ SendFails(c) \/ ResendFails(c) \/ Answered(c)
      PROVE  DrainInv'
  BY <1>4, MoveDrains
<1>5. ASSUME NEW c \in Callers, Send(c) \/ Resend(c) PROVE DrainInv'
  BY <1>5, SendDrains
<1>6. ASSUME NEW k \in Chans, Receive(k) \/ TakeNext(k) PROVE DrainInv'
  BY <1>6, TakeDrains
<1>7. ASSUME NEW k \in Chans, Handle(k) PROVE DrainInv'
  BY <1>7, HandleDrains
<1>8. CASE \/ \E k \in Chans : Leave(k) \/ Drained(k) \/ GoneAway(k)
           \/ ShutdownCloses \/ ShutdownJoins \/ UNCHANGED vars
  <2>1. /\ UNCHANGED <<started, queue, current, written, replied, cpc, chan>>
        /\ sender' \in {0, sender} /\ worker' \in {0, worker}
        /\ down' \in {down, "joining", "done"}
    BY <1>8 DEF Leave, Drained, GoneAway, ShutdownCloses, ShutdownJoins, vars,
       workerVars, svcVars
  <2>2. closed' \in [Chans -> BOOLEAN]
    BY <1>1, <1>8 DEF TypeOK, Leave, Drained, GoneAway, ShutdownCloses, ShutdownJoins,
       vars
  <2>3. /\ wpc' \in [Chans -> {"none", "waiting", "handling", "draining", "leaving", "gone"}]
        /\ \A k \in Chans : wpc'[k] # "handling" => wpc[k] # "handling"
        /\ \A k \in Chans : wpc[k] = "none" => wpc'[k] = "none"
    BY <1>1, <1>8 DEF TypeOK, Leave, Drained, GoneAway, ShutdownCloses, ShutdownJoins,
       vars, Moves, workerVars
  <2>4. TypeOK'
    BY <1>1, <2>1, <2>2, <2>3 DEF TypeOK
  <2>5. StartsCounted' /\ HasChannel'
    BY <2>1, ElsewhereDrains
  <2>6. Located' /\ Resting'
    BY <2>1, <2>3 DEF DrainInv, Located, Resting, Waits, InQueue
  <2> QED
    BY <2>4, <2>5, <2>6 DEF DrainInv
<1> QED
  BY <1>2, <1>3, <1>4, <1>5, <1>6, <1>7, <1>8 DEF Next, CallerStep, WorkerStep

LEMMA ServiceInvariant == Spec => []TaskInv /\ []DrainInv
  BY InitTask, TaskInductive, InitDrains, DrainInductive, PTL DEF Spec

(***************************************************************************)
(* Every variable of the service keeps its type: a channel holds no more   *)
(* than its capacity, and a worker has one task at a time.                 *)
(***************************************************************************)
THEOREM TypeCorrect == Spec => []TypeOK
<1>1. DrainInv => TypeOK
  BY DEF DrainInv
<1> QED
  BY <1>1, ServiceInvariant, PTL

(***************************************************************************)
(* A worker that has left its loop has answered every task that came in    *)
(* time: it leaves with an empty channel and empty hands, and what enters  *)
(* the channel between then and its closing comes late.                    *)
(***************************************************************************)
LeftInv ==
    /\ \A k \in Chans : wpc[k] = "gone" => closed[k]
    /\ \A c \in Callers : \A k \in Chans :
           cpc[c] = "wait" /\ chan[c] = k /\ wpc[k] \in {"leaving", "gone"} => replied[c]

LEMMA LeftInductive == TaskInv /\ DrainInv /\ LeftInv /\ [Next]_vars => LeftInv'
<1> SUFFICES ASSUME TaskInv, DrainInv, LeftInv, [Next]_vars PROVE LeftInv'
  OBVIOUS
<1>1. TypeOK
  BY DEF DrainInv
<1>2. ASSUME NEW c \in Callers,
             \/ Call(c) \/ Ensure(c) \/ EnsureStart(c) \/ SendFails(c) \/ Restart(c)
             \/ ResendFails(c) \/ Answered(c)
      PROVE  LeftInv'
  <2>1. /\ UNCHANGED <<closed, replied>>
        /\ \A d \in Callers : cpc'[d] = "wait" => cpc[d] = "wait" /\ chan'[d] = chan[d]
        /\ \A k \in Chans : wpc'[k] \in {"leaving", "gone"} => wpc'[k] = wpc[k]
    BY <1>1, <1>2 DEF TypeOK, Call, Ensure, EnsureStart, SendFails, Restart, ResendFails,
       Answered, Goes, StartFor, svcVars, workerVars
  <2> QED
    BY <2>1 DEF LeftInv
<1>3. ASSUME NEW c \in Callers, Send(c) \/ Resend(c) PROVE LeftInv'
  <2>1. /\ UNCHANGED <<closed, wpc, chan, replied>> /\ ~closed[chan[c]]
        /\ cpc' = [cpc EXCEPT ![c] = IF wpc[chan[c]] = "leaving" THEN "late" ELSE "wait"]
    BY <1>3 DEF Send, Resend, Enqueue, Accepted, workerVars
  <2>2. chan[c] \in Chans => wpc[chan[c]] # "gone"
    BY <2>1 DEF LeftInv
  <2>3. cpc'[c] = "wait" => wpc[chan[c]] # "leaving"
    BY <1>1, <2>1 DEF TypeOK
  <2>4. \A d \in Callers \ {c} : cpc'[d] = cpc[d]
    BY <1>1, <2>1 DEF TypeOK
  <2> QED
    BY <2>1, <2>2, <2>3, <2>4 DEF LeftInv
<1>4. ASSUME NEW k \in Chans, Receive(k) \/ TakeNext(k) \/ Handle(k) \/ Drained(k)
      PROVE  LeftInv'
  <2>1. /\ UNCHANGED <<closed, cpc, chan>>
        /\ \A c \in Callers : replied[c] => replied'[c]
        /\ \A h \in Chans : wpc'[h] \in {"leaving", "gone"} => wpc'[h] = wpc[h]
    BY <1>1, <1>4 DEF TypeOK, Receive, TakeNext, Handle, Drained, Moves
  <2> QED
    BY <2>1 DEF LeftInv
<1>5. ASSUME NEW k \in Chans, Leave(k) PROVE LeftInv'
  <2>1. /\ UNCHANGED <<closed, cpc, chan, replied>> /\ queue[k] = <<>> /\ wpc[k] = "waiting"
        /\ wpc'[k] = "leaving" /\ \A h \in Chans \ {k} : wpc'[h] = wpc[h]
    BY <1>1, <1>5 DEF TypeOK, Leave, Moves
  <2>2. \A c \in Callers : ~Waits(c, k)
    BY <2>1 DEF DrainInv, Located, Resting, InQueue
  <2>3. \A c \in Callers : cpc[c] = "wait" /\ chan[c] = k => replied[c]
    BY <2>2 DEF Waits, Waiting
  <2> QED
    BY <2>1, <2>3 DEF LeftInv
<1>6. ASSUME NEW k \in Chans, GoneAway(k) PROVE LeftInv'
  <2>1. /\ UNCHANGED <<cpc, chan, replied>> /\ wpc[k] = "leaving"
        /\ \A h \in Chans \ {k} : wpc'[h] = wpc[h]
        /\ closed'[k] /\ \A h \in Chans : closed[h] => closed'[h]
    BY <1>1, <1>6 DEF TypeOK, GoneAway, Moves
  <2> QED
    BY <2>1 DEF LeftInv
<1>7. CASE ShutdownCloses \/ ShutdownJoins \/ UNCHANGED vars
  <2>1. /\ UNCHANGED <<wpc, cpc, chan, replied>>
        /\ \A h \in Chans : closed[h] => closed'[h]
    BY <1>7 DEF ShutdownCloses, ShutdownJoins, vars, workerVars
  <2> QED
    BY <2>1 DEF LeftInv
<1> QED
  BY <1>2, <1>3, <1>4, <1>5, <1>6, <1>7 DEF Next, CallerStep, WorkerStep

LEMMA WorkersLeaveDrained == Spec => []LeftInv
<1>1. Init => LeftInv
  BY DEF Init, LeftInv
<1> QED
  BY <1>1, LeftInductive, ServiceInvariant, PTL DEF Spec

\* The worker that is joined has gone.
LEMMA JoinedIsDrained ==
    ASSUME TaskInv, DrainInv, LeftInv, [Next]_vars, down = "joining", down' = "done",
           NEW c \in Callers, cpc[c] = "wait", chan[c] = worker
    PROVE  written[c] = 1
<1>1. ShutdownJoins
  BY DEF Next, CallerStep, WorkerStep, Call, Ensure, EnsureStart, Send, SendFails, Restart,
     Resend, ResendFails, Answered, Receive, Leave, Handle, TakeNext, Drained, GoneAway,
     ShutdownCloses, vars
<1>2. chan[c] \in Chans
  BY DEF DrainInv, HasChannel, Entered
<1>3. wpc[chan[c]] = "gone"
  BY <1>1, <1>2, ChansAre DEF ShutdownJoins
<1>4. replied[c]
  BY <1>2, <1>3 DEF LeftInv
<1> QED
  BY <1>4 DEF TaskInv, Counted

(***************************************************************************)
(* When shutdown returns, every task that the channel it closed accepted   *)
(* is written, but for those that came after its worker had left its loop: *)
(* a worker never quits on a channel that holds a task, closed or not.     *)
(***************************************************************************)
THEOREM ShutdownAlwaysDrains == Spec => ShutdownDrains
<1> DEFINE Drains ==
        down = "joining" /\ down' = "done" =>
          \A c \in Callers : cpc[c] = "wait" /\ chan[c] = worker => written[c] = 1
<1>1. TaskInv /\ DrainInv /\ LeftInv /\ [Next]_vars => [Drains]_vars
  BY JoinedIsDrained
<1> QED
  BY <1>1, ServiceInvariant, WorkersLeaveDrained, PTL DEF Spec, ShutdownDrains


LEMMA StepOfKv ==
    ASSUME [SumNext]_sumVars
    PROVE  part' = part /\ (part = "kv" => [KV!Next]_(KV!vars))
  BY DEF SumNext, sumVars, IoStep, KvStep, BrStep, PgStep, LfStep, ApiStep, HsStep,
         RpStep, RaStep, RhStep, UpStep, JcStep, kvVars, KV!vars

LEMMA StepOfBrowsers ==
    ASSUME [SumNext]_sumVars
    PROVE  part' = part /\ (part = "browsers" => [BR!Next]_(BR!vars))
  BY DEF SumNext, sumVars, IoStep, KvStep, BrStep, PgStep, LfStep, ApiStep, HsStep,
         RpStep, RaStep, RhStep, UpStep, JcStep, brVars, BR!vars

LEMMA StepOfUpdater ==
    ASSUME [SumNext]_sumVars
    PROVE  part' = part /\ (part = "updater" => [UP!Next]_(UP!vars))
  BY DEF SumNext, sumVars, IoStep, KvStep, BrStep, PgStep, LfStep, ApiStep, HsStep,
         RpStep, RaStep, RhStep, UpStep, JcStep, upVars, UP!vars

LEMMA StepOfPages ==
    ASSUME [SumNext]_sumVars
    PROVE  part' = part /\ (part = "pages" => [PG!Next]_(PG!vars))
  BY DEF SumNext, sumVars, IoStep, KvStep, BrStep, PgStep, LfStep, ApiStep, HsStep,
         RpStep, RaStep, RhStep, UpStep, JcStep, pgVars, PG!vars

LEMMA StepOfConfig ==
    ASSUME [SumNext]_sumVars
    PROVE  part' = part /\ (part = "config" => [JC!Next]_(JC!vars))
  BY DEF SumNext, sumVars, IoStep, KvStep, BrStep, PgStep, LfStep, ApiStep, HsStep,
         RpStep, RaStep, RhStep, UpStep, JcStep, jcVars, JC!vars

(***************************************************************************)
(* KeyValue.  An id ends at its first colon, so the keys of two jobs       *)
(* differ, whatever the ids are and whatever the hooks append.             *)
(***************************************************************************)
LEMMA KeysOfJobsDiffer ==
    ASSUME NEW j \in Jobs, NEW k \in Jobs, NEW m \in KeyNames, NEW n \in KeyNames,
           KV!OwnKey(j, m) = KV!OwnKey(k, n)
    PROVE  j = k
<1> DEFINE s == Id[j]
           t == Id[k]
<1>1. /\ s \in Seq(Char \ {Colon}) /\ t \in Seq(Char \ {Colon})
      /\ m \in Seq(Char) /\ n \in Seq(Char)
      /\ <<Colon>> \in Seq(Char)
  BY StoreAssumption DEF KV!IdAssumption
<1>2. s \in Seq(Char) /\ t \in Seq(Char)
  BY <1>1
<1>3. /\ \A i \in 1..Len(s) : KV!OwnKey(j, m)[i] = s[i]
      /\ KV!OwnKey(j, m)[Len(s) + 1] = Colon
  BY <1>1, <1>2 DEF KV!OwnKey
<1>4. /\ \A i \in 1..Len(t) : KV!OwnKey(k, n)[i] = t[i]
      /\ KV!OwnKey(k, n)[Len(t) + 1] = Colon
  BY <1>1, <1>2 DEF KV!OwnKey
<1>5. /\ \A i \in 1..Len(s) : s[i] # Colon
      /\ \A i \in 1..Len(t) : t[i] # Colon
  BY <1>1
<1>6. Len(s) \in Nat /\ Len(t) \in Nat
  BY <1>1
<1>7. Len(s) = Len(t)
  <2>1. ~(Len(s) < Len(t))
    BY <1>3, <1>4, <1>5, <1>6
  <2>2. ~(Len(t) < Len(s))
    BY <1>3, <1>4, <1>5, <1>6
  <2> QED
    BY <2>1, <2>2, <1>6
<1>8. s = t
  <2>1. \A i \in 1..Len(s) : s[i] = t[i]
    BY <1>3, <1>4, <1>7
  <2> QED
    BY <2>1, <1>1, <1>7, SeqEqual
<1> QED
  BY <1>8, StoreAssumption DEF KV!IdAssumption

KeysOf(j) == {KV!OwnKey(j, n) : n \in KeyNames}

LEMMA KeysOfDisjoint ==
    ASSUME NEW j \in Jobs, NEW k \in Jobs, j # k
    PROVE  KeysOf(j) \cap KeysOf(k) = {}
  BY KeysOfJobsDiffer DEF KeysOf

(***************************************************************************)
(* The inductive invariant.  Owned: a call or an entry that went through   *)
(* the prefix of a job has a key of that job, in the hooks, the strays,    *)
(* the table and the table a ROLLBACK restores.  Alone: a hook holds the   *)
(* VM of its job, so that no other hook of the job runs.                   *)
(***************************************************************************)
OwnCall(c) ==
    /\ c.by \in Jobs
    /\ c.own => c.key \in KeysOf(c.by) /\ c.op \in {"get", "set", "delete"}
    /\ c.op = "get" => c.own

OwnTable(t) ==
    \A k \in DOMAIN t : t[k].own => t[k].by \in Jobs /\ k \in KeysOf(t[k].by)

Shape ==
    /\ DOMAIN hook = Workers
    /\ \A w \in Workers : DOMAIN hook[w] = {"at", "call", "key", "val"}
    /\ disturbed \in [Workers -> BOOLEAN]
    /\ DOMAIN vm = Jobs

Owned ==
    /\ \A w \in Workers :
           /\ hook[w].at \in {"queued", "running"}
              => OwnCall(hook[w].call) /\ hook[w].call.by = JobOf[w]
           /\ hook[w].key # None => hook[w].key \in KeysOf(JobOf[w])
    /\ \A c \in strays : OwnCall(c)
    /\ OwnTable(kv)
    /\ held # None => OwnTable(held.table)

Alone ==
    \A w \in Workers :
        /\ hook[w].at # "out" => vm[JobOf[w]] = w
        /\ hook[w].key # None => hook[w].at # "out"

StoreInv == Shape /\ Owned /\ Alone /\ KV!UpdateKept

LEMMA InitStore == KV!Init => StoreInv
<1> SUFFICES ASSUME KV!Init PROVE StoreInv
  OBVIOUS
<1>1. Shape
  BY DEF KV!Init, Shape, KV!Out
<1>2. Owned
  BY DEF KV!Init, Owned, OwnTable, KV!Out
<1>3. Alone /\ KV!UpdateKept
  BY DEF KV!Init, Alone, KV!UpdateKept, KV!Out
<1> QED
  BY <1>1, <1>2, <1>3 DEF StoreInv

\* The calls a hook may make are its job's own.
LEMMA CallsAreOwn ==
    ASSUME StoreInv, NEW w \in Workers, NEW c \in KV!CallsOf(w)
    PROVE  OwnCall(c) /\ c.by = JobOf[w]
<1>1. JobOf[w] \in Jobs
  BY StoreAssumption DEF KV!IdAssumption
<1>2. hook[w].key # None => hook[w].key \in KeysOf(JobOf[w])
  BY DEF StoreInv, Owned
<1> QED
  BY <1>1, <1>2 DEF KV!CallsOf, KV!Call, OwnCall, KeysOf

\* A call keeps the tables owned.
LEMMA EffectOwned ==
    ASSUME OwnTable(kv), held # None => OwnTable(held.table),
           NEW c, OwnCall(c), KV!TakesEffect(c)
    PROVE  OwnTable(kv') /\ (held' # None => OwnTable(held'.table))
<1>1. ASSUME NEW val PROVE OwnTable(KV!Put(c, val))
  BY DEF KV!Put, OwnTable, OwnCall
<1>2. OwnTable([k \in DOMAIN kv \ {c.key} |-> kv[k]])
  BY DEF OwnTable
<1>3. OwnTable(KV!After(c))
  BY <1>1, <1>2 DEF KV!After
<1>4. KV!HeldAfter(c) # None => OwnTable(KV!HeldAfter(c).table)
  BY DEF KV!HeldAfter
<1> QED
  BY <1>3, <1>4 DEF KV!TakesEffect

\* A call through the prefix leaves the keys of other jobs alone.
LEMMA EffectElsewhere ==
    ASSUME NEW c, OwnCall(c), c.own,
           NEW j \in Jobs, j # c.by, NEW key \in KeysOf(j)
    PROVE  KV!Lookup(KV!After(c), key) = KV!Lookup(kv, key)
<1>1. key # c.key
  BY KeysOfDisjoint DEF OwnCall
<1>2. ASSUME NEW val PROVE KV!Lookup(KV!Put(c, val), key) = KV!Lookup(kv, key)
  BY <1>1 DEF KV!Put, KV!Lookup
<1>3. KV!Lookup([k \in DOMAIN kv \ {c.key} |-> kv[k]], key) = KV!Lookup(kv, key)
  BY <1>1 DEF KV!Lookup
<1> QED
  BY <1>2, <1>3 DEF KV!After, OwnCall

\* The step of a hook's call: what it changes, it changes in its own keys, or
\* it disturbs.
LEMMA RunKeeps ==
    ASSUME StoreInv, NEW w \in Workers, KV!Run(w)
    PROVE  StoreInv'
<1> DEFINE c == hook[w].call
           ends == c.own /\ c.op # "get"
<1> USE DEF StoreInv, Shape
<1>1. OwnCall(c) /\ c.by = JobOf[w] /\ hook[w].at = "running"
  BY DEF Owned, KV!Run
<1>2. OwnTable(kv') /\ (held' # None => OwnTable(held'.table))
  BY <1>1, EffectOwned DEF Owned, KV!Run
<1>3. \A u \in Workers \ {w} : hook'[u] = hook[u]
  BY DEF KV!Run
<1>4. /\ hook'[w].at = "in" /\ hook'[w].call = None
      /\ c.op = "get" => hook'[w].key = c.key
                         /\ hook'[w].val = IF open THEN KV!Lookup(kv, c.key) ELSE None
      /\ ends => hook'[w].key = None
      /\ c.op # "get" /\ ~ends => hook'[w].key = hook[w].key /\ hook'[w].val = hook[w].val
  BY DEF KV!Run
<1>5. Shape'
  BY DEF KV!Run
<1>6. Owned'
  BY <1>1, <1>2, <1>3, <1>4 DEF Owned, KV!Run, OwnCall
<1>7. Alone'
  BY <1>1, <1>3, <1>4 DEF Alone, KV!Run
<1>8. /\ kv' = KV!After(c)
      /\ \A u \in Workers : ~disturbed'[u] /\ (u # w \/ (c.op # "get" /\ ~ends))
                            => ~disturbed[u] /\ (c.own \/ ~KV!Disturbs(c, u))
      /\ open' = open
  BY <1>1 DEF KV!Run, KV!TakesEffect, OwnCall
<1>9. KV!UpdateKept'
  <2> SUFFICES ASSUME open, NEW u \in Workers, hook'[u].key # None, ~disturbed'[u]
               PROVE  KV!Lookup(kv', hook'[u].key) = hook'[u].val
    BY <1>8 DEF KV!UpdateKept
  <2>1. CASE u = w /\ c.op = "get"
    BY <2>1, <1>4, <1>8 DEF KV!After
  <2>2. CASE u = w /\ c.op # "get"
    BY <2>2, <1>4, <1>8 DEF KV!UpdateKept, KV!Disturbs
  <2>3. CASE u # w /\ ~c.own
    BY <2>3, <1>3, <1>8 DEF KV!UpdateKept, KV!Disturbs
  <2>4. CASE u # w /\ c.own
    <3>1. JobOf[u] # JobOf[w]
      BY <2>4, <1>1, <1>3 DEF Alone
    <3>2. hook[u].key \in KeysOf(JobOf[u]) /\ JobOf[u] \in Jobs
      BY <2>4, <1>3, StoreAssumption DEF Owned, KV!IdAssumption
    <3>3. KV!Lookup(KV!After(c), hook[u].key) = KV!Lookup(kv, hook[u].key)
      BY <3>1, <3>2, <2>4, <1>1, EffectElsewhere
    <3> QED
      BY <3>3, <2>4, <1>3, <1>8 DEF KV!UpdateKept
  <2> QED
    BY <2>1, <2>2, <2>3, <2>4
<1> QED
  BY <1>5, <1>6, <1>7, <1>9

LEMMA StoreInductive ==
    ASSUME StoreInv, [KV!Next]_(KV!vars)
    PROVE  StoreInv'
<1> USE DEF StoreInv, Shape
<1>1. ASSUME NEW w \in Workers, KV!Enter(w) PROVE StoreInv'
  <2>1. Shape' /\ Owned'
    BY <1>1 DEF KV!Enter, Owned
  <2>2. \A u \in Workers :
            /\ hook'[u].key = hook[u].key /\ hook'[u].val = hook[u].val
            /\ u # w => hook'[u].at = hook[u].at
    BY <1>1 DEF KV!Enter
  <2>3. \A u \in Workers : hook[u].at # "out" => u # w /\ JobOf[u] # JobOf[w]
    BY <1>1, StoreAssumption DEF KV!Enter, Alone, KV!IdAssumption
  <2>4. vm'[JobOf[w]] = w /\ \A j \in Jobs \ {JobOf[w]} : vm'[j] = vm[j]
    BY <1>1, StoreAssumption DEF KV!Enter, KV!IdAssumption
  <2>5. Alone'
    BY <2>2, <2>3, <2>4, StoreAssumption DEF Alone, KV!IdAssumption
  <2>6. KV!UpdateKept'
    BY <1>1, <2>2 DEF KV!Enter, KV!UpdateKept
  <2> QED
    BY <2>1, <2>5, <2>6
<1>2. ASSUME NEW w \in Workers, KV!Leave(w) PROVE StoreInv'
  <2>1. Shape' /\ Owned'
    BY <1>2 DEF KV!Leave, Owned, KV!Out
  <2>2. Alone'
    BY <1>2, StoreAssumption DEF KV!Leave, Alone, KV!Out, KV!IdAssumption
  <2>3. KV!UpdateKept'
    BY <1>2 DEF KV!Leave, KV!UpdateKept, KV!Out
  <2> QED
    BY <2>1, <2>2, <2>3
<1>3. ASSUME NEW w \in Workers, KV!Queue(w) PROVE StoreInv'
  <2>1. PICK c \in KV!CallsOf(w) :
            hook' = [hook EXCEPT ![w].at = "queued", ![w].call = c]
    BY <1>3 DEF KV!Queue
  <2>2. OwnCall(c) /\ c.by = JobOf[w]
    BY CallsAreOwn
  <2>3. Shape' /\ Owned'
    BY <1>3, <2>1, <2>2 DEF KV!Queue, Owned
  <2>4. Alone' /\ KV!UpdateKept'
    BY <1>3, <2>1 DEF KV!Queue, Alone, KV!UpdateKept
  <2> QED
    BY <2>3, <2>4
<1>4. ASSUME NEW w \in Workers, KV!Start(w) PROVE StoreInv'
  BY <1>4 DEF KV!Start, Owned, Alone, KV!UpdateKept
<1>5. ASSUME NEW w \in Workers, KV!Run(w) PROVE StoreInv'
  BY <1>5, RunKeeps
<1>6. CASE KV!Reload
  <2>1. Shape' /\ Alone' /\ KV!UpdateKept'
    BY <1>6 DEF KV!Reload, Alone, KV!UpdateKept, KV!Out
  <2>2. Owned'
    BY <1>6 DEF KV!Reload, Owned, KV!Out
  <2> QED
    BY <2>1, <2>2
<1>7. CASE KV!Stray
  <2>1. PICK c \in strays : KV!TakesEffect(c) /\ strays' = strays \ {c}
                            /\ disturbed' = [u \in Workers |-> disturbed[u] \/ KV!Disturbs(c, u)]
                            /\ UNCHANGED <<kvEngine, open, vm, hook, calls, kvReloads>>
    BY <1>7 DEF KV!Stray
  <2>2. OwnTable(kv') /\ (held' # None => OwnTable(held'.table))
    BY <2>1, EffectOwned DEF Owned
  <2>3. Shape' /\ Owned' /\ Alone'
    BY <2>1, <2>2 DEF Owned, Alone
  <2>4. KV!UpdateKept'
    BY <2>1 DEF KV!UpdateKept, KV!TakesEffect, KV!Disturbs
  <2> QED
    BY <2>3, <2>4
<1>8. CASE KV!Close
  <2>1. Shape' /\ Alone' /\ KV!UpdateKept'
    BY <1>8 DEF KV!Close, Alone, KV!UpdateKept
  <2>2. Owned'
    BY <1>8 DEF KV!Close, Owned
  <2> QED
    BY <2>1, <2>2
<1>9. CASE UNCHANGED KV!vars
  BY <1>9 DEF KV!vars, Owned, OwnTable, Alone, KV!UpdateKept
<1> QED
  BY <1>1, <1>2, <1>3, <1>4, <1>5, <1>6, <1>7, <1>8, <1>9 DEF KV!Next

LEMMA StoreInvariant == SumSpec => [](part = "kv" => StoreInv)
<1>1. SumInit => (part = "kv" => StoreInv)
  BY InitStore DEF SumInit
<1>2. (part = "kv" => StoreInv) /\ [SumNext]_sumVars => (part = "kv" => StoreInv)'
  BY StoreInductive, StepOfKv
<1> QED
  BY <1>1, <1>2, PTL DEF SumSpec

\* The types of the store: SQL's BEGIN comes from a hook of a sqlite build, and
\* a hook that has read no key is not disturbed.
BeginsInSqlite ==
    /\ \A w \in Workers :
           hook[w].at \in {"queued", "running"} /\ hook[w].call.op = "begin"
           => kvEngine = "sqlite"
    /\ \A c \in strays : c.op = "begin" => kvEngine = "sqlite"

StoreTyped == KV!TypeOK /\ BeginsInSqlite

LEMMA CallsAreCalls ==
    ASSUME StoreInv, NEW w \in Workers, NEW c \in KV!CallsOf(w)
    PROVE  c # None /\ (c.op = "begin" => kvEngine = "sqlite")
<1> DEFINE Good(x) == x \in KV!Calls /\ (x.op = "begin" => kvEngine = "sqlite")
           j == JobOf[w]
           next == IF hook[w].val \in Nat THEN hook[w].val + 1 ELSE 0
<1>1. j \in Jobs /\ next \in Nat
  BY StoreAssumption DEF KV!IdAssumption
<1>2. \A n \in KeyNames : KV!OwnKey(j, n) \in Seq(Char)
  <2> SUFFICES ASSUME NEW n \in KeyNames PROVE KV!OwnKey(j, n) \in Seq(Char)
    OBVIOUS
  <2>1. Id[j] \in Seq(Char \ {Colon}) /\ Colon \in Char /\ n \in Seq(Char)
    BY <1>1, StoreAssumption DEF KV!IdAssumption
  <2>2. Id[j] \in Seq(Char)
    BY <2>1
  <2> HIDE DEF j
  <2>3. Id[j] \o <<Colon>> \in Seq(Char)
    BY <2>1, <2>2
  <2> QED
    BY <2>1, <2>3 DEF KV!OwnKey
<1>3. hook[w].key # None => hook[w].key \in Seq(Char)
  BY <1>2 DEF StoreInv, Owned, KeysOf
<1>4. \A n \in GlobalNames : n \in Seq(Char)
  BY StoreAssumption DEF KV!IdAssumption
<1>5. ASSUME NEW op \in {"get", "set", "delete", "incr", "begin", "rollback", "commit"},
             op = "begin" => kvEngine = "sqlite",
             NEW key \in Seq(Char) \cup {None}, NEW val \in Nat \cup {Text, None}
      PROVE  /\ Good(KV!Call(op, j, key, TRUE, val))
             /\ Good(KV!Call(op, j, key, FALSE, val))
  BY <1>1, <1>5 DEF KV!Call, KV!Calls
<1> HIDE DEF Good, j, next
<1>7. \A n \in KeyNames : Good(KV!Call("get", j, KV!OwnKey(j, n), TRUE, None))
  BY <1>2, <1>5
<1>8. hook[w].key # None => Good(KV!Call("set", j, hook[w].key, TRUE, next))
                            /\ Good(KV!Call("delete", j, hook[w].key, TRUE, None))
  BY <1>1, <1>3, <1>5
<1>9. \A n \in GlobalNames : Good(KV!Call("set", j, n, FALSE, Text))
                             /\ Good(KV!Call("incr", j, n, FALSE, None))
  BY <1>4, <1>5
<1>10. kvEngine = "sqlite" => \A op \in {"begin", "rollback", "commit"} :
           Good(KV!Call(op, j, None, FALSE, None))
  BY <1>5
<1>11. Good(c)
  BY <1>7, <1>8, <1>9, <1>10 DEF KV!CallsOf, j, next
<1>12. None \notin KV!Calls
  BY StoreAssumption DEF KV!IdAssumption
<1> QED
  BY <1>11, <1>12 DEF Good

LEMMA HeldIsTyped ==
    ASSUME held # None => kvEngine = "sqlite" /\ open,
           NEW c, c.op = "begin" => kvEngine = "sqlite",
           KV!TakesEffect(c)
    PROVE  held' # None => kvEngine = "sqlite" /\ open
  BY DEF KV!TakesEffect, KV!HeldAfter

LEMMA InitTyped == KV!Init => StoreTyped
  BY StoreAssumption DEF KV!Init, KV!Out, KV!IdAssumption, StoreTyped, BeginsInSqlite,
     KV!TypeOK

LEMMA RunIsTyped ==
    ASSUME StoreInv, StoreTyped, NEW w \in Workers, KV!Run(w)
    PROVE  StoreTyped'
<1> DEFINE c == hook[w].call
           ends == c.own /\ c.op # "get"
<1>1. hook[w].at = "running" /\ DOMAIN hook = Workers
      /\ \A u \in Workers : DOMAIN hook[u] = {"at", "call", "key", "val"}
  BY DEF KV!Run, StoreInv, Shape
<1>2. \A u \in Workers \ {w} : hook'[u] = hook[u]
  BY <1>1 DEF KV!Run
<1>3. /\ hook'[w].at = "in" /\ hook'[w].call = None
      /\ c.op # "get" /\ ~ends => hook'[w].key = hook[w].key
  BY <1>1 DEF KV!Run
<1>4. c.op = "begin" => kvEngine = "sqlite"
  BY <1>1 DEF StoreTyped, BeginsInSqlite
<1>5. held' # None => kvEngine = "sqlite" /\ open
  <2>1. KV!TakesEffect(c) /\ (held # None => kvEngine = "sqlite" /\ open)
    BY DEF KV!Run, StoreTyped, KV!TypeOK
  <2> HIDE DEF c
  <2> QED
    BY <2>1, <1>4, HeldIsTyped
<1>6. UNCHANGED <<kvEngine, open, vm, strays, calls, kvReloads>>
  BY DEF KV!Run
<1>7. \A u \in Workers : disturbed'[u] => hook'[u].key # None
  <2> SUFFICES ASSUME NEW u \in Workers, disturbed'[u] PROVE hook'[u].key # None
    OBVIOUS
  <2>1. /\ ~(u = w /\ (ends \/ c.op = "get"))
        /\ disturbed[u] \/ KV!Disturbs(c, u)
    BY DEF KV!Run
  <2>2. hook[u].key # None
    BY <2>1 DEF StoreTyped, KV!TypeOK, KV!Disturbs
  <2> QED
    BY <2>1, <2>2, <1>2, <1>3
<1>8. \A u \in Workers : /\ hook'[u].at \in {"out", "in", "queued", "running"}
                         /\ hook'[u].at \in {"queued", "running"} <=> hook'[u].call # None
  BY <1>2, <1>3 DEF StoreTyped, KV!TypeOK
<1>9. KV!TypeOK'
  BY <1>5, <1>6, <1>7, <1>8 DEF StoreTyped, KV!TypeOK
<1>10. BeginsInSqlite'
  BY <1>2, <1>3, <1>6 DEF StoreTyped, BeginsInSqlite
<1> QED
  BY <1>9, <1>10 DEF StoreTyped

LEMMA TypedInductive ==
    ASSUME StoreInv, StoreTyped, [KV!Next]_(KV!vars)
    PROVE  StoreTyped'
<1> USE DEF StoreInv, Shape, StoreTyped, BeginsInSqlite, KV!TypeOK
<1>1. ASSUME NEW w \in Workers, KV!Enter(w) PROVE StoreTyped'
  BY <1>1 DEF KV!Enter
<1>2. ASSUME NEW w \in Workers, KV!Leave(w) PROVE StoreTyped'
  BY <1>2 DEF KV!Leave, KV!Out
<1>3. ASSUME NEW w \in Workers, KV!Queue(w) PROVE StoreTyped'
  <2>1. PICK c \in KV!CallsOf(w) :
            hook' = [hook EXCEPT ![w].at = "queued", ![w].call = c]
    BY <1>3 DEF KV!Queue
  <2>2. c # None /\ (c.op = "begin" => kvEngine = "sqlite")
    BY CallsAreCalls
  <2>3. calls' \in 0..MaxCalls
    BY <1>3, StoreAssumption DEF KV!Queue, KV!IdAssumption
  <2>4. /\ \A u \in Workers \ {w} : hook'[u] = hook[u]
        /\ hook'[w].at = "queued" /\ hook'[w].call = c /\ hook'[w].key = hook[w].key
    BY <2>1
  <2>5. UNCHANGED <<kvEngine, kv, held, open, vm, strays, disturbed, kvReloads>>
    BY <1>3 DEF KV!Queue
  <2> QED
    BY <2>2, <2>3, <2>4, <2>5
<1>4. ASSUME NEW w \in Workers, KV!Start(w) PROVE StoreTyped'
  BY <1>4 DEF KV!Start
<1>5. ASSUME NEW w \in Workers, KV!Run(w) PROVE StoreTyped'
  BY <1>5, RunIsTyped
<1>6. CASE KV!Reload
  <2>1. kvReloads' \in 0..StoreReloads
    BY <1>6, StoreAssumption DEF KV!Reload, KV!IdAssumption
  <2>2. \A u \in Workers : hook'[u] = KV!Out /\ ~disturbed'[u]
    BY <1>6 DEF KV!Reload
  <2>3. \A c \in strays' : c.op = "begin" => kvEngine = "sqlite"
    BY <1>6 DEF KV!Reload
  <2> QED
    BY <1>6, <2>1, <2>2, <2>3 DEF KV!Reload, KV!Out
<1>7. CASE KV!Stray
  <2>1. PICK c \in strays : KV!TakesEffect(c) /\ strays' = strays \ {c}
                            /\ disturbed' = [u \in Workers |-> disturbed[u] \/ KV!Disturbs(c, u)]
                            /\ UNCHANGED <<kvEngine, open, vm, hook, calls, kvReloads>>
    BY <1>7 DEF KV!Stray
  <2>2. held' # None => kvEngine = "sqlite" /\ open
    BY <2>1, HeldIsTyped
  <2> QED
    BY <2>1, <2>2 DEF KV!Disturbs
<1>8. CASE KV!Close
  BY <1>8 DEF KV!Close
<1>9. CASE UNCHANGED KV!vars
  BY <1>9 DEF KV!vars
<1> QED
  BY <1>1, <1>2, <1>3, <1>4, <1>5, <1>6, <1>7, <1>8, <1>9 DEF KV!Next

LEMMA StoreTypes == SumSpec => [](part = "kv" => KV!TypeOK)
<1>1. SumInit => (part = "kv" => StoreTyped)
  BY InitTyped DEF SumInit
<1>2. (part = "kv" => StoreInv) /\ (part = "kv" => StoreTyped) /\ [SumNext]_sumVars
      => (part = "kv" => StoreTyped)'
  BY TypedInductive, StepOfKv
<1>3. (part = "kv" => StoreTyped) => (part = "kv" => KV!TypeOK)
  BY DEF StoreTyped
<1> QED
  BY <1>1, <1>2, <1>3, StoreInvariant, PTL DEF SumSpec

(***************************************************************************)
(* What a job's prefixed keys hold was stored by that job or through the   *)
(* global functions, for any ids without a colon and any keys.             *)
(***************************************************************************)
THEOREM KeysAreIsolated == SumSpec => []Isolated
<1>1. StoreInv => KV!Isolated
  <2> SUFFICES ASSUME StoreInv, NEW j \in Jobs, NEW n \in KeyNames,
                      KV!OwnKey(j, n) \in DOMAIN kv, kv[KV!OwnKey(j, n)].own
               PROVE  kv[KV!OwnKey(j, n)].by = j
    BY DEF KV!Isolated
  <2>1. /\ kv[KV!OwnKey(j, n)].by \in Jobs
        /\ KV!OwnKey(j, n) \in KeysOf(kv[KV!OwnKey(j, n)].by)
    BY DEF StoreInv, Owned, OwnTable
  <2>2. KV!OwnKey(j, n) \in KeysOf(j)
    BY DEF KeysOf
  <2> QED
    BY <2>1, <2>2, KeysOfDisjoint
<1>2. (part = "kv" => StoreInv) => Isolated
  BY <1>1 DEF Isolated
<1> QED
  BY <1>2, StoreInvariant, PTL

(***************************************************************************)
(* No hook loses an update of a key of its job to another hook, for any    *)
(* number of jobs, workers and reloads, but for the disturbances it names. *)
(***************************************************************************)
THEOREM UpdatesAreKept == SumSpec => []UpdateKept
<1>1. (part = "kv" => StoreInv) => UpdateKept
  BY DEF StoreInv, UpdateKept
<1> QED
  BY <1>1, StoreInvariant, PTL

-----------------------------------------------------------------------------
(***************************************************************************)
(* Browsers.  Fresh: who has not started has nothing, and the registry     *)
(* knows nobody before step 6.  Locked: a directory has one lock, and who  *)
(* runs and is owned holds it.                                             *)
(***************************************************************************)
Fresh ==
    \A b \in Browsers :
        /\ brAt[b] = "none" => b \notin lock \cup running
        /\ brAt[b] = "none" \/ BR!Launching(b) => b \notin child \cup registry
        /\ b \in leaked => brAt[b] = "gone"

Locked ==
    /\ \A a, b \in lock : brDir[a] = brDir[b] => a = b
    /\ \A b \in Browsers : BR!Launching(b) /\ brDir[b] # NoDir => b \in lock
    /\ \A b \in running : brAt[b] # "gone" /\ brDir[b] # NoDir => b \in lock

BrowserInv == BR!TypeOK /\ Fresh /\ Locked /\ BR!EveryProcessIsKnown /\ BR!NoneOutlives

LEMMA InitBrowsers == BR!Init => BrowserInv
<1> SUFFICES ASSUME BR!Init PROVE BrowserInv
  OBVIOUS
<1>1. BR!TypeOK
  <2>1. reloads \in 0..BrowserReloads
    BY BrowserAssumption DEF BR!DirAssumption, BR!Init
  <2> QED
    BY <2>1 DEF BR!Init, BR!TypeOK
<1>2. Fresh /\ Locked /\ BR!EveryProcessIsKnown /\ BR!NoneOutlives
  BY DEF BR!Init, Fresh, Locked, BR!EveryProcessIsKnown, BR!NoneOutlives, BR!Launching
<1> QED
  BY <1>1, <1>2 DEF BrowserInv

LEMMA BrowsersInductive == BrowserInv /\ [BR!Next]_(BR!vars) => BrowserInv'
<1> SUFFICES ASSUME BrowserInv, [BR!Next]_(BR!vars) PROVE BrowserInv'
  OBVIOUS
<1> USE DEF BrowserInv, BR!TypeOK, Fresh, Locked, BR!EveryProcessIsKnown, BR!NoneOutlives,
            BR!Launching, BR!Moves
<1>1. ASSUME NEW b \in Browsers, NEW d \in Dirs \cup {NoDir}, NEW k \in BOOLEAN,
             BR!Lock(b, d, k)
      PROVE  BrowserInv'
  <2>1. (BR!TypeOK /\ Fresh)'
    BY <1>1 DEF BR!Lock
  <2>2. Locked'
    BY <1>1 DEF BR!Lock, BR!LockFree
  <2>3. (BR!EveryProcessIsKnown /\ BR!NoneOutlives)'
    BY <1>1 DEF BR!Lock
  <2> QED
    BY <2>1, <2>2, <2>3
<1>2. ASSUME NEW b \in Browsers, BR!Fail(b) PROVE BrowserInv'
  BY <1>2 DEF BR!Fail
<1>3. ASSUME NEW b \in Browsers, BR!Spawn(b) PROVE BrowserInv'
  BY <1>3 DEF BR!Spawn
<1>4. ASSUME NEW b \in Browsers, BR!Connect(b) PROVE BrowserInv'
  BY <1>4 DEF BR!Connect
<1>5. ASSUME NEW b \in Browsers, BR!Register(b) PROVE BrowserInv'
  BY <1>5 DEF BR!Register
<1>6. ASSUME NEW b \in Browsers, BR!ConnectRemote(b) PROVE BrowserInv'
  BY <1>6 DEF BR!ConnectRemote
<1>7. ASSUME NEW b \in Browsers, BR!CancelLaunch(b) PROVE BrowserInv'
  BY <1>7 DEF BR!CancelLaunch
<1>8. ASSUME NEW b \in Browsers, BR!Close(b) PROVE BrowserInv'
  BY <1>8 DEF BR!Close, BR!Closing
<1>9. ASSUME NEW b \in Browsers, BR!Drop(b) PROVE BrowserInv'
  BY <1>9 DEF BR!Drop, BR!Closing
<1>10. ASSUME NEW b \in Browsers, BR!Crash(b) PROVE BrowserInv'
  BY <1>10 DEF BR!Crash
<1>11. CASE BR!Reload
  <2>1. reloads' \in 0..BrowserReloads
    BY <1>11, BrowserAssumption DEF BR!Reload, BR!DirAssumption
  <2>2. BR!TypeOK'
    BY <1>11, <2>1 DEF BR!Reload
  <2>3. (Fresh /\ Locked /\ BR!EveryProcessIsKnown /\ BR!NoneOutlives)'
    BY <1>11 DEF BR!Reload
  <2> QED
    BY <2>2, <2>3
<1>12. CASE UNCHANGED BR!vars
  BY <1>12 DEF BR!vars
<1> HIDE DEF BrowserInv
<1> QED
  BY <1>1, <1>2, <1>3, <1>4, <1>5, <1>6, <1>7, <1>8, <1>9, <1>10, <1>11, <1>12
  DEF BR!Next

LEMMA BrowsersInvariant == SumSpec => [](part = "browsers" => BrowserInv)
<1>1. SumInit => (part = "browsers" => BrowserInv)
  BY InitBrowsers DEF SumInit
<1>2. (part = "browsers" => BrowserInv) /\ [SumNext]_sumVars
      => (part = "browsers" => BrowserInv)'
  BY BrowsersInductive, StepOfBrowsers
<1> QED
  BY <1>1, <1>2, PTL DEF SumSpec

(***************************************************************************)
(* The lock of a profile keeps two owned browsers off it, for any number   *)
(* of launches, crashes, drops and reloads.                                *)
(***************************************************************************)
THEOREM ProfilesAreExclusive == SumSpec => []ProfileExclusive
<1>1. BrowserInv => BR!ProfileExclusive
  <2> SUFFICES ASSUME BrowserInv, NEW a \in running, NEW b \in running,
                      a # b, brDir[a] = brDir[b], brDir[a] # NoDir,
                      brAt[a] # "gone", brAt[b] # "gone"
               PROVE  FALSE
    BY DEF BR!ProfileExclusive
  <2>1. a \in lock /\ b \in lock
    BY DEF BrowserInv, Locked
  <2> QED
    BY <2>1 DEF BrowserInv, Locked
<1>2. (part = "browsers" => BrowserInv) => ProfileExclusive
  BY <1>1 DEF ProfileExclusive
<1> QED
  BY <1>2, BrowsersInvariant, PTL

(***************************************************************************)
(* A reload or a shutdown reaches every process but those of launches in   *)
(* the middle, and without keep_alive no process outlives its object.      *)
(***************************************************************************)
THEOREM ProcessesAreKnown == SumSpec => []EveryProcessIsKnown
<1>1. (part = "browsers" => BrowserInv) => EveryProcessIsKnown
  BY DEF BrowserInv, EveryProcessIsKnown
<1> QED
  BY <1>1, BrowsersInvariant, PTL

-----------------------------------------------------------------------------
(***************************************************************************)
(* Updater.  From the rename until the copy is complete the old file of    *)
(* the target lies under its other name; a spyweb that was complete when   *)
(* the run started is therefore always somewhere in the directory, whether *)
(* or not the rename that restores it works.                               *)
(***************************************************************************)
Aside ==
    /\ pc = "backup" => dir[target]["current"] = before
    /\ pc \in {"copy", "copying"} => dir[target][UP!Saved] = before
    /\ pc = "failed" => \E n \in UP!Names : dir[target][n] = before
    /\ pc = "remove" => dir[target]["current"] = "v2"
    /\ pc \in {"backup", "copy", "copying"} /\ target = "spyweb" /\ whole
       => before \in UP!Whole

UpdaterInv == UP!TypeOK /\ Aside /\ UP!UpdateKeepsABinary

LEMMA InitUpdater == UP!Init => UpdaterInv
<1> SUFFICES ASSUME UP!Init PROVE UpdaterInv
  OBVIOUS
<1> USE DEF UP!Programs, UP!Names, UP!Contents, UP!Whole
<1>1. PICK installed \in {{"spyweb"}, UP!Programs} :
          dir = [p \in UP!Programs |-> [n \in UP!Names |->
                    IF n = "current" /\ p \in installed THEN "v1" ELSE "none"]]
  BY DEF UP!Init
<1>2. UP!TypeOK
  BY <1>1 DEF UP!Init, UP!TypeOK
<1>3. dir["spyweb"]["current"] = "v1"
  BY <1>1
<1> QED
  BY <1>2, <1>3 DEF UP!Init, UpdaterInv, Aside, UP!UpdateKeepsABinary

\* The file under one name of the target moves to another.
LEMMA MovedFiles ==
    ASSUME UP!TypeOK, NEW from \in UP!Names, NEW to \in UP!Names, from # to,
           UP!Moved(from, to)
    PROVE  /\ dir' \in [UP!Programs -> [UP!Names -> UP!Contents]]
           /\ dir'[target][to] = dir[target][from]
           /\ \A p \in UP!Programs \ {target} : dir'[p] = dir[p]
  BY DEF UP!TypeOK, UP!Moved, UP!Contents

LEMMA UpdaterInductive ==
    ASSUME UpdaterInv, [UP!Next]_(UP!vars)
    PROVE  UpdaterInv'
<1> USE DEF UpdaterInv, UP!TypeOK, Aside, UP!UpdateKeepsABinary, UP!Goes,
            UP!Swapping, UP!Saved, UP!Programs, UP!Names, UP!Contents, UP!Whole
<1>1. ASSUME NEW r \in BOOLEAN, UP!Run(r) PROVE UpdaterInv'
  BY <1>1 DEF UP!Run
<1>2. CASE UP!Rename
  <2>1. /\ dir' \in [UP!Programs -> [UP!Names -> UP!Contents]]
        /\ dir'[target][UP!Saved] = dir[target]["current"]
        /\ \A p \in UP!Programs \ {target} : dir'[p] = dir[p]
    BY <1>2, MovedFiles DEF UP!Rename
  <2>2. UP!Saved' = UP!Saved
    BY <1>2 DEF UP!Rename
  <2> QED
    BY <1>2, <2>1, <2>2 DEF UP!Rename
<1>3. CASE UP!RenameFails
  BY <1>3 DEF UP!RenameFails
<1>4. CASE UP!Copy
  BY <1>4 DEF UP!Copy
<1>5. CASE UP!Copied
  BY <1>5 DEF UP!Copied
<1>6. CASE UP!CopyFails
  <2>1. CASE UNCHANGED dir
    <3>1. UP!Saved \in UP!Names /\ dir[target][UP!Saved] = before
      BY <1>6 DEF UP!CopyFails
    <3> QED
      BY <1>6, <2>1, <3>1 DEF UP!CopyFails
  <2>2. CASE ~retain /\ UP!Moved("old", "current")
    <3>1. /\ dir' \in [UP!Programs -> [UP!Names -> UP!Contents]]
          /\ dir'[target]["current"] = dir[target]["old"]
          /\ \A p \in UP!Programs \ {target} : dir'[p] = dir[p]
      BY <1>6, <2>2, MovedFiles DEF UP!CopyFails
    <3> QED
      BY <1>6, <2>2, <3>1 DEF UP!CopyFails
  <2> QED
    BY <1>6, <2>1, <2>2 DEF UP!CopyFails
<1>7. CASE UP!Remove
  BY <1>7 DEF UP!Remove
<1>8. CASE UP!Swapped
  BY <1>8 DEF UP!Swapped
<1>9. CASE UP!Ends
  BY <1>9 DEF UP!Ends
<1>10. CASE UNCHANGED UP!vars
  BY <1>10 DEF UP!vars
<1> HIDE DEF UpdaterInv
<1> QED
  BY <1>1, <1>2, <1>3, <1>4, <1>5, <1>6, <1>7, <1>8, <1>9, <1>10 DEF UP!Next

LEMMA UpdaterInvariant == SumSpec => [](part = "updater" => UpdaterInv)
<1>1. SumInit => (part = "updater" => UpdaterInv)
  BY InitUpdater DEF SumInit
<1>2. (part = "updater" => UpdaterInv) /\ [SumNext]_sumVars
      => (part = "updater" => UpdaterInv)'
  BY UpdaterInductive, StepOfUpdater
<1> QED
  BY <1>1, <1>2, PTL DEF SumSpec

(***************************************************************************)
(* An update that began with a complete spyweb leaves a complete one in    *)
(* the directory wherever it fails or is killed, the rename that restores  *)
(* it included; and what was installed, spyweb or tray, stays until the    *)
(* file that replaces it is whole.                                         *)
(***************************************************************************)
THEOREM UpdatesKeepABinary == SumSpec => []UpdateKeepsABinary
<1>1. (part = "updater" => UpdaterInv) => UpdateKeepsABinary
  BY DEF UpdaterInv, UpdateKeepsABinary
<1> QED
  BY <1>1, UpdaterInvariant, PTL

-----------------------------------------------------------------------------
(***************************************************************************)
(* Pages.  A handle gets its page once, and a tab that two handles have is *)
(* a reused one; a tab outside of the default context was made for a       *)
(* handle that wanted it there; and only handles that are closed have sent *)
(* the end of their tab.                                                   *)
(***************************************************************************)
GivenOnce ==
    /\ \A h \in Handles :
           /\ step[h] \in {"new", "listed"} => page[h] = NoTab
           /\ step[h] \in {"created", "open", "closed"} => page[h] # NoTab
           /\ page[h] # NoTab => tab[page[h]] # "unused"
    /\ \A g, h \in Handles : page[g] = page[h] /\ g # h /\ page[g] # NoTab
                             => page[g] \in reused

MadeForSomebody ==
    /\ \A t \in Tabs : ctxOf[t] \in Contexts
                       => \E h \in Handles : page[h] = t /\ wants[h].ctx = ctxOf[t]
    /\ \A h \in Handles :
           step[h] # "new" /\ wants[h].ctx \in Contexts => context[wants[h].ctx] # "unused"

SentByClosed == \A t \in sent : \E h \in Handles : page[h] = t /\ step[h] = "closed"

MadeInContext ==
    \A h \in Handles :
        step[h] \in {"created", "open"} /\ wants[h].ctx \in Contexts /\ ~wants[h].asked
        => ctxOf[page[h]] = wants[h].ctx

PagesInv ==
    /\ PG!TypeOK /\ GivenOnce /\ MadeForSomebody /\ SentByClosed /\ MadeInContext
    /\ PG!PageKeepsTab /\ PG!NoTabIsLeft

LEMMA InitPages == PG!Init => PagesInv
<1> SUFFICES ASSUME PG!Init PROVE PagesInv
  OBVIOUS
<1> USE PageAssumption DEF PG!TabAssumption
<1>1. PG!TypeOK
  BY DEF PG!Init, PG!TypeOK
<1>2. GivenOnce /\ MadeForSomebody /\ SentByClosed /\ MadeInContext
  BY DEF PG!Init, GivenOnce, MadeForSomebody, SentByClosed, MadeInContext
<1>3. PG!PageKeepsTab /\ PG!NoTabIsLeft
  BY DEF PG!Init, PG!PageKeepsTab, PG!NoTabIsLeft, PG!Up
<1> QED
  BY <1>1, <1>2, <1>3 DEF PagesInv

LEMMA ReuseKeepsPages ==
    ASSUME PagesInv, NEW h \in Handles, NEW ctx \in Contexts \cup {DefaultCtx},
           NEW asked \in BOOLEAN, PG!Reuse(h, ctx, asked)
    PROVE  PagesInv'
<1> USE PageAssumption DEF PG!TabAssumption, PagesInv, PG!TypeOK, PG!Moves
<1>1. PICK t \in Tabs : /\ tab[t] = "blank" /\ page' = [page EXCEPT ![h] = t]
                        /\ reused' = IF PG!Taken(t) THEN reused \cup {t} ELSE reused
  BY DEF PG!Reuse
<1>2. /\ step' = [step EXCEPT ![h] = "created"] /\ step[h] = "new"
      /\ wants' = [wants EXCEPT ![h] = [ctx |-> ctx, asked |-> asked]]
      /\ asked \/ ctx = DefaultCtx
      /\ ctx \in Contexts => context[ctx] # "unused"
      /\ UNCHANGED <<connected, tab, ctxOf, context, sent, pgStray>>
  BY DEF PG!Reuse, PG!ReuseDefault, PG!Made
<1>3. page[h] = NoTab
  BY <1>2 DEF GivenOnce
<1>4. PG!TypeOK'
  BY <1>1, <1>2
<1>5. GivenOnce'
  BY <1>1, <1>2 DEF GivenOnce, PG!Taken
<1>6. MadeForSomebody' /\ SentByClosed'
  BY <1>1, <1>2, <1>3 DEF MadeForSomebody, SentByClosed
<1>7. MadeInContext'
  BY <1>1, <1>2 DEF MadeInContext
<1>8. PG!PageKeepsTab'
  BY <1>1, <1>2 DEF PG!PageKeepsTab, PG!Up
<1>9. PG!NoTabIsLeft'
  BY <1>1, <1>2 DEF PG!NoTabIsLeft, PG!Up
<1> QED
  BY <1>4, <1>5, <1>6, <1>7, <1>8, <1>9

LEMMA CreateKeepsPages ==
    ASSUME PagesInv, NEW h \in Handles, NEW url \in {"blank", "loaded"},
           PG!Create(h, url)
    PROVE  PagesInv'
<1> USE PageAssumption DEF PG!TabAssumption, PagesInv, PG!TypeOK, PG!Moves
<1>1. PICK t \in Tabs : /\ tab[t] = "unused" /\ tab' = [tab EXCEPT ![t] = url]
                        /\ ctxOf' = [ctxOf EXCEPT ![t] = wants[h].ctx]
                        /\ page' = [page EXCEPT ![h] = t]
  BY DEF PG!Create
<1>2. /\ step' = [step EXCEPT ![h] = "created"] /\ step[h] = "listed"
      /\ UNCHANGED <<connected, wants, context, sent, reused, pgStray>>
  BY DEF PG!Create
<1>3. page[h] = NoTab /\ \A g \in Handles : page[g] # t
  BY <1>1, <1>2 DEF GivenOnce
<1>4. PG!TypeOK'
  BY <1>1, <1>2
<1>5. GivenOnce'
  BY <1>1, <1>2, <1>3 DEF GivenOnce
<1>6. MadeForSomebody' /\ SentByClosed'
  BY <1>1, <1>2, <1>3 DEF MadeForSomebody, SentByClosed
<1>7. MadeInContext'
  BY <1>1, <1>2, <1>3 DEF MadeInContext, GivenOnce
<1>8. PG!PageKeepsTab'
  BY <1>1, <1>2, <1>3 DEF PG!PageKeepsTab, PG!Up, GivenOnce
<1>9. PG!NoTabIsLeft'
  BY <1>1, <1>2, <1>3 DEF PG!NoTabIsLeft, PG!Up
<1> QED
  BY <1>4, <1>5, <1>6, <1>7, <1>8, <1>9

\* The tabs of a disposed context that an open handle of another one has are
\* reused ones.
LEMMA DisposeKeepsPages ==
    ASSUME PagesInv, NEW c \in Contexts, PG!Dispose(c)
    PROVE  PagesInv'
<1> USE DEF PagesInv, PG!TypeOK, PG!Dispose
<1>1. PG!TypeOK'
  OBVIOUS
<1>2. GivenOnce'
  BY DEF GivenOnce, PG!Up
<1>3. MadeForSomebody' /\ SentByClosed' /\ MadeInContext'
  BY DEF MadeForSomebody, SentByClosed, MadeInContext
<1>4. PG!PageKeepsTab'
  <2> SUFFICES ASSUME NEW h \in Handles, connected, step[h] = "open",
                      page[h] \notin reused,
                      wants[h].ctx \in Contexts => context'[wants[h].ctx] = "live"
               PROVE  PG!Up(page[h])'
    BY DEF PG!PageKeepsTab
  <2>1. wants[h].ctx # c
    OBVIOUS
  <2>2. page[h] \in Tabs /\ PG!Up(page[h])
    BY <2>1 DEF PG!PageKeepsTab, GivenOnce
  <2>3. ctxOf[page[h]] # c
    BY <2>1, <2>2 DEF MadeForSomebody, GivenOnce
  <2> QED
    BY <2>2, <2>3 DEF PG!Up
<1>5. PG!NoTabIsLeft'
  BY DEF PG!NoTabIsLeft, PG!Up
<1> QED
  BY <1>1, <1>2, <1>3, <1>4, <1>5

LEMMA PagesInductive ==
    ASSUME PagesInv, [PG!Next]_(PG!vars)
    PROVE  PagesInv'
<1> USE PageAssumption DEF PG!TabAssumption, PagesInv, PG!TypeOK, PG!Moves, PG!Up,
        GivenOnce, MadeForSomebody, SentByClosed, MadeInContext, PG!PageKeepsTab,
        PG!NoTabIsLeft
<1>1. ASSUME NEW h \in Handles, NEW ctx \in Contexts \cup {DefaultCtx},
             PG!WantNew(h, ctx)
      PROVE  PagesInv'
  BY <1>1 DEF PG!WantNew, PG!Made
<1>2. ASSUME NEW h \in Handles, PG!Connect(h) PROVE PagesInv'
  BY <1>2 DEF PG!Connect
<1>3. ASSUME NEW h \in Handles, PG!AttachFails(h) PROVE PagesInv'
  BY <1>3 DEF PG!AttachFails
<1>4. ASSUME NEW h \in Handles, PG!Navigate(h) PROVE PagesInv'
  BY <1>4 DEF PG!Navigate
<1>5. ASSUME NEW h \in Handles, PG!Close(h) PROVE PagesInv'
  BY <1>5 DEF PG!Close
<1>6. ASSUME NEW t \in Tabs, PG!TabCloses(t) PROVE PagesInv'
  BY <1>6 DEF PG!TabCloses
<1>7. ASSUME NEW c \in Contexts, PG!NewContext(c) PROVE PagesInv'
  BY <1>7 DEF PG!NewContext
<1>8. CASE PG!Disconnect
  <2>1. /\ connected' = FALSE /\ sent' \subseteq sent
        /\ UNCHANGED <<tab, ctxOf, step, page, wants, context, reused, pgStray>>
    BY <1>8 DEF PG!Disconnect
  <2>2. PG!TypeOK' /\ GivenOnce'
    BY <2>1
  <2>3. MadeForSomebody' /\ MadeInContext'
    BY <2>1
  <2>4. SentByClosed' /\ PG!PageKeepsTab' /\ PG!NoTabIsLeft'
    BY <2>1
  <2> QED
    BY <2>2, <2>3, <2>4
<1>9. CASE UNCHANGED PG!vars
  BY <1>9 DEF PG!vars
<1> HIDE DEF PagesInv
<1> QED
  BY <1>1, <1>2, <1>3, <1>4, <1>5, <1>6, <1>7, <1>8, <1>9, ReuseKeepsPages,
     CreateKeepsPages, DisposeKeepsPages
  DEF PG!Next

LEMMA PagesInvariant == SumSpec => [](part = "pages" => PagesInv)
<1>1. SumInit => (part = "pages" => PagesInv)
  BY InitPages DEF SumInit
<1>2. (part = "pages" => PagesInv) /\ [SumNext]_sumVars => (part = "pages" => PagesInv)'
  BY PagesInductive, StepOfPages
<1> QED
  BY <1>1, <1>2, PTL DEF SumSpec

(***************************************************************************)
(* An open page keeps its tab until its own close, and every tab is known  *)
(* to a handle, a close under way or a failed attach, for any number of    *)
(* tabs, handles and contexts and any order of their closes.               *)
(***************************************************************************)
THEOREM PagesKeepTheirTabs == SumSpec => []PagesHaveTabs
<1>1. (part = "pages" => PagesInv) => PagesHaveTabs
  BY DEF PagesInv, PagesHaveTabs
<1> QED
  BY <1>1, PagesInvariant, PTL

(***************************************************************************)
(* An attach in a context gets a tab of that context unless the script     *)
(* asked for a blank one.                                                  *)
(***************************************************************************)
THEOREM PagesAreInContext == SumSpec => []PageInContext
<1>1. PagesInv => PG!PageInContext
  BY DEF PagesInv, MadeInContext, PG!PageInContext
<1>2. (part = "pages" => PagesInv) => PageInContext
  BY <1>1 DEF PageInContext
<1> QED
  BY <1>2, PagesInvariant, PTL

-----------------------------------------------------------------------------
(***************************************************************************)
(* JobConfig.  The jobs that run are those of a load, all of them valid    *)
(* and valid as a set.                                                     *)
(***************************************************************************)
TypedConfig(c) ==
    /\ \A f \in c.fields : JC!IsText(f.name)
    /\ c.search # None => \A t \in c.search : JC!IsText(t)

ConfigInv ==
    /\ \A c \in JC!Configs \cup jobs : TypedConfig(c)
    /\ \A c \in jobs : JC!Valid(c)
    /\ JC!ValidSet(jobs)

LEMMA InitConfig == JC!Init => ConfigInv
  BY DEF JC!Init, JC!NoToml, JC!NoDirs, JC!Configs, ConfigInv, JC!ValidSet, JC!Distinct

LEMMA ConfigInductive ==
    ASSUME ConfigInv, [JC!Next]_(JC!vars)
    PROVE  ConfigInv'
<1>1. ASSUME NEW t \in Tomls, JC!Save(t, dirs, lua) PROVE ConfigInv'
  BY <1>1, ConfigAssumption DEF JC!Save, ConfigInv, JC!Configs, TypedConfig,
     JC!FileAssumption
<1>2. ASSUME NEW d \in JobDirs, JC!Save(toml, d, lua) PROVE ConfigInv'
  BY <1>2, ConfigAssumption DEF JC!Save, ConfigInv, JC!Configs, TypedConfig,
     JC!FileAssumption
<1>3. CASE JC!Save(toml, dirs, ~lua)
  BY <1>3 DEF JC!Save, ConfigInv, JC!Configs
<1>4. CASE JC!Load
  <2>1. CASE JC!LoadAll /\ jobs' = JC!Configs
    <3>1. JC!Configs' = JC!Configs
      BY <1>4 DEF JC!Load, JC!Configs
    <3> QED
      BY <2>1, <3>1 DEF JC!LoadAll, ConfigInv
  <2>2. CASE jobs' = jobs
    BY <1>4, <2>2 DEF JC!Load, ConfigInv, JC!Configs
  <2> QED
    BY <1>4, <2>1, <2>2 DEF JC!Load
<1>5. CASE JC!Check
  BY <1>5 DEF JC!Check, ConfigInv, JC!Configs
<1>6. CASE UNCHANGED JC!vars
  BY <1>6 DEF JC!vars, ConfigInv, JC!Configs
<1> QED
  BY <1>1, <1>2, <1>3, <1>4, <1>5, <1>6 DEF JC!Next

\* Names without blanks are the same validated and extracted.
LEMMA PlainNames ==
    ASSUME NEW c, TypedConfig(c), JC!Plain(c)
    PROVE  /\ JC!ItemKeys(c) = JC!ValidNames(c)
           /\ c.search # None => \A t \in c.search : JC!Trim(t) = t
<1>1. ASSUME NEW t, JC!IsText(t), ~t.padded PROVE JC!Trim(t) = t
  BY <1>1 DEF JC!IsText, JC!Trim
<1> QED
  BY <1>1 DEF TypedConfig, JC!Plain, JC!ItemKeys, JC!ValidNames

LEMMA SearchedAsNamed ==
    ASSUME NEW c, TypedConfig(c), JC!Valid(c), JC!Plain(c)
    PROVE  JC!Normalized(c.search) \subseteq JC!Searched(c)
  BY PlainNames DEF JC!Valid, JC!Known, JC!Normalized, JC!Searched

\* The hash of an item has the pairs that hash_fields names, if one of them is
\* not empty.
LEMMA PairsOfNamed ==
    ASSUME NEW c, JC!Normalized(c.hash) \subseteq JC!ItemKeys(c),
           NEW i \in [JC!ItemKeys(c) -> {Blank, "x", "y"}],
           NEW t \in JC!Normalized(c.hash), ~JC!Empty(i, t)
    PROVE  JC!HashPairs(c, i) = {<<u, i[u]>> : u \in JC!Normalized(c.hash)}
<1>1. \A u \in JC!Normalized(c.hash) : u \in DOMAIN i
  OBVIOUS
<1>2. {<<u, IF u \in DOMAIN i THEN i[u] ELSE Blank>> : u \in JC!Normalized(c.hash)}
      = {<<u, i[u]>> : u \in JC!Normalized(c.hash)}
  BY <1>1
<1>3. ~\A u \in JC!Normalized(c.hash) : JC!Empty(i, u)
  OBVIOUS
<1> QED
  BY <1>2, <1>3 DEF JC!HashPairs

LEMMA HashedAsNamed ==
    ASSUME NEW c, JC!Normalized(c.hash) \subseteq JC!ItemKeys(c),
           NEW i \in [JC!ItemKeys(c) -> {Blank, "x", "y"}],
           NEW k \in [JC!ItemKeys(c) -> {Blank, "x", "y"}],
           NEW t \in JC!Normalized(c.hash), ~JC!Empty(i, t)
    PROVE  JC!HashPairs(c, i) = JC!HashPairs(c, k)
           <=> \A u \in JC!Normalized(c.hash) : u \in JC!ItemKeys(c) /\ i[u] = k[u]
<1> DEFINE names == JC!Normalized(c.hash)
<1>1. JC!HashPairs(c, i) = {<<u, i[u]>> : u \in names}
  BY PairsOfNamed
<1>2. t \in JC!ItemKeys(c) /\ i[t] # Blank
  BY DEF JC!Empty
<1>3. <<t, i[t]>> \in JC!HashPairs(c, i)
  BY <1>1
<1>4. CASE \A u \in names : JC!Empty(k, u)
  <2>1. JC!HashPairs(c, k) = {<<u, k[u]>> : u \in DOMAIN k}
    BY <1>4 DEF JC!HashPairs
  <2>2. k[t] = Blank
    BY <1>2, <1>4 DEF JC!Empty
  <2>3. <<t, i[t]>> \notin JC!HashPairs(c, k)
    BY <1>2, <2>1, <2>2
  <2> QED
    BY <1>2, <1>3, <2>2, <2>3
<1>5. CASE \E u \in names : ~JC!Empty(k, u)
  <2>1. JC!HashPairs(c, k) = {<<u, k[u]>> : u \in names}
    BY <1>5, PairsOfNamed
  <2>2. ASSUME JC!HashPairs(c, i) = JC!HashPairs(c, k), NEW u \in names
        PROVE  i[u] = k[u]
    <3>1. <<u, i[u]>> \in {<<v, k[v]>> : v \in names}
      BY <1>1, <2>1, <2>2
    <3> QED
      BY <3>1
  <2>3. ASSUME \A u \in names : i[u] = k[u]
        PROVE  JC!HashPairs(c, i) = JC!HashPairs(c, k)
    BY <1>1, <2>1, <2>3
  <2> QED
    BY <2>2, <2>3
<1> QED
  BY <1>4, <1>5

(***************************************************************************)
(* Whatever the files were when jobs were loaded: no two jobs that run     *)
(* share an id, the keyword filter searches what search_fields names, and  *)
(* items are told apart by what hash_fields names.                         *)
(***************************************************************************)
THEOREM RunningJobsAreTold == SumSpec => []JobsAreTold
<1>1. SumInit => (part = "config" => ConfigInv)
  BY InitConfig DEF SumInit
<1>2. (part = "config" => ConfigInv) /\ [SumNext]_sumVars
      => (part = "config" => ConfigInv)'
  BY ConfigInductive, StepOfConfig
<1>3. ConfigInv => JC!JobsAreTold
  <2> SUFFICES ASSUME ConfigInv PROVE JC!JobsAreTold
    OBVIOUS
  <2>1. \A c, d \in jobs : IdOf[c.name] = IdOf[d.name] => c = d
    BY DEF ConfigInv, JC!ValidSet, JC!Distinct
  <2>2. ASSUME NEW c \in jobs, JC!Plain(c)
        PROVE  /\ JC!Normalized(c.search) \subseteq JC!Searched(c)
               /\ JC!Normalized(c.hash) \subseteq JC!ItemKeys(c)
    BY <2>2, SearchedAsNamed, PlainNames DEF ConfigInv, JC!Valid, JC!Known
  <2> QED
    BY <2>1, <2>2, HashedAsNamed DEF JC!JobsAreTold
<1>4. (part = "config" => ConfigInv) => JobsAreTold
  BY <1>3 DEF JobsAreTold
<1> QED
  BY <1>1, <1>2, <1>4, PTL DEF SumSpec
-----------------------------------------------------------------------------
(***************************************************************************)
(* The types of these parts.                                               *)
(***************************************************************************)
LEMMA StepOfIo ==
    ASSUME [SumNext]_sumVars
    PROVE  part' = part /\ (part = "io" => [Next]_vars)
  BY DEF SumNext, sumVars, IoStep, KvStep, BrStep, PgStep, LfStep, ApiStep, HsStep,
         RpStep, RaStep, RhStep, UpStep, JcStep

LEMMA IoTypes == SumSpec => [](part = "io" => TypeOK)
<1>1. SumInit => (part = "io" => TaskInv /\ DrainInv)
  BY InitTask, InitDrains DEF SumInit
<1>2. (part = "io" => TaskInv /\ DrainInv) /\ [SumNext]_sumVars
      => (part = "io" => TaskInv /\ DrainInv)'
  BY TaskInductive, DrainInductive, StepOfIo
<1>3. (part = "io" => TaskInv /\ DrainInv) => (part = "io" => TypeOK)
  BY DEF DrainInv
<1> QED
  BY <1>1, <1>2, <1>3, PTL DEF SumSpec

LEMMA ConfigTypes == SumSpec => [](part = "config" => JC!TypeOK)
<1>1. SumInit => (part = "config" => JC!TypeOK)
  BY ConfigAssumption DEF SumInit, JC!Init, JC!TypeOK, JC!FileAssumption
<1>2. JC!TypeOK /\ [JC!Next]_(JC!vars) => JC!TypeOK'
  BY DEF JC!TypeOK, JC!Next, JC!Save, JC!Load, JC!Check, JC!vars
<1>3. (part = "config" => JC!TypeOK) /\ [SumNext]_sumVars
      => (part = "config" => JC!TypeOK)'
  BY <1>2, StepOfConfig
<1> QED
  BY <1>1, <1>3, PTL DEF SumSpec

LEMMA ServiceTypes ==
    SumSpec => [](/\ part = "io" => TypeOK
                  /\ part = "kv" => KV!TypeOK
                  /\ part = "browsers" => BR!TypeOK
                  /\ part = "updater" => UP!TypeOK
                  /\ part = "pages" => PG!TypeOK
                  /\ part = "config" => JC!TypeOK)
<1>1. (part = "browsers" => BrowserInv) => (part = "browsers" => BR!TypeOK)
  BY DEF BrowserInv
<1>2. (part = "updater" => UpdaterInv) => (part = "updater" => UP!TypeOK)
  BY DEF UpdaterInv
<1>3. (part = "pages" => PagesInv) => (part = "pages" => PG!TypeOK)
  BY DEF PagesInv
<1> QED
  BY <1>1, <1>2, <1>3, IoTypes, StoreTypes, BrowsersInvariant, UpdaterInvariant,
     PagesInvariant, ConfigTypes, PTL
=============================================================================
