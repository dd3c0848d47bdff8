--------------------------- MODULE LuaHooksProofs ---------------------------
(***************************************************************************)
(* Proofs about LuaHooks for any number of workers, runs, hooks and        *)
(* deferred functions.                                                     *)
(***************************************************************************)
EXTENDS LuaHooks, TLAPS

(***************************************************************************)
(* What makes ContextMatches inductive: the mutex is held exactly by who   *)
(* is in a hook, a context lives exactly as long as its run, and the loop  *)
(* leaves the cycle only when no run is left.                              *)
(***************************************************************************)
InHook(w) == pc[w] \in {"call", "defers"}

Exclusion ==
    /\ \A w \in Workers : InHook(w) => holder = w /\ active = Context(w)
    /\ holder = Loop <=> loop = "finishing"
    /\ loop \in {"joined", "finishing"} => \A w \in Workers : pc[w] = "off"

Lifetime ==
    \A w \in Workers :
        /\ live[w] <=> pc[w] # "off"
        /\ pc[w] # "off" => run[w] # 0

\* The part of the types that Exclusion and Lifetime need.
Shape ==
    /\ holder \in Workers \cup {Loop, Nobody}
    /\ active = <<>> \/ \E w \in Workers : \E r \in 1..MaxRuns : active = <<w, r>>
    /\ loop \in {"cycle", "joined", "finishing", "dead"}
    /\ pc \in [Workers -> {"off", "run", "wait", "call", "defers", "panicked"}]
    /\ run \in [Workers -> 0..MaxRuns]
    /\ live \in [Workers -> BOOLEAN]

VmInv == Shape /\ Exclusion /\ Lifetime

LEMMA InitVm == Init => VmInv
<1> SUFFICES ASSUME Init PROVE VmInv
  OBVIOUS
<1> USE HoldersAssumption, BoundsAssumption
<1>1. Shape
  BY DEF Init, Shape
<1>2. Exclusion /\ Lifetime
  BY DEF Init, Exclusion, Lifetime, InHook
<1> QED
  BY <1>1, <1>2 DEF VmInv

LEMMA VmInductive == VmInv /\ [Next]_vars => VmInv'
<1> SUFFICES ASSUME VmInv, [Next]_vars PROVE VmInv'
  OBVIOUS
<1> USE HoldersAssumption, BoundsAssumption
    DEF VmInv, Shape, Exclusion, Lifetime, InHook, Context, Goes
<1>1. CASE UNCHANGED <<holder, active, loop, pc, run, live>>
  BY <1>1
<1>2. ASSUME NEW v \in Workers, NewContext(v) PROVE VmInv'
  BY <1>2 DEF NewContext
<1>3. ASSUME NEW v \in Workers, Ask(v) PROVE VmInv'
  BY <1>3 DEF Ask, ctxVars
<1>4. ASSUME NEW v \in Workers, Enter(v) PROVE VmInv'
  BY <1>4 DEF Enter
<1>5. ASSUME NEW v \in Workers, EnterFails(v) PROVE VmInv'
  BY <1>5 DEF EnterFails
<1>6. ASSUME NEW v \in Workers, Defer(v) PROVE VmInv'
  BY <1>1, <1>6 DEF Defer, ctxVars
<1>7. ASSUME NEW v \in Workers, Return(v) PROVE VmInv'
  BY <1>7 DEF Return, ctxVars
<1>8. ASSUME NEW v \in Workers, Swap(v) \/ RunLast(v) PROVE VmInv'
  BY <1>1, <1>8 DEF Swap, RunLast, ctxVars
<1>9. ASSUME NEW v \in Workers, Done(v) PROVE VmInv'
  BY <1>9 DEF Done, ctxVars
<1>10. ASSUME NEW v \in Workers, Cleanup(v) PROVE VmInv'
  BY <1>10 DEF Cleanup
<1>11. ASSUME NEW v \in Workers, Panic(v) PROVE VmInv'
  BY <1>11 DEF Panic, ctxVars
<1>12. CASE Join \/ JoinPanicked
  BY <1>12 DEF Join, JoinPanicked, ctxVars
<1>13. CASE Finishing \/ Finished
  BY <1>13 DEF Finishing, Finished, ctxVars
<1>14. CASE UNCHANGED vars
  BY <1>1, <1>14 DEF vars
<1> QED
  BY <1>2, <1>3, <1>4, <1>5, <1>6, <1>7, <1>8, <1>9, <1>10, <1>11, <1>12,
     <1>13, <1>14 DEF Next, HookStep

LEMMA VmInvariant == Spec => []VmInv
  BY InitVm, VmInductive, PTL DEF Spec

(***************************************************************************)
(* Hooks never overlap in the VM, each sees its own worker's context, and  *)
(* on_finished sees none, for any number of workers and runs.              *)
(***************************************************************************)
THEOREM ContextsMatch == Spec => []ContextMatches
<1>1. VmInv => ContextMatches
  <2> SUFFICES ASSUME VmInv PROVE ContextMatches
    OBVIOUS
  <2>1. \A w \in Workers : InHook(w) => holder = w /\ active = Context(w) /\ live[w]
    BY DEF VmInv, Exclusion, Lifetime, InHook
  <2>2. holder = Loop /\ active # <<>> => ~live[active[1]]
    BY DEF VmInv, Shape, Exclusion, Lifetime
  <2> QED
    BY <2>1, <2>2 DEF ContextMatches, InHook
<1> QED
  BY <1>1, VmInvariant, PTL

-----------------------------------------------------------------------------
(***************************************************************************)
(* Deferred functions.  Each one that a call of a hook has registered is   *)
(* in the queue, in the batch that runs, or has run: their numbers add up. *)
(* Those of the hook itself, up to number o, go through the batch in       *)
(* order, and only the first queue holds any.                              *)
(***************************************************************************)
Numbers(s) == {s[i] : i \in DOMAIN s}

Balanced(q, b, r, n) ==
    /\ Len(r) + Len(b) + Len(q) = n
    /\ Numbers(r) \cup Numbers(b) \cup Numbers(q) = 1..n

Ascends(s, o) ==
    \A i, j \in DOMAIN s : i < j /\ s[i] <= o /\ s[j] <= o => s[i] < s[j]

InTurn(q, b, r, o) ==
    /\ Reversed(r, o) /\ Ascends(b, o) /\ Ascends(q, o)
    /\ \A i \in DOMAIN b, j \in DOMAIN r : b[i] <= o /\ r[j] <= o => b[i] < r[j]
    /\ (\E i \in DOMAIN q : q[i] <= o) => b = <<>> /\ r = <<>>

LEMMA EmptyFacts ==
    /\ <<>> \in Seq(Nat) /\ Len(<<>>) = 0 /\ DOMAIN <<>> = {} /\ Numbers(<<>>) = {}
  BY DEF Numbers

LEMMA AppendFacts ==
    ASSUME NEW s \in Seq(Nat), NEW x \in Nat
    PROVE  /\ Append(s, x) \in Seq(Nat) /\ Len(s) \in Nat /\ DOMAIN s = 1..Len(s)
           /\ Len(Append(s, x)) = Len(s) + 1
           /\ DOMAIN Append(s, x) = DOMAIN s \cup {Len(s) + 1}
           /\ \A i \in DOMAIN s : i < Len(s) + 1 /\ Append(s, x)[i] = s[i] /\ s[i] \in Nat
           /\ Append(s, x)[Len(s) + 1] = x
           /\ Numbers(Append(s, x)) = Numbers(s) \cup {x}
<1>1. /\ Append(s, x) \in Seq(Nat) /\ Len(s) \in Nat /\ DOMAIN s = 1..Len(s)
      /\ Len(Append(s, x)) = Len(s) + 1
      /\ DOMAIN Append(s, x) = 1..(Len(s) + 1)
      /\ \A i \in DOMAIN s : i < Len(s) + 1 /\ Append(s, x)[i] = s[i] /\ s[i] \in Nat
      /\ Append(s, x)[Len(s) + 1] = x
  OBVIOUS
<1>2. DOMAIN Append(s, x) = DOMAIN s \cup {Len(s) + 1}
  BY <1>1
<1>3. Numbers(Append(s, x)) = Numbers(s) \cup {x}
  BY <1>1, <1>2, Zenon DEF Numbers
<1> QED
  BY <1>1, <1>2, <1>3

Front(s) == SubSeq(s, 1, Len(s) - 1)

LEMMA FrontFacts ==
    ASSUME NEW s \in Seq(Nat), s # <<>>
    PROVE  /\ Len(s) \in Nat \ {0} /\ s[Len(s)] \in Nat /\ Len(s) \in DOMAIN s
           /\ Front(s) \in Seq(Nat) /\ Len(Front(s)) = Len(s) - 1
           /\ \A i \in DOMAIN Front(s) :
                 i \in DOMAIN s /\ i < Len(s) /\ Front(s)[i] = s[i] /\ s[i] \in Nat
           /\ Numbers(s) = Numbers(Front(s)) \cup {s[Len(s)]}
<1> DEFINE n == Len(s)
           f == Front(s)
<1>1. /\ n \in Nat \ {0} /\ s[n] \in Nat /\ DOMAIN s = 1..n
      /\ f \in Seq(Nat) /\ Len(f) = n - 1 /\ DOMAIN f = 1..(n - 1)
      /\ \A i \in DOMAIN f : i \in DOMAIN s /\ i < n /\ f[i] = s[i] /\ s[i] \in Nat
  <2>1. n = Len(s) /\ f = SubSeq(s, 1, n - 1)
    BY DEF Front
  <2> HIDE DEF n, f
  <2> QED
    BY <2>1
<1> HIDE DEF n, f
<1>2. DOMAIN s = DOMAIN f \cup {n}
  BY <1>1
<1>3. Numbers(s) = Numbers(f) \cup {s[n]}
  <2>1. Numbers(s) \subseteq Numbers(f) \cup {s[n]}
    BY <1>1, <1>2 DEF Numbers
  <2>2. Numbers(f) \cup {s[n]} \subseteq Numbers(s)
    BY <1>1, <1>2 DEF Numbers
  <2> QED
    BY <2>1, <2>2
<1> QED
  BY <1>1, <1>2, <1>3 DEF n, f

\* One more function is deferred, by the hook itself if o grows.
LEMMA DeferFits ==
    ASSUME NEW q \in Seq(Nat), NEW b \in Seq(Nat), NEW r \in Seq(Nat),
           NEW n \in Nat, NEW o \in 0..n, NEW p \in Nat,
           Balanced(q, b, r, n), InTurn(q, b, r, o),
           p = o \/ (o = n /\ p = n + 1 /\ b = <<>> /\ r = <<>>)
    PROVE  /\ Append(q, n + 1) \in Seq(Nat)
           /\ Balanced(Append(q, n + 1), b, r, n + 1)
           /\ InTurn(Append(q, n + 1), b, r, p)
<1> DEFINE a == Append(q, n + 1)
           L == Len(q) + 1
<1>1. /\ a \in Seq(Nat) /\ Len(q) \in Nat /\ Len(a) = L
      /\ DOMAIN q = 1..Len(q) /\ DOMAIN a = DOMAIN q \cup {L}
      /\ \A i \in DOMAIN q : i < L /\ a[i] = q[i] /\ q[i] \in Nat
      /\ a[L] = n + 1 /\ Numbers(a) = Numbers(q) \cup {n + 1}
  BY AppendFacts
<1>2. 1..(n + 1) = 1..n \cup {n + 1} /\ Len(b) \in Nat /\ Len(r) \in Nat
  <2>1. Len(b) \in Nat /\ Len(r) \in Nat
    OBVIOUS
  <2>2. \A k \in Nat : 1..(k + 1) = 1..k \cup {k + 1}
    OBVIOUS
  <2> QED
    BY <2>1, <2>2
<1>3. \A i \in DOMAIN q : q[i] <= n
  BY DEF Balanced, Numbers
<1> HIDE DEF a, L
<1>4. Balanced(a, b, r, n + 1)
  <2>1. Len(r) + Len(b) + Len(a) = n + 1
    <3> DEFINE x == Len(r)
               y == Len(b)
               z == Len(q)
               u == Len(a)
    <3>1. x + y + z = n
      BY DEF Balanced
    <3>2. u = z + 1 /\ x \in Nat /\ y \in Nat /\ z \in Nat
      BY <1>1, <1>2 DEF L
    <3> HIDE DEF x, y, z, u
    <3>3. x + y + u = n + 1
      BY <3>1, <3>2
    <3> QED
      BY <3>3 DEF x, y, u
  <2>2. Numbers(r) \cup Numbers(b) \cup Numbers(a) = 1..(n + 1)
    BY <1>1, <1>2 DEF Balanced
  <2> QED
    BY <2>1, <2>2 DEF Balanced
<1>5. Ascends(a, p)
  <2>1. ASSUME NEW i \in DOMAIN a, NEW j \in DOMAIN a, i < j, a[i] <= p, a[j] <= p
        PROVE  a[i] < a[j]
    <3>1. L \in Nat /\ i \in DOMAIN q
      BY <1>1, <2>1 DEF L
    <3>2. CASE j \in DOMAIN q
      <4>1. q[i] <= o /\ q[j] <= o
        BY <1>1, <1>3, <2>1, <3>1, <3>2
      <4> QED
        BY <1>1, <2>1, <3>1, <3>2, <4>1 DEF InTurn, Ascends
    <3>3. CASE j = L
      BY <1>1, <1>3, <3>1, <3>3
    <3> QED
      BY <1>1, <3>2, <3>3
  <2> QED
    BY <2>1 DEF Ascends
<1>6. CASE p = o
  <2>1. (\E i \in DOMAIN a : a[i] <= o) => \E i \in DOMAIN q : q[i] <= o
    BY <1>1
  <2> QED
    BY <1>1, <1>4, <1>5, <1>6, <2>1 DEF InTurn, a
<1>7. CASE p # o
  <2>1. b = <<>> /\ r = <<>> /\ DOMAIN b = {} /\ DOMAIN r = {}
    BY <1>7, EmptyFacts
  <2> QED
    BY <1>1, <1>4, <1>5, <2>1 DEF InTurn, Reversed, Ascends, a
<1> QED
  BY <1>6, <1>7

LEMMA SwapFits ==
    ASSUME NEW q \in Seq(Nat), NEW r \in Seq(Nat), NEW n \in Nat, NEW o \in 0..n,
           Balanced(q, <<>>, r, n), InTurn(q, <<>>, r, o)
    PROVE  Balanced(<<>>, q, r, n) /\ InTurn(<<>>, q, r, o)
<1>1. Balanced(<<>>, q, r, n)
  BY EmptyFacts DEF Balanced
<1>2. \A i \in DOMAIN q, j \in DOMAIN r : q[i] <= o /\ r[j] <= o => q[i] < r[j]
  BY EmptyFacts DEF InTurn
<1> QED
  BY <1>1, <1>2, EmptyFacts DEF InTurn, Ascends

LEMMA RunFits ==
    ASSUME NEW q \in Seq(Nat), NEW b \in Seq(Nat), NEW r \in Seq(Nat),
           NEW n \in Nat, NEW o \in 0..n, b # <<>>,
           Balanced(q, b, r, n), InTurn(q, b, r, o),
           NEW f, f = SubSeq(b, 1, Len(b) - 1), NEW a, a = Append(r, b[Len(b)])
    PROVE  /\ f \in Seq(Nat) /\ a \in Seq(Nat)
           /\ Balanced(q, f, a, n) /\ InTurn(q, f, a, o)
<1> DEFINE k == Len(b)
           x == b[k]
           L == Len(r) + 1
<1>1. /\ k \in Nat \ {0} /\ x \in Nat /\ k \in DOMAIN b
      /\ f \in Seq(Nat) /\ Len(f) = k - 1
      /\ \A i \in DOMAIN f : i \in DOMAIN b /\ i < k /\ f[i] = b[i] /\ b[i] \in Nat
      /\ Numbers(b) = Numbers(f) \cup {x}
  <2>1. f = Front(b)
    BY DEF Front
  <2> QED
    BY <2>1, FrontFacts
<1>2. /\ a \in Seq(Nat) /\ Len(r) \in Nat /\ DOMAIN r = 1..Len(r)
      /\ Len(a) = L /\ DOMAIN a = DOMAIN r \cup {L}
      /\ \A i \in DOMAIN r : i < L /\ a[i] = r[i] /\ r[i] \in Nat
      /\ a[L] = x /\ Numbers(a) = Numbers(r) \cup {x}
  BY <1>1, AppendFacts
<1>3. Len(q) \in Nat /\ L = Len(r) + 1 /\ k = Len(b) /\ x = b[k]
  OBVIOUS
<1> HIDE DEF k, x, L
<1>4. Balanced(q, f, a, n)
  <2>1. Len(a) + Len(f) + Len(q) = n
    <3> DEFINE u == Len(r)
               y == Len(b)
               z == Len(q)
               v == Len(a)
               w == Len(f)
    <3>1. u + y + z = n
      BY DEF Balanced
    <3>2. /\ v = u + 1 /\ w = y - 1 /\ y \in Nat \ {0}
          /\ u \in Nat /\ z \in Nat
      BY <1>1, <1>2, <1>3
    <3> HIDE DEF u, y, z, v, w
    <3>3. v + w + z = n
      BY <3>1, <3>2
    <3> QED
      BY <3>3 DEF v, w, z
  <2>2. Numbers(a) \cup Numbers(f) \cup Numbers(q) = 1..n
    BY <1>1, <1>2 DEF Balanced
  <2> QED
    BY <2>1, <2>2 DEF Balanced
<1>5. Ascends(f, o)
  BY <1>1 DEF InTurn, Ascends
<1>6. \A j \in DOMAIN r : x <= o /\ r[j] <= o => x < r[j]
  BY <1>1, <1>3 DEF InTurn
<1>7. Reversed(a, o)
  <2>1. ASSUME NEW i \in DOMAIN a, NEW j \in DOMAIN a, i < j, a[i] <= o, a[j] <= o
        PROVE  a[i] > a[j]
    <3>1. i \in DOMAIN r
      BY <1>2, <1>3, <2>1
    <3>2. CASE j \in DOMAIN r
      BY <1>2, <2>1, <3>1, <3>2 DEF InTurn, Reversed
    <3>3. CASE j = L
      BY <1>1, <1>2, <1>6, <2>1, <3>1, <3>3
    <3> QED
      BY <1>2, <3>2, <3>3
  <2> QED
    BY <2>1 DEF Reversed
<1>8. \A i \in DOMAIN f, j \in DOMAIN a : f[i] <= o /\ a[j] <= o => f[i] < a[j]
  <2>1. ASSUME NEW i \in DOMAIN f, f[i] <= o, x <= o PROVE f[i] < x
    BY <1>1, <1>3, <2>1 DEF InTurn, Ascends
  <2>2. ASSUME NEW i \in DOMAIN f, NEW j \in DOMAIN r, f[i] <= o, r[j] <= o
        PROVE  f[i] < r[j]
    BY <1>1, <2>2 DEF InTurn
  <2>3. ASSUME NEW i \in DOMAIN f, NEW j \in DOMAIN a, f[i] <= o, a[j] <= o
        PROVE  f[i] < a[j]
    BY <1>2, <2>1, <2>2, <2>3
  <2> QED
    BY <2>3
<1>9. ~\E i \in DOMAIN q : q[i] <= o
  BY DEF InTurn
<1> QED
  BY <1>1, <1>2, <1>4, <1>5, <1>7, <1>8, <1>9 DEF InTurn

Mark(w) == IF pc[w] = "call" THEN made[w] ELSE own[w]

\* Who is outside of a hook has nothing deferred; a panic may leave a batch.
Deferred(w) ==
    /\ InHook(w) =>
           /\ Balanced(queue[w], batch[w], ran[w], made[w])
           /\ Mark(w) <= made[w] /\ InTurn(queue[w], batch[w], ran[w], Mark(w))
    /\ pc[w] = "call" => batch[w] = <<>> /\ ran[w] = <<>>
    /\ pc[w] \in {"off", "run", "wait"} => batch[w] = <<>> /\ queue[w] = <<>>
    /\ holder = w => InHook(w)

DeferShape ==
    /\ queue \in [Workers -> Seq(Nat)]
    /\ batch \in [Workers -> Seq(Nat)]
    /\ ran \in [Workers -> Seq(Nat)]
    /\ made \in [Workers -> Nat]
    /\ own \in [Workers -> Nat]

DeferInv == DeferShape /\ \A w \in Workers : Deferred(w)

LEMMA NothingDeferred ==
    Balanced(<<>>, <<>>, <<>>, 0) /\ InTurn(<<>>, <<>>, <<>>, 0)
<1>1. 1..0 = {}
  OBVIOUS
<1> QED
  BY <1>1, EmptyFacts DEF Balanced, InTurn, Reversed, Ascends

LEMMA InitDeferred == Init => DeferInv
  BY HoldersAssumption, EmptyFacts
     DEF Init, DeferInv, DeferShape, Deferred, InHook, Mark

\* What a worker has deferred depends on its own state and on the holder.
LEMMA SameDeferred ==
    ASSUME NEW w \in Workers, Deferred(w), pc'[w] = pc[w],
           queue'[w] = queue[w], batch'[w] = batch[w], ran'[w] = ran[w],
           made'[w] = made[w], own'[w] = own[w], holder' = w => holder = w
    PROVE  Deferred(w)'
  BY DEF Deferred, InHook, Mark

LEMMA DeferInductive == VmInv /\ DeferInv /\ [Next]_vars => DeferInv'
<1> SUFFICES ASSUME VmInv, DeferInv, [Next]_vars PROVE DeferInv'
  OBVIOUS
<1>1. /\ pc \in [Workers -> {"off", "run", "wait", "call", "defers", "panicked"}]
      /\ \A w \in Workers : InHook(w) => holder = w /\ active = Context(w)
      /\ DeferShape /\ \A w \in Workers : Deferred(w)
  BY DEF VmInv, Shape, Exclusion, DeferInv
<1>2. \A v, w \in Workers : holder = v /\ holder = w => v = w
  OBVIOUS
<1>3. ASSUME NEW v \in Workers, NewContext(v) PROVE DeferInv'
  <2>1. DeferShape'
    BY <1>1, <1>3, EmptyFacts DEF NewContext, DeferShape
  <2>2. Deferred(v)'
    BY <1>1, <1>3 DEF NewContext, Goes, Deferred, InHook, DeferShape
  <2>3. ASSUME NEW w \in Workers, w # v PROVE Deferred(w)'
    BY <1>1, <1>3, <2>3, SameDeferred DEF NewContext, Goes, DeferShape
  <2> QED
    BY <2>1, <2>2, <2>3 DEF DeferInv
<1>4. ASSUME NEW v \in Workers, Ask(v) \/ EnterFails(v) \/ Cleanup(v) PROVE DeferInv'
  <2>1. /\ DeferShape' /\ UNCHANGED <<hookVars, holder>>
        /\ pc[v] \in {"run", "wait"} /\ pc'[v] \in {"off", "run", "wait"}
        /\ \A w \in Workers : w # v => pc'[w] = pc[w]
    BY <1>1, <1>4 DEF Ask, EnterFails, Cleanup, Goes, hookVars, DeferShape
  <2>2. Deferred(v)'
    BY <1>1, <2>1 DEF Deferred, InHook, hookVars
  <2>3. ASSUME NEW w \in Workers, w # v PROVE Deferred(w)'
    BY <1>1, <2>1, <2>3, SameDeferred DEF hookVars
  <2> QED
    BY <2>1, <2>2, <2>3 DEF DeferInv
<1>5. ASSUME NEW v \in Workers, Enter(v) PROVE DeferInv'
  <2>1. DeferShape'
    BY <1>1, <1>5, EmptyFacts DEF Enter, DeferShape
  <2>2. /\ queue'[v] = <<>> /\ batch'[v] = <<>> /\ ran'[v] = <<>> /\ made'[v] = 0
        /\ pc'[v] = "call"
    BY <1>1, <1>5 DEF Enter, Goes, Deferred, DeferShape
  <2>3. Deferred(v)'
    BY <2>2, NothingDeferred DEF Deferred, InHook, Mark
  <2>4. ASSUME NEW w \in Workers, w # v PROVE Deferred(w)'
    BY <1>1, <1>5, <2>4, SameDeferred DEF Enter, Goes, DeferShape
  <2> QED
    BY <2>1, <2>3, <2>4 DEF DeferInv
<1>6. ASSUME NEW v \in Workers, Defer(v) PROVE DeferInv'
  <2> DEFINE q == queue[v]
             b == batch[v]
             r == ran[v]
             n == made[v]
             o == Mark(v)
  <2>1. InHook(v) /\ active[1] = v
    BY <1>1, <1>6 DEF Defer, Deferred, Context
  <2>2. /\ q \in Seq(Nat) /\ b \in Seq(Nat) /\ r \in Seq(Nat) /\ n \in Nat
        /\ o \in 0..n /\ Balanced(q, b, r, n) /\ InTurn(q, b, r, o)
        /\ pc[v] = "call" => b = <<>> /\ r = <<>> /\ o = n
    BY <1>1, <2>1 DEF Deferred, DeferShape, Mark
  <2>3. /\ queue' = [queue EXCEPT ![v] = Append(q, n + 1)]
        /\ made' = [made EXCEPT ![v] = n + 1]
        /\ UNCHANGED <<holder, pc, batch, ran, own>>
    BY <1>6, <2>1 DEF Defer
  <2>4. Mark(v)' = o \/ (pc[v] = "call" /\ Mark(v)' = n + 1)
    BY <1>1, <2>3 DEF Mark, DeferShape
  <2>5. Mark(v)' \in Nat /\ Mark(v)' <= n + 1
    BY <2>2, <2>4
  <2>6. /\ Append(q, n + 1) \in Seq(Nat)
        /\ Balanced(Append(q, n + 1), b, r, n + 1)
        /\ InTurn(Append(q, n + 1), b, r, Mark(v)')
    BY <2>2, <2>4, <2>5, DeferFits
  <2>7. /\ queue'[v] = Append(q, n + 1) /\ made'[v] = n + 1
        /\ batch'[v] = b /\ ran'[v] = r
    BY <1>1, <2>3 DEF DeferShape
  <2>8. DeferShape'
    BY <1>1, <2>2, <2>3, <2>6 DEF DeferShape
  <2>9. Deferred(v)'
    <3>1. pc'[v] = pc[v] /\ InHook(v)' /\ (pc[v] = "call" => b = <<>> /\ r = <<>>)
      BY <2>1, <2>2, <2>3 DEF InHook
    <3> HIDE DEF q, b, r, n, o
    <3>2. /\ Balanced(queue'[v], batch'[v], ran'[v], made'[v])
          /\ InTurn(queue'[v], batch'[v], ran'[v], Mark(v)')
          /\ Mark(v)' <= made'[v]
      BY <2>5, <2>6, <2>7
    <3> QED
      BY <2>1, <2>7, <3>1, <3>2 DEF Deferred, InHook
  <2>10. ASSUME NEW w \in Workers, w # v PROVE Deferred(w)'
    BY <1>1, <2>3, <2>10, SameDeferred DEF DeferShape
  <2> QED
    BY <2>8, <2>9, <2>10 DEF DeferInv
<1>7. ASSUME NEW v \in Workers, Return(v) PROVE DeferInv'
  <2>1. /\ pc[v] = "call" /\ pc'[v] = "defers" /\ own' = [own EXCEPT ![v] = made[v]]
        /\ UNCHANGED <<holder, queue, batch, made, ran>>
        /\ \A w \in Workers : w # v => pc'[w] = pc[w]
    BY <1>1, <1>7 DEF Return, Goes
  <2>2. DeferShape' /\ own'[v] = made[v] /\ \A w \in Workers : w # v => own'[w] = own[w]
    BY <1>1, <2>1 DEF DeferShape
  <2>3. Mark(v)' = Mark(v) /\ Mark(v) = made[v]
    BY <2>1, <2>2 DEF Mark
  <2>4. Deferred(v)'
    BY <1>1, <2>1, <2>3 DEF Deferred, InHook
  <2>5. ASSUME NEW w \in Workers, w # v PROVE Deferred(w)'
    BY <1>1, <2>1, <2>2, <2>5, SameDeferred
  <2> QED
    BY <2>2, <2>4, <2>5 DEF DeferInv
<1>8. ASSUME NEW v \in Workers, Swap(v) PROVE DeferInv'
  <2>1. /\ pc[v] = "defers" /\ batch[v] = <<>>
        /\ batch' = [batch EXCEPT ![v] = queue[v]]
        /\ queue' = [queue EXCEPT ![v] = <<>>]
        /\ UNCHANGED <<holder, pc, made, own, ran>>
    BY <1>8 DEF Swap
  <2>2. DeferShape' /\ batch'[v] = queue[v] /\ queue'[v] = <<>>
    BY <1>1, <2>1, EmptyFacts DEF DeferShape
  <2>3. /\ queue[v] \in Seq(Nat) /\ ran[v] \in Seq(Nat) /\ made[v] \in Nat
        /\ own[v] \in 0..made[v] /\ Mark(v) = own[v] /\ Mark(v)' = own[v]
        /\ Balanced(queue[v], <<>>, ran[v], made[v])
        /\ InTurn(queue[v], <<>>, ran[v], own[v])
    BY <1>1, <2>1 DEF Deferred, DeferShape, InHook, Mark
  <2>4. Balanced(<<>>, queue[v], ran[v], made[v]) /\ InTurn(<<>>, queue[v], ran[v], own[v])
    BY <2>3, SwapFits
  <2>5. Deferred(v)'
    BY <1>1, <2>1, <2>2, <2>3, <2>4 DEF Deferred, InHook
  <2>6. ASSUME NEW w \in Workers, w # v PROVE Deferred(w)'
    BY <1>1, <2>1, <2>6, SameDeferred DEF DeferShape
  <2> QED
    BY <2>2, <2>5, <2>6 DEF DeferInv
<1>9. ASSUME NEW v \in Workers, RunLast(v) PROVE DeferInv'
  <2> DEFINE f == SubSeq(batch[v], 1, Len(batch[v]) - 1)
             a == Append(ran[v], batch[v][Len(batch[v])])
  <2>1. /\ pc[v] = "defers" /\ batch[v] # <<>>
        /\ batch' = [batch EXCEPT ![v] = f] /\ ran' = [ran EXCEPT ![v] = a]
        /\ UNCHANGED <<holder, pc, queue, made, own>>
    BY <1>9 DEF RunLast
  <2>2. /\ queue[v] \in Seq(Nat) /\ batch[v] \in Seq(Nat) /\ ran[v] \in Seq(Nat)
        /\ made[v] \in Nat /\ own[v] \in 0..made[v]
        /\ Mark(v) = own[v] /\ Mark(v)' = own[v]
        /\ Balanced(queue[v], batch[v], ran[v], made[v])
        /\ InTurn(queue[v], batch[v], ran[v], own[v])
    BY <1>1, <2>1 DEF Deferred, DeferShape, InHook, Mark
  <2>3. /\ f \in Seq(Nat) /\ a \in Seq(Nat)
        /\ Balanced(queue[v], f, a, made[v]) /\ InTurn(queue[v], f, a, own[v])
    BY <2>1, <2>2, RunFits
  <2> HIDE DEF f, a
  <2>4. DeferShape' /\ batch'[v] = f /\ ran'[v] = a
    BY <1>1, <2>1, <2>3 DEF DeferShape
  <2>5. Deferred(v)'
    BY <1>1, <2>1, <2>2, <2>3, <2>4 DEF Deferred, InHook
  <2>6. ASSUME NEW w \in Workers, w # v PROVE Deferred(w)'
    BY <1>1, <2>1, <2>6, SameDeferred DEF DeferShape
  <2> QED
    BY <2>4, <2>5, <2>6 DEF DeferInv
<1>10. ASSUME NEW v \in Workers, Done(v) \/ Panic(v) PROVE DeferInv'
  <2>1. /\ DeferShape' /\ UNCHANGED hookVars /\ holder' = Nobody
        /\ \/ pc'[v] = "panicked"
           \/ pc'[v] = "run" /\ batch[v] = <<>> /\ queue[v] = <<>>
        /\ \A w \in Workers : w # v => pc'[w] = pc[w]
    BY <1>1, <1>10 DEF Done, Panic, Goes, hookVars, DeferShape
  <2>2. Nobody \notin Workers
    BY HoldersAssumption
  <2>3. Deferred(v)'
    BY <2>1, <2>2 DEF Deferred, InHook, hookVars
  <2>4. ASSUME NEW w \in Workers, w # v PROVE Deferred(w)'
    BY <1>1, <2>1, <2>2, <2>4, SameDeferred DEF hookVars
  <2> QED
    BY <2>1, <2>3, <2>4 DEF DeferInv
<1>11. CASE Join \/ JoinPanicked \/ Finishing \/ Finished \/ UNCHANGED vars
  <2>1. /\ UNCHANGED <<pc, queue, batch, made, own, ran>>
        /\ holder' \in {holder, Loop, Nobody}
    BY <1>11 DEF Join, JoinPanicked, Finishing, Finished, hookVars, vars
  <2>2. Loop \notin Workers /\ Nobody \notin Workers
    BY HoldersAssumption
  <2>3. DeferShape' /\ \A w \in Workers : Deferred(w)'
    BY <1>1, <2>1, <2>2, SameDeferred DEF DeferShape
  <2> QED
    BY <2>3 DEF DeferInv
<1> QED
  BY <1>3, <1>4, <1>5, <1>6, <1>7, <1>8, <1>9, <1>10, <1>11 DEF Next, HookStep

\* A hook ends in Done, with nothing left to run.
LEMMA DoneRanAll ==
    ASSUME VmInv, DeferInv, [Next]_vars, NEW w \in Workers,
           InHook(w), pc'[w] = "run"
    PROVE  /\ Len(ran[w]) = made[w] /\ Numbers(ran[w]) = 1..made[w]
           /\ Reversed(ran[w], own[w])
<1>1. pc \in [Workers -> {"off", "run", "wait", "call", "defers", "panicked"}]
  BY DEF VmInv, Shape
<1>2. Done(w)
  <2>1. ASSUME NEW v \in Workers, NewContext(v) \/ Ask(v) \/ Enter(v) \/ EnterFails(v)
                                  \/ Cleanup(v) \/ Panic(v) \/ Return(v)
        PROVE  FALSE
    BY <1>1, <2>1 DEF NewContext, Ask, Enter, EnterFails, Cleanup, Panic, Return, Goes,
       InHook
  <2>2. ASSUME NEW v \in Workers, Defer(v) \/ Swap(v) \/ RunLast(v) PROVE FALSE
    BY <2>2 DEF Defer, Swap, RunLast, InHook
  <2>3. ASSUME NEW v \in Workers, Done(v) PROVE v = w
    BY <1>1, <2>3 DEF Done, Goes, InHook
  <2>4. CASE Join \/ JoinPanicked \/ Finishing \/ Finished \/ UNCHANGED vars
    BY <2>4 DEF Join, JoinPanicked, Finishing, Finished, vars, InHook
  <2> QED
    BY <2>1, <2>2, <2>3, <2>4 DEF Next, HookStep
<1>3. /\ Balanced(<<>>, <<>>, ran[w], made[w])
      /\ InTurn(<<>>, <<>>, ran[w], own[w])
  BY <1>2 DEF DeferInv, Deferred, InHook, Mark, Done, Goes
<1>4. Len(ran[w]) \in Nat
  BY DEF DeferInv, DeferShape
<1> DEFINE n == Len(ran[w])
<1>5. n = made[w]
  <2>1. n + 0 + 0 = made[w] /\ n \in Nat
    BY <1>3, <1>4, EmptyFacts DEF Balanced
  <2> HIDE DEF n
  <2> QED
    BY <2>1
<1>6. Numbers(ran[w]) = 1..made[w]
  BY <1>3, EmptyFacts DEF Balanced
<1> QED
  BY <1>3, <1>5, <1>6 DEF InTurn

(***************************************************************************)
(* However a hook ends, what was deferred during it has run once, and what *)
(* it deferred itself in reverse order; other workers' hooks in between,   *)
(* panics and full queues do not change that.                              *)
(***************************************************************************)
THEOREM DeferredAlwaysRun == Spec => DeferredRunOnce
<1> DEFINE RanAll ==
        \A w \in Workers :
          pc[w] \in {"call", "defers"} /\ pc'[w] = "run" =>
              /\ Len(ran[w]) = made[w]
              /\ {ran[w][i] : i \in DOMAIN ran[w]} = 1..made[w]
              /\ Reversed(ran[w], own[w])
<1>1. VmInv /\ DeferInv /\ [Next]_vars => [RanAll]_vars
  BY DoneRanAll DEF InHook, Numbers
<1>2. Spec => []DeferInv
  BY VmInvariant, InitDeferred, DeferInductive, PTL DEF Spec
<1> QED
  BY <1>1, <1>2, VmInvariant, PTL DEF Spec, DeferredRunOnce
=============================================================================
