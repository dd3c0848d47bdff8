--------------------------- MODULE DataFlowProofs ---------------------------
(***************************************************************************)
(* Proofs about the parts that data flows through: the lines of a log, the *)
(* requests to the API, the items of a cycle and the fetches of a worker.  *)
(* As in ServicesProofs, the invariant of a part is inductive for the sum  *)
(* when it is for the part.                                                *)
(***************************************************************************)
EXTENDS Services, FiniteSetTheorems, TLAPS

LEMMA StepOfApi ==
    ASSUME [SumNext]_sumVars
    PROVE  part' = part /\ (part = "api" => [API!Next]_(API!vars))
  BY DEF SumNext, sumVars, IoStep, KvStep, BrStep, PgStep, LfStep, ApiStep, HsStep,
         RpStep, RaStep, RhStep, UpStep, JcStep, apiVars, API!vars

LEMMA StepOfLogs ==
    ASSUME [SumNext]_sumVars
    PROVE  part' = part /\ (part = "logs" => [LF!Next]_(LF!vars))
  BY DEF SumNext, sumVars, IoStep, KvStep, BrStep, PgStep, LfStep, ApiStep, HsStep,
         RpStep, RaStep, RhStep, UpStep, JcStep, lfVars, LF!vars

LEMMA StepOfStages ==
    ASSUME [SumNext]_sumVars
    PROVE  part' = part /\ (part = "stages" => [HS!Next]_(HS!vars))
  BY DEF SumNext, sumVars, IoStep, KvStep, BrStep, PgStep, LfStep, ApiStep, HsStep,
         RpStep, RaStep, RhStep, UpStep, JcStep, hsVars, HS!vars

LEMMA StepOfRequests ==
    ASSUME [SumNext]_sumVars
    PROVE  part' = part /\ (part = "requests" => [RH!Next]_(RH!vars))
  BY DEF SumNext, sumVars, IoStep, KvStep, BrStep, PgStep, LfStep, ApiStep, HsStep,
         RpStep, RaStep, RhStep, UpStep, JcStep, rhVars, RH!vars

-----------------------------------------------------------------------------
(***************************************************************************)
(* ApiServer.  Every function that a request has deferred is waiting in    *)
(* the queue or in the batch that runs, or has run, and is nowhere twice:  *)
(* their numbers add up.  What follows the key's check knows its result.   *)
(***************************************************************************)
Handlers == {"get", "all", "public.get", "public.all"}

RequestRecord ==
    [at : {"new", "routed", "loading", "resolving", "handling", "deferred",
           "sweeping", "answered"},
     path : {"public", "v", "records", "jobs", "other", "static"},
     keyed : BOOLEAN, defines : SUBSET (Handlers \cup {"missing", "error"}),
     made : Nat, queue : Seq(Nat), batch : Seq(Nat), ran : Seq(Nat),
     called : Handlers \cup {"none", "failed"}, late : BOOLEAN, answer : Nat]

Numbers(s) == {s[i] : i \in 1..Len(s)}

NoneIsLost(q) ==
    /\ Len(q.ran) + Len(q.batch) + Len(q.queue) = q.made
    /\ Numbers(q.ran) \cup Numbers(q.batch) \cup Numbers(q.queue) = 1..q.made
    /\ q.at # "sweeping" => q.batch = <<>>
    /\ q.at = "answered" /\ q.called # "none" => q.queue = <<>>

KeyWasChecked(q) ==
    /\ q.at \in {"routed", "loading", "resolving", "handling", "deferred", "sweeping"}
       => q.path \in {"public", "v"} /\ (q.path = "public" \/ (HasKey => q.keyed))
    /\ q.at \in {"new", "routed", "loading", "resolving"} => q.called = "none"
    /\ q.called \in {"public.get", "public.all"} => q.path = "public"
    /\ q.called \in {"get", "all"} => q.path = "v" /\ (HasKey => q.keyed)

RequestFits(q) == q \in RequestRecord /\ NoneIsLost(q) /\ KeyWasChecked(q)

ApiInv ==
    /\ init \subseteq Handlers \cup {"missing", "error"}
    /\ req \in [Requests -> RequestRecord]
    /\ \A r \in Requests : RequestFits(req[r])

LEMMA EmptyHasNoNumbers == Len(<<>>) = 0 /\ Numbers(<<>>) = {} /\ <<>> \in Seq(Nat)
  BY DEF Numbers

LEMMA AppendNumbers ==
    ASSUME NEW s \in Seq(Nat), NEW n \in Nat
    PROVE  /\ Append(s, n) \in Seq(Nat) /\ Len(Append(s, n)) = Len(s) + 1
           /\ Numbers(Append(s, n)) = Numbers(s) \cup {n}
<1>1. /\ Append(s, n) \in Seq(Nat) /\ Len(Append(s, n)) = Len(s) + 1
      /\ \A i \in 1..Len(s) : Append(s, n)[i] = s[i]
      /\ Append(s, n)[Len(s) + 1] = n
  OBVIOUS
<1>2. 1..(Len(s) + 1) = 1..Len(s) \cup {Len(s) + 1}
  BY <1>1
<1> QED
  BY <1>1, <1>2 DEF Numbers

LEMMA TailNumbers ==
    ASSUME NEW s \in Seq(Nat), s # <<>>
    PROVE  /\ Tail(s) \in Seq(Nat) /\ Head(s) \in Nat /\ Len(Tail(s)) = Len(s) - 1
           /\ Numbers(s) = Numbers(Tail(s)) \cup {Head(s)}
<1>1. /\ Tail(s) \in Seq(Nat) /\ Len(Tail(s)) = Len(s) - 1 /\ Len(s) \in Nat \ {0}
      /\ \A i \in 1..(Len(s) - 1) : Tail(s)[i] = s[i + 1]
      /\ Head(s) = s[1] /\ s[1] \in Nat
  OBVIOUS
<1>2. ASSUME NEW x \in Numbers(s) PROVE x \in Numbers(Tail(s)) \cup {Head(s)}
  <2>1. PICK i \in 1..Len(s) : x = s[i]
    BY <1>2 DEF Numbers
  <2>2. CASE i = 1
    BY <2>1, <2>2, <1>1
  <2>3. CASE i # 1
    <3>1. i - 1 \in 1..Len(Tail(s)) /\ Tail(s)[i - 1] = s[i]
      BY <2>3, <1>1
    <3> QED
      BY <2>1, <3>1 DEF Numbers
  <2> QED
    BY <2>2, <2>3
<1>3. ASSUME NEW x \in Numbers(Tail(s)) \cup {Head(s)} PROVE x \in Numbers(s)
  <2>1. CASE x = Head(s)
    BY <2>1, <1>1 DEF Numbers
  <2>2. CASE x \in Numbers(Tail(s))
    <3>1. PICK i \in 1..Len(Tail(s)) : x = Tail(s)[i]
      BY <2>2 DEF Numbers
    <3>2. i + 1 \in 1..Len(s) /\ s[i + 1] = x
      BY <3>1, <1>1
    <3> QED
      BY <3>2 DEF Numbers
  <2> QED
    BY <1>3, <2>1, <2>2
<1> QED
  BY <1>1, <1>2, <1>3

LEMMA ReverseNumbers ==
    ASSUME NEW s \in Seq(Nat)
    PROVE  /\ API!Reverse(s) \in Seq(Nat) /\ Len(API!Reverse(s)) = Len(s)
           /\ Numbers(API!Reverse(s)) = Numbers(s)
<1> DEFINE t == API!Reverse(s)
<1>1. Len(s) \in Nat /\ \A i \in 1..Len(s) : (Len(s) - i) + 1 \in 1..Len(s)
  OBVIOUS
<1>2. t \in Seq(Nat) /\ Len(t) = Len(s) /\ \A i \in 1..Len(s) : t[i] = s[(Len(s) - i) + 1]
  BY <1>1 DEF API!Reverse
<1>3. \A i \in 1..Len(s) : t[(Len(s) - i) + 1] = s[i]
  <2> TAKE i \in 1..Len(s)
  <2>1. (Len(s) - ((Len(s) - i) + 1)) + 1 = i
    BY <1>1
  <2> QED
    BY <1>1, <1>2, <2>1
<1> HIDE DEF t
<1>4. ASSUME NEW x \in Numbers(s) PROVE x \in Numbers(t)
  <2>1. PICK i \in 1..Len(s) : x = s[i]
    BY <1>4 DEF Numbers
  <2>2. (Len(s) - i) + 1 \in 1..Len(t) /\ t[(Len(s) - i) + 1] = x
    BY <1>1, <1>2, <1>3, <2>1
  <2> QED
    BY <2>2 DEF Numbers
<1>5. ASSUME NEW x \in Numbers(t) PROVE x \in Numbers(s)
  <2>1. PICK i \in 1..Len(t) : x = t[i]
    BY <1>5 DEF Numbers
  <2>2. (Len(s) - i) + 1 \in 1..Len(s) /\ s[(Len(s) - i) + 1] = x
    BY <1>1, <1>2, <2>1
  <2> QED
    BY <2>2 DEF Numbers
<1> QED
  BY <1>2, <1>4, <1>5 DEF t

\* The sum of the three lengths when one function is moved or added.
LEMMA MovedSum ==
    ASSUME NEW q, Len(q.ran) \in Nat, Len(q.batch) \in Nat, Len(q.queue) \in Nat,
           Len(q.ran) + Len(q.batch) + Len(q.queue) = q.made
    PROVE  /\ (Len(q.ran) + 1) + (Len(q.batch) - 1) + Len(q.queue) = q.made
           /\ Len(q.ran) + Len(q.batch) + (Len(q.queue) + 1) = q.made + 1
           /\ Len(q.batch) = 0 => Len(q.ran) + Len(q.queue) + 0 = q.made
<1> DEFINE ran == Len(q.ran)
           batch == Len(q.batch)
           queued == Len(q.queue)
           made == q.made
<1>1. ran \in Nat /\ batch \in Nat /\ queued \in Nat /\ ran + batch + queued = made
  OBVIOUS
<1> HIDE DEF ran, batch, queued, made
<1>2. /\ (ran + 1) + (batch - 1) + queued = made
      /\ ran + batch + (queued + 1) = made + 1
      /\ batch = 0 => ran + queued + 0 = made
  BY <1>1
<1> QED
  BY <1>2 DEF ran, batch, queued, made

\* resolve_handler finds one of the path's own tables, or none.
LEMMA HandlerOfPath ==
    ASSUME NEW q \in RequestRecord
    PROVE  API!HandlerOf(q) \in IF q.path = "public" THEN {"public.get", "public.all", "none"}
                                                     ELSE {"get", "all", "none"}
<1>1. ASSUME NEW x, NEW y
      PROVE  API!FirstDefined(<<x, y>>, q) \in {x, y, "none"}
  <2> DEFINE places == {i \in DOMAIN <<x, y>> : <<x, y>>[i] \in q.defines}
  <2>1. DOMAIN <<x, y>> = {1, 2} /\ <<x, y>>[1] = x /\ <<x, y>>[2] = y
    OBVIOUS
  <2>2. ASSUME places # {} PROVE API!Min(places) \in {1, 2}
    <3>1. places \subseteq {1, 2}
      BY <2>1
    <3>2. \E i \in places : \A k \in places : i <= k
      BY <2>2, <3>1
    <3> HIDE DEF places
    <3> QED
      BY <3>1, <3>2 DEF API!Min
  <2> QED
    BY <2>1, <2>2 DEF API!FirstDefined
<1> QED
  BY <1>1 DEF API!HandlerOf

\* One request becomes another record, and the rest stays as it is.
LEMMA StepFits ==
    ASSUME ApiInv, NEW r \in Requests, NEW at0, NEW after, RequestFits(after),
           API!Steps(r, at0, after)
    PROVE  ApiInv'
<1> USE DEF API!Steps
<1>1. req' \in [Requests -> RequestRecord]
  BY DEF ApiInv, RequestFits
<1>2. \A q \in Requests : RequestFits(req'[q])
  BY DEF ApiInv
<1> QED
  BY <1>1, <1>2 DEF ApiInv

LEMMA InitApi == API!Init => ApiInv
<1> SUFFICES ASSUME API!Init PROVE ApiInv
  OBVIOUS
<1>1. API!New \in RequestRecord
  BY EmptyHasNoNumbers DEF API!New, RequestRecord, Handlers
<1>2. RequestFits(API!New)
  BY <1>1, EmptyHasNoNumbers DEF RequestFits, NoneIsLost, KeyWasChecked, API!New
<1> QED
  BY <1>1, <1>2 DEF API!Init, ApiInv, Handlers

\* The record of a request in some place.
LEMMA RequestAt ==
    ASSUME ApiInv, NEW r \in Requests
    PROVE  /\ RequestFits(req[r]) /\ req[r] \in RequestRecord
           /\ Len(req[r].ran) \in Nat /\ Len(req[r].batch) \in Nat
           /\ Len(req[r].queue) \in Nat
<1>1. RequestFits(req[r]) /\ req[r] \in RequestRecord
  BY DEF ApiInv, RequestFits
<1> QED
  BY <1>1 DEF RequestRecord

LEMMA RouteFits ==
    ASSUME ApiInv, NEW r \in Requests, NEW path \in API!Paths, NEW keyed \in BOOLEAN,
           NEW named \in BOOLEAN, API!Route(r, path, keyed, named)
    PROVE  ApiInv'
<1> DEFINE q == req[r]
           seen == [q EXCEPT !.path = path, !.keyed = keyed]
           after == IF ~API!Authorized(path, keyed) THEN API!Answered(seen, 401)
                    ELSE IF path \in {"public", "v"}
                         THEN IF named THEN [seen EXCEPT !.at = "routed"]
                              ELSE API!Answered(seen, 404)
                    ELSE IF path = "other" THEN API!Answered(seen, 404)
                    ELSE API!Answered(seen, 200)
<1>1. RequestFits(q) /\ q.at = "new"
  BY RequestAt DEF API!Route, API!Steps
<1>2. /\ seen \in RequestRecord /\ seen.path = path /\ seen.keyed = keyed
      /\ seen.at = "new" /\ seen.called = "none" /\ seen.batch = <<>>
      /\ seen.ran = q.ran /\ seen.queue = q.queue /\ seen.made = q.made
  BY <1>1 DEF RequestFits, RequestRecord, API!Paths, NoneIsLost, KeyWasChecked
<1>3. API!Steps(r, "new", after)
  BY DEF API!Route
<1> HIDE DEF seen
<1>4. ASSUME NEW status \in Nat PROVE RequestFits(API!Answered(seen, status))
  BY <1>1, <1>2 DEF API!Answered, RequestFits, RequestRecord, NoneIsLost, KeyWasChecked
<1>5. ASSUME path \in {"public", "v"}, API!Authorized(path, keyed)
      PROVE  RequestFits([seen EXCEPT !.at = "routed"])
  BY <1>1, <1>2, <1>5 DEF API!Authorized, RequestFits, RequestRecord, NoneIsLost,
     KeyWasChecked
<1>6. RequestFits(after)
  BY <1>4, <1>5
<1> HIDE DEF after
<1> QED
  BY <1>3, <1>6, StepFits

LEMMA SwapFits ==
    ASSUME ApiInv, NEW r \in Requests, API!Swap(r)
    PROVE  ApiInv'
<1> DEFINE q == req[r]
           swapped == [q EXCEPT !.at = "sweeping", !.batch = API!Reverse(q.queue),
                                !.queue = <<>>]
           after == IF q.queue = <<>>
                    THEN API!Answered(q, IF q.called = "failed" THEN 500 ELSE 200)
                    ELSE swapped
<1>1. /\ RequestFits(q) /\ q \in RequestRecord
      /\ Len(q.ran) \in Nat /\ Len(q.batch) \in Nat /\ Len(q.queue) \in Nat
  BY RequestAt
<1>2. q.at = "deferred" /\ API!Steps(r, "deferred", after)
  BY DEF API!Swap, API!Steps
<1>3. ASSUME q.queue = <<>>, NEW status \in Nat
      PROVE  RequestFits(API!Answered(q, status))
  <2> DEFINE answered == API!Answered(q, status)
  <2>1. /\ answered \in RequestRecord /\ answered.at = "answered"
        /\ answered.batch = q.batch /\ answered.queue = q.queue
        /\ answered.ran = q.ran /\ answered.made = q.made
        /\ answered.called = q.called /\ answered.path = q.path
        /\ answered.keyed = q.keyed
    BY <1>1, <1>3 DEF API!Answered, RequestRecord
  <2> HIDE DEF answered
  <2>2. NoneIsLost(answered)
    BY <1>1, <1>2, <1>3, <2>1 DEF RequestFits, NoneIsLost
  <2>3. KeyWasChecked(answered)
    BY <1>1, <1>2, <2>1 DEF RequestFits, KeyWasChecked
  <2> QED
    BY <2>1, <2>2, <2>3 DEF RequestFits, answered
<1>4. q.queue \in Seq(Nat) /\ q.batch = <<>>
  BY <1>1, <1>2 DEF RequestFits, RequestRecord, NoneIsLost
<1>5. /\ API!Reverse(q.queue) \in Seq(Nat) /\ Len(API!Reverse(q.queue)) = Len(q.queue)
      /\ Numbers(API!Reverse(q.queue)) = Numbers(q.queue)
  BY <1>4, ReverseNumbers
<1>6. /\ swapped \in RequestRecord /\ swapped.at = "sweeping"
      /\ swapped.batch = API!Reverse(q.queue) /\ swapped.queue = <<>>
      /\ swapped.ran = q.ran /\ swapped.made = q.made /\ swapped.called = q.called
      /\ swapped.path = q.path /\ swapped.keyed = q.keyed
  BY <1>1, <1>5, EmptyHasNoNumbers DEF RequestRecord
<1> HIDE DEF swapped
<1>7. NoneIsLost(swapped)
  <2>1. /\ Len(q.ran) + Len(q.batch) + Len(q.queue) = q.made
        /\ Numbers(q.ran) \cup Numbers(q.batch) \cup Numbers(q.queue) = 1..q.made
    BY <1>1 DEF RequestFits, NoneIsLost
  <2>2. Len(swapped.ran) + Len(swapped.batch) + Len(swapped.queue) = swapped.made
    <3>1. /\ Len(swapped.ran) = Len(q.ran) /\ Len(q.batch) = 0
          /\ Len(swapped.batch) = Len(q.queue) /\ Len(swapped.queue) = 0
          /\ swapped.made = q.made
      BY <1>4, <1>5, <1>6, EmptyHasNoNumbers
    <3>2. Len(q.ran) \in Nat /\ Len(q.queue) \in Nat
      BY <1>1
    <3>3. Len(q.ran) + Len(q.queue) + 0 = q.made
      BY <1>1, <2>1, <3>1, MovedSum
    <3> QED
      BY <3>1, <3>2, <3>3
  <2>3. Numbers(swapped.ran) \cup Numbers(swapped.batch) \cup Numbers(swapped.queue)
        = 1..swapped.made
    BY <1>4, <1>5, <1>6, <2>1, EmptyHasNoNumbers
  <2> QED
    BY <1>6, <2>2, <2>3 DEF NoneIsLost
<1>8. KeyWasChecked(swapped)
  BY <1>1, <1>2, <1>6 DEF RequestFits, KeyWasChecked
<1>9. RequestFits(after)
  BY <1>3, <1>6, <1>7, <1>8 DEF RequestFits
<1> HIDE DEF after
<1> QED
  BY <1>2, <1>9, StepFits

LEMMA RunNextFits ==
    ASSUME ApiInv, NEW r \in Requests, API!RunNext(r)
    PROVE  ApiInv'
<1> DEFINE q == req[r]
           called == [q EXCEPT !.batch = Tail(q.batch),
                               !.ran = Append(q.ran, Head(q.batch))]
           after == IF q.batch = <<>> THEN [q EXCEPT !.at = "deferred"] ELSE called
<1>1. /\ RequestFits(q) /\ q \in RequestRecord
      /\ Len(q.ran) \in Nat /\ Len(q.batch) \in Nat /\ Len(q.queue) \in Nat
  BY RequestAt
<1>2. q.at = "sweeping" /\ API!Steps(r, "sweeping", after)
  BY DEF API!RunNext, API!Steps
<1>3. ASSUME q.batch = <<>> PROVE RequestFits([q EXCEPT !.at = "deferred"])
  BY <1>1, <1>2, <1>3 DEF RequestFits, RequestRecord, NoneIsLost, KeyWasChecked
<1>4. ASSUME q.batch # <<>> PROVE RequestFits(called)
  <2>1. q.batch \in Seq(Nat) /\ q.ran \in Seq(Nat)
    BY <1>1 DEF RequestRecord
  <2>2. /\ Tail(q.batch) \in Seq(Nat) /\ Head(q.batch) \in Nat
        /\ Len(Tail(q.batch)) = Len(q.batch) - 1
        /\ Numbers(q.batch) = Numbers(Tail(q.batch)) \cup {Head(q.batch)}
    BY <1>4, <2>1, TailNumbers
  <2>3. /\ Append(q.ran, Head(q.batch)) \in Seq(Nat)
        /\ Len(Append(q.ran, Head(q.batch))) = Len(q.ran) + 1
        /\ Numbers(Append(q.ran, Head(q.batch))) = Numbers(q.ran) \cup {Head(q.batch)}
    BY <2>1, <2>2, AppendNumbers
  <2>4. /\ called \in RequestRecord /\ called.at = q.at
        /\ called.batch = Tail(q.batch) /\ called.queue = q.queue
        /\ called.ran = Append(q.ran, Head(q.batch)) /\ called.made = q.made
        /\ called.called = q.called /\ called.path = q.path /\ called.keyed = q.keyed
    BY <1>1, <2>2, <2>3 DEF RequestRecord
  <2> HIDE DEF called
  <2>5. NoneIsLost(called)
    <3>1. /\ Len(q.ran) + Len(q.batch) + Len(q.queue) = q.made
          /\ Numbers(q.ran) \cup Numbers(q.batch) \cup Numbers(q.queue) = 1..q.made
      BY <1>1 DEF RequestFits, NoneIsLost
    <3>2. Len(called.ran) + Len(called.batch) + Len(called.queue) = called.made
      <4>1. /\ Len(called.ran) = Len(q.ran) + 1 /\ Len(called.batch) = Len(q.batch) - 1
            /\ Len(called.queue) = Len(q.queue) /\ called.made = q.made
        BY <2>2, <2>3, <2>4
      <4>2. Len(q.ran) \in Nat /\ Len(q.batch) \in Nat /\ Len(q.queue) \in Nat
        BY <1>1
      <4>3. (Len(q.ran) + 1) + (Len(q.batch) - 1) + Len(q.queue) = q.made
        BY <3>1, <4>2, MovedSum
      <4> QED
        BY <4>1, <4>3
    <3>3. Numbers(called.ran) \cup Numbers(called.batch) \cup Numbers(called.queue)
          = 1..called.made
      BY <2>2, <2>3, <2>4, <3>1
    <3> QED
      BY <1>2, <2>4, <3>2, <3>3 DEF NoneIsLost
  <2>6. KeyWasChecked(called)
    BY <1>1, <1>2, <2>4 DEF RequestFits, KeyWasChecked
  <2> QED
    BY <2>4, <2>5, <2>6 DEF RequestFits
<1> HIDE DEF called
<1>5. RequestFits(after)
  BY <1>3, <1>4
<1> HIDE DEF after
<1> QED
  BY <1>2, <1>5, StepFits

\* init.lua is read, it runs, and a handler is found and called.
LEMMA HandlingFits ==
    ASSUME ApiInv, NEW r \in Requests, NEW fails \in BOOLEAN,
           \/ API!ReadInit(r) \/ API!Loaded(r, fails)
           \/ API!Resolve(r) \/ API!Handled(r, fails)
    PROVE  ApiInv'
<1> DEFINE q == req[r]
<1>1. RequestFits(q) /\ init \subseteq Handlers \cup {"missing", "error"}
  BY RequestAt DEF ApiInv
<1>2. ASSUME q.at \in {"routed", "loading", "resolving"}, NEW status \in Nat
      PROVE  RequestFits(API!Answered(q, status))
  BY <1>1, <1>2 DEF API!Answered, RequestFits, RequestRecord, NoneIsLost, KeyWasChecked,
     Handlers
<1>3. CASE API!ReadInit(r)
  <2> DEFINE after == IF init = {"missing"} THEN API!Answered(q, 500)
                      ELSE [q EXCEPT !.at = "loading", !.defines = init]
  <2>1. q.at = "routed" /\ API!Steps(r, "routed", after)
    BY <1>3 DEF API!ReadInit, API!Steps
  <2>2. RequestFits([q EXCEPT !.at = "loading", !.defines = init])
    BY <1>1, <2>1 DEF RequestFits, RequestRecord, NoneIsLost, KeyWasChecked, Handlers
  <2>3. RequestFits(after)
    BY <1>2, <2>1, <2>2
  <2> HIDE DEF after
  <2> QED
    BY <2>1, <2>3, StepFits
<1>4. CASE API!Loaded(r, fails)
  <2> DEFINE after == IF fails THEN API!Answered(q, 500)
                      ELSE [q EXCEPT !.at = "resolving"]
  <2>1. q.at = "loading" /\ API!Steps(r, "loading", after)
    BY <1>4 DEF API!Loaded, API!Steps
  <2>2. RequestFits([q EXCEPT !.at = "resolving"])
    BY <1>1, <2>1 DEF RequestFits, RequestRecord, NoneIsLost, KeyWasChecked, Handlers
  <2>3. RequestFits(after)
    BY <1>2, <2>1, <2>2
  <2> HIDE DEF after
  <2> QED
    BY <2>1, <2>3, StepFits
<1>5. CASE API!Resolve(r)
  <2> DEFINE handler == API!HandlerOf(q)
             after == IF handler = "none" THEN API!Answered(q, 404)
                      ELSE [q EXCEPT !.at = "handling", !.called = handler]
  <2>1. q.at = "resolving" /\ API!Steps(r, "resolving", after)
    BY <1>5 DEF API!Resolve, API!Steps
  <2>2. handler \in IF q.path = "public" THEN {"public.get", "public.all", "none"}
                                         ELSE {"get", "all", "none"}
    BY <1>1, HandlerOfPath DEF RequestFits
  <2> HIDE DEF handler
  <2>3. RequestFits([q EXCEPT !.at = "handling", !.called = handler])
    <3> DEFINE found == [q EXCEPT !.at = "handling", !.called = handler]
    <3>1. q \in RequestRecord /\ handler \in Handlers \cup {"none", "failed"}
      BY <1>1, <2>2 DEF RequestFits, Handlers
    <3>2. /\ found \in RequestRecord /\ found.at = "handling"
          /\ found.batch = q.batch /\ found.queue = q.queue
          /\ found.ran = q.ran /\ found.made = q.made
          /\ found.called = handler /\ found.path = q.path /\ found.keyed = q.keyed
      BY <3>1 DEF RequestRecord
    <3> HIDE DEF found
    <3>3. NoneIsLost(found)
      BY <1>1, <2>1, <3>2 DEF RequestFits, NoneIsLost
    <3>4. KeyWasChecked(found)
      BY <1>1, <2>1, <2>2, <3>2 DEF RequestFits, KeyWasChecked
    <3> QED
      BY <3>2, <3>3, <3>4 DEF RequestFits, found
  <2>4. RequestFits(after)
    BY <1>2, <2>1, <2>3
  <2> HIDE DEF after
  <2> QED
    BY <2>1, <2>4, StepFits
<1>6. CASE API!Handled(r, fails)
  <2> DEFINE after == [q EXCEPT !.at = "deferred",
                                !.called = IF fails THEN "failed" ELSE q.called]
  <2>1. q.at = "handling" /\ API!Steps(r, "handling", after)
    BY <1>6 DEF API!Handled, API!Steps
  <2>2. RequestFits(after)
    BY <1>1, <2>1 DEF RequestFits, RequestRecord, NoneIsLost, KeyWasChecked, Handlers
  <2> HIDE DEF after
  <2> QED
    BY <2>1, <2>2, StepFits
<1> QED
  BY <1>3, <1>4, <1>5, <1>6

LEMMA DeferFits ==
    ASSUME ApiInv, NEW r \in Requests, API!Defer(r)
    PROVE  ApiInv'
<1> DEFINE q == req[r]
           longer == Append(q.queue, q.made + 1)
           after == [q EXCEPT !.made = q.made + 1, !.queue = longer]
<1>1. /\ RequestFits(q) /\ q \in RequestRecord
      /\ Len(q.ran) \in Nat /\ Len(q.batch) \in Nat /\ Len(q.queue) \in Nat
      /\ q.made \in Nat /\ q.queue \in Seq(Nat)
  BY RequestAt DEF RequestRecord
<1>2. q.at \in {"loading", "handling", "sweeping"} /\ API!Steps(r, q.at, after)
  BY DEF API!Defer, API!Steps
<1>3. 1..(q.made + 1) = 1..q.made \cup {q.made + 1}
  BY <1>1
<1>4. /\ longer \in Seq(Nat) /\ Len(longer) = Len(q.queue) + 1
      /\ Numbers(longer) = Numbers(q.queue) \cup {q.made + 1}
  BY <1>1, AppendNumbers
<1> HIDE DEF longer
<1>5. /\ after \in RequestRecord /\ after.at = q.at /\ after.batch = q.batch
      /\ after.queue = longer /\ after.ran = q.ran /\ after.made = q.made + 1
      /\ after.called = q.called /\ after.path = q.path /\ after.keyed = q.keyed
  <2>1. q.made + 1 \in Nat
    BY <1>1
  <2> QED
    BY <1>1, <1>4, <2>1 DEF RequestRecord
<1> HIDE DEF after
<1>6. NoneIsLost(after)
  <2>1. /\ Len(q.ran) + Len(q.batch) + Len(q.queue) = q.made
        /\ Numbers(q.ran) \cup Numbers(q.batch) \cup Numbers(q.queue) = 1..q.made
        /\ q.at # "sweeping" => q.batch = <<>>
    BY <1>1 DEF RequestFits, NoneIsLost
  <2>2. Len(after.ran) + Len(after.batch) + Len(after.queue) = after.made
    <3>1. /\ Len(after.ran) = Len(q.ran) /\ Len(after.batch) = Len(q.batch)
          /\ Len(after.queue) = Len(q.queue) + 1 /\ after.made = q.made + 1
      BY <1>4, <1>5
    <3>2. Len(q.ran) \in Nat /\ Len(q.batch) \in Nat /\ Len(q.queue) \in Nat
      BY <1>1
    <3>3. Len(q.ran) + Len(q.batch) + (Len(q.queue) + 1) = q.made + 1
      BY <2>1, <3>2, MovedSum
    <3> QED
      BY <3>1, <3>3
  <2>3. Numbers(after.ran) \cup Numbers(after.batch) \cup Numbers(after.queue)
        = 1..after.made
    BY <1>3, <1>4, <1>5, <2>1
  <2> QED
    BY <1>2, <1>5, <2>1, <2>2, <2>3 DEF NoneIsLost
<1>7. KeyWasChecked(after)
  BY <1>1, <1>5 DEF RequestFits, KeyWasChecked
<1> QED
  BY <1>2, <1>5, <1>6, <1>7, StepFits DEF RequestFits

LEMMA ApiInductive ==
    ASSUME ApiInv, [API!Next]_(API!vars)
    PROVE  ApiInv'
<1>1. CASE API!Save
  BY <1>1 DEF API!Save, API!Tables, API!SymDiff, ApiInv, Handlers
<1>2. ASSUME NEW r \in Requests, API!Timeout(r) PROVE ApiInv'
  <2>1. RequestFits(req[r])
    BY DEF ApiInv
  <2>2. RequestFits([req[r] EXCEPT !.late = TRUE])
    BY <2>1 DEF RequestFits, RequestRecord, NoneIsLost, KeyWasChecked
  <2>3. API!Steps(r, req[r].at, [req[r] EXCEPT !.late = TRUE])
    BY <1>2 DEF API!Timeout, API!Steps
  <2> QED
    BY <2>2, <2>3, StepFits
<1>3. CASE UNCHANGED API!vars
  BY <1>3 DEF API!vars, ApiInv
<1> QED
  BY <1>1, <1>2, <1>3, RouteFits, SwapFits, RunNextFits, HandlingFits, DeferFits DEF API!Next

LEMMA ApiInvariant == SumSpec => [](part = "api" => ApiInv)
<1>1. SumInit => (part = "api" => ApiInv)
  BY InitApi DEF SumInit
<1>2. (part = "api" => ApiInv) /\ [SumNext]_sumVars => (part = "api" => ApiInv)'
  BY ApiInductive, StepOfApi
<1> QED
  BY <1>1, <1>2, PTL DEF SumSpec

(***************************************************************************)
(* Whatever handlers defer, fail or time out and whenever init.lua is      *)
(* saved: all deferred functions have run once before the answer, and no   *)
(* handler gets a request that is not for it or lacks the key.             *)
(***************************************************************************)
THEOREM RequestsAreHandled == SumSpec => []RequestsHandled
<1>1. ApiInv => API!DeferredBeforeAnswer /\ API!HandlersFit
  <2> SUFFICES ASSUME ApiInv PROVE API!DeferredBeforeAnswer /\ API!HandlersFit
    OBVIOUS
  <2>1. ASSUME NEW r \in Requests, req[r].at = "answered", req[r].called # "none"
        PROVE  Len(req[r].ran) = req[r].made /\ API!ToSet(req[r].ran) = 1..req[r].made
    <3>1. /\ NoneIsLost(req[r]) /\ req[r].queue = <<>> /\ req[r].batch = <<>>
          /\ req[r].ran \in Seq(Nat)
      BY <2>1 DEF ApiInv, RequestFits, RequestRecord, NoneIsLost
    <3>2. Len(req[r].ran) \in Nat /\ req[r].made \in Nat
      BY <3>1 DEF ApiInv, RequestRecord
    <3>3. Len(req[r].ran) + 0 + 0 = req[r].made
      BY <3>1, EmptyHasNoNumbers DEF NoneIsLost
    <3>4. Numbers(req[r].ran) = 1..req[r].made
      BY <3>1, EmptyHasNoNumbers DEF NoneIsLost
    <3>5. API!ToSet(req[r].ran) = Numbers(req[r].ran)
      BY <3>1 DEF API!ToSet, Numbers
    <3> QED
      BY <3>2, <3>3, <3>4, <3>5
  <2>2. API!DeferredBeforeAnswer
    BY <2>1 DEF API!DeferredBeforeAnswer
  <2>3. API!HandlersFit
    BY DEF ApiInv, RequestFits, KeyWasChecked, API!HandlersFit
  <2> QED
    BY <2>2, <2>3
<1>2. (part = "api" => ApiInv) => RequestsHandled
  BY <1>1 DEF RequestsHandled
<1> QED
  BY <1>2, ApiInvariant, PTL

-----------------------------------------------------------------------------
(***************************************************************************)
(* LogFiles.  Lines are written to the log, the last of the names, and a   *)
(* rotation moves it to the name of the present second, behind all earlier *)
(* ones.  A handle for another file than the log takes a second worker.    *)
(***************************************************************************)
LogsTyped ==
    /\ now \in 1..MaxTime /\ line \in 0..MaxLines
    /\ text \in Seq(Seq(Nat)) /\ Len(text) >= 1
    /\ file \in [LF!Names -> 0..Len(text)]
    /\ \A m, n \in LF!Names : file[m] = file[n] => m = n \/ file[m] = 0
    /\ cache \in [IoThreads -> 0..Len(text)]
    /\ at \in [IoThreads -> {"idle", "rotating", "pruning", "opening"}]
    /\ used \subseteq IoThreads /\ IsFiniteSet(used)
    /\ stray \subseteq 1..line /\ erased \subseteq 1..line

\* The file of somebody else is nobody's log and stays empty.
Foreign ==
    /\ text[1] = <<>> /\ file[0] \in {0, 1}
    /\ \A n \in LF!Names \ {0} : file[n] # 1
    /\ \A w \in IoThreads : cache[w] # 1

Written == \A f \in 1..Len(text) : LF!Lines(f) \subseteq 1..line

\* More than one worker has handled a task.
Several == \A v : ~(used \subseteq {v})

HandlesFit ==
    /\ \A w \in IoThreads :
           /\ at[w] # "idle" \/ cache[w] # 0 => w \in used
           /\ at[w] \in {"rotating", "pruning"} => cache[w] = 0
           /\ cache[w] \notin {0, file[LF!Log]} => Several
    /\ stray # {} => Several

NamesAreSeconds == \A n \in 1..MaxTime : file[n] # 0 => n <= now

NamesInOrder ==
    \A m, n \in LF!Names \ {0} : m < n =>
        \A a \in LF!Lines(file[m]) \ stray, b \in LF!Lines(file[n]) \ stray : a < b

OldestErased ==
    \A n \in LF!Names \ {0} :
        \A a \in erased \ stray, b \in LF!Lines(file[n]) \ stray : a < b

Ordered == ~back => NamesAreSeconds /\ NamesInOrder /\ OldestErased

LogsInv == LogsTyped /\ Foreign /\ Written /\ HandlesFit /\ Ordered

LEMMA LogNames ==
    /\ LF!Log \in Nat /\ LF!Log = MaxTime + 1 /\ LF!Names = 0..LF!Log
    /\ LF!Log \in LF!Names \ {0} /\ 0 \in LF!Names
    /\ \A t \in 1..MaxTime : t \in LF!Names \ {0} /\ t < LF!Log
    /\ \A n \in LF!Names \ {0} : n = LF!Log \/ n \in 1..MaxTime
  BY LogAssumption DEF LF!BoundsAssumption, LF!Log, LF!Names

LEMMA NoFileNoLines == LF!Lines(0) = {}
  BY DEF LF!Lines

LEMMA InitLogs == LF!Init => LogsInv
<1> SUFFICES ASSUME LF!Init PROVE LogsInv
  OBVIOUS
<1>1. /\ text = <<<<>>>> /\ Len(text) = 1 /\ text[1] = <<>> /\ text \in Seq(Seq(Nat))
  BY DEF LF!Init
<1>2. \A n \in LF!Names : file[n] = IF n = 0 THEN 1 ELSE 0
  BY DEF LF!Init
<1>3. LogsTyped
  BY <1>1, <1>2, LogNames, LogAssumption, FS_EmptySet
  DEF LF!Init, LogsTyped, LF!BoundsAssumption
<1>4. Foreign /\ HandlesFit
  BY <1>1, <1>2, LogNames DEF LF!Init, Foreign, HandlesFit
<1>5. Written
  BY <1>1 DEF Written, LF!Lines
<1>6. Ordered
  BY <1>2, LogNames, NoFileNoLines DEF Ordered, NamesAreSeconds, NamesInOrder,
     OldestErased, LF!Init
<1> QED
  BY <1>3, <1>4, <1>5, <1>6 DEF LogsInv

\* One line goes to one file, which may be the new log; it is a stray line
\* unless the file is the log.
OneLine(f) ==
    /\ f \in 2..Len(text') /\ text' \in Seq(Seq(Nat))
    /\ \A g \in 1..Len(text) : g # f => text'[g] = text[g]
    /\ \/ f <= Len(text) /\ Len(text') = Len(text) /\ file' = file
          /\ LF!Lines(f)' \subseteq LF!Lines(f) \cup {line + 1}
       \/ f = Len(text) + 1 /\ Len(text') = f /\ file[LF!Log] = 0
          /\ file' = [file EXCEPT ![LF!Log] = f]
          /\ LF!Lines(f)' \subseteq {line + 1}
    /\ stray' = IF f = file'[LF!Log] THEN stray ELSE stray \cup {line + 1}
    /\ UNCHANGED <<now, back, erased>>

LEMMA OneLineFits ==
    ASSUME LogsTyped, Foreign, Written, Ordered, NEW f, OneLine(f), line' = line + 1,
           line' <= MaxLines,
           at' \in [IoThreads -> {"idle", "rotating", "pruning", "opening"}],
           cache' \in [IoThreads -> 0..Len(text')], \A w \in IoThreads : cache'[w] # 1,
           used' \subseteq IoThreads, IsFiniteSet(used')
    PROVE  LogsTyped' /\ Foreign' /\ Written' /\ Ordered'
<1> DEFINE len == Len(text)
           long == Len(text')
           Old == /\ f <= len /\ long = len /\ file' = file
                  /\ LF!Lines(f)' \subseteq LF!Lines(f) \cup {line + 1}
           New == /\ f = len + 1 /\ long = f /\ file[LF!Log] = 0
                  /\ file' = [file EXCEPT ![LF!Log] = f]
                  /\ LF!Lines(f)' \subseteq {line + 1}
<1>a. /\ f \in 2..long /\ (Old \/ New) /\ UNCHANGED <<now, back, erased>>
      /\ stray' = IF f = file'[LF!Log] THEN stray ELSE stray \cup {line + 1}
      /\ text' \in Seq(Seq(Nat))
  BY DEF OneLine
<1>b. \A g \in 1..len : g # f => text'[g] = text[g]
  BY DEF OneLine
<1>c. /\ file \in [LF!Names -> 0..len]
      /\ \A m, n \in LF!Names : file[m] = file[n] => m = n \/ file[m] = 0
      /\ cache' \in [IoThreads -> 0..long]
  BY DEF LogsTyped
<1>d. \A g \in 1..len : g # f => LF!Lines(g)' = LF!Lines(g)
  BY <1>b DEF LF!Lines
<1>e. len \in Nat /\ long \in Nat /\ line \in Nat
  BY <1>a, LogAssumption DEF LogsTyped, LF!BoundsAssumption
<1>f. /\ \A g \in 1..len : LF!Lines(g) \subseteq 1..line
      /\ text[1] = <<>> /\ file[0] \in {0, 1} /\ \A n \in LF!Names \ {0} : file[n] # 1
      /\ len >= 1
  BY DEF Written, Foreign, LogsTyped
<1>g. text'[1] = <<>>
  BY <1>a, <1>b, <1>e, <1>f
<1> HIDE DEF len, long
<1>1. f \in Nat /\ f >= 2 /\ len <= long
  BY <1>a, <1>e
<1>2. /\ file' \in [LF!Names -> 0..long]
      /\ \A n \in LF!Names : file'[n] # f => file'[n] = file[n] /\ file[n] \in 0..len
  <2>1. CASE Old
    BY <2>1, <1>c
  <2>2. CASE New
    <3>1. 0..len \subseteq 0..long /\ f \in 0..long
      BY <2>2, <1>e, <1>1
    <3> QED
      BY <2>2, <3>1, <1>c, LogNames
  <2> QED
    BY <1>a, <2>1, <2>2
<1>3. \A m, n \in LF!Names : file'[m] = file'[n] => m = n \/ file'[m] = 0
  <2>1. CASE Old
    BY <2>1, <1>c
  <2>2. CASE New
    <3>1. \A n \in LF!Names : file[n] # f
      BY <2>2, <1>c, <1>e
    <3> QED
      BY <2>2, <3>1, <1>c, LogNames
  <2> QED
    BY <1>a, <2>1, <2>2
<1>4. LogsTyped'
  <2>1. line' \in 0..MaxLines /\ stray' \subseteq 1..line' /\ erased' \subseteq 1..line'
    BY <1>a, <1>e, LogAssumption DEF LogsTyped, LF!BoundsAssumption
  <2>2. Len(text') >= 1
    BY <1>a, <1>e, <1>1 DEF long
  <2>3. now' \in 1..MaxTime
    BY <1>a DEF LogsTyped
  <2>4. file' \in [LF!Names -> 0..Len(text')]
    BY <1>2 DEF long
  <2> QED
    BY <1>a, <1>3, <2>1, <2>2, <2>3, <2>4 DEF LogsTyped
<1>6. Foreign'
  <2>1. file'[0] \in {0, 1} /\ \A n \in LF!Names \ {0} : file'[n] # 1
    BY <1>a, <1>c, <1>f, <1>1, LogNames
  <2> QED
    BY <1>g, <2>1 DEF Foreign
<1>7. Written'
  <2> SUFFICES ASSUME NEW g \in 1..long PROVE LF!Lines(g)' \subseteq 1..line'
    BY DEF Written, long
  <2>1. CASE g = f
    BY <1>a, <1>e, <1>f, <1>1, <2>1
  <2>2. CASE g # f
    BY <1>a, <1>d, <1>e, <1>f, <2>2
  <2> QED
    BY <2>1, <2>2
<1>8. ASSUME NEW n \in LF!Names \ {0}, NEW x \in LF!Lines(file[n])' \ stray'
      PROVE  \/ x = line + 1 /\ n = LF!Log
             \/ x \in LF!Lines(file[n]) \ stray /\ x \in 1..line
  <2>1. n \in LF!Names /\ file'[n] \in 0..long /\ file'[n] # 0
    BY <1>2, <1>8 DEF LF!Lines
  <2>2. CASE file'[n] = f
    <3>1. LF!Lines(f)' = LF!Lines(file[n])'
      BY <2>2 DEF LF!Lines
    <3>2. CASE x = line + 1
      <4>1. f = file'[LF!Log]
        BY <1>a, <1>8, <3>2
      <4> QED
        BY <2>1, <2>2, <3>2, <4>1, <1>3, LogNames
    <3>3. CASE x # line + 1
      <4>1. f <= len /\ file' = file /\ x \in LF!Lines(f)
        BY <1>a, <1>8, <3>1, <3>3
      <4>2. x \notin stray /\ f \in 1..len
        BY <1>a, <1>e, <1>8, <4>1
      <4> QED
        BY <1>f, <2>2, <4>1, <4>2
    <3> QED
      BY <3>2, <3>3
  <2>3. CASE file'[n] # f
    <3>1. file'[n] = file[n] /\ file[n] \in 1..len
      BY <1>2, <1>e, <2>1, <2>3
    <3>3. LF!Lines(file[n])' = LF!Lines(file[n])
      BY <1>d, <2>3, <3>1 DEF LF!Lines
    <3>4. x \notin stray
      BY <1>a, <1>8
    <3> QED
      BY <1>f, <1>8, <3>1, <3>3, <3>4
  <2> QED
    BY <2>2, <2>3
<1>9. Ordered'
  <2> SUFFICES ASSUME ~back PROVE NamesAreSeconds' /\ NamesInOrder' /\ OldestErased'
    BY <1>a DEF Ordered
  <2>1. NamesAreSeconds /\ NamesInOrder /\ OldestErased
    BY DEF Ordered
  <2>2. NamesAreSeconds'
    BY <1>a, <2>1, LogNames, <1>c DEF NamesAreSeconds
  <2>3. NamesInOrder'
    <3> SUFFICES ASSUME NEW m \in LF!Names \ {0}, NEW n \in LF!Names \ {0}, m < n,
                        NEW a \in LF!Lines(file[m])' \ stray',
                        NEW b \in LF!Lines(file[n])' \ stray'
                 PROVE  a < b
      BY DEF NamesInOrder
    <3>1. m # LF!Log
      BY LogNames DEF LF!Log
    <3>2. a \in LF!Lines(file[m]) \ stray /\ a \in 1..line
      BY <1>8, <3>1
    <3>3. b = line + 1 \/ b \in LF!Lines(file[n]) \ stray
      BY <1>8
    <3> QED
      BY <1>e, <2>1, <3>2, <3>3 DEF NamesInOrder
  <2>4. OldestErased'
    <3> SUFFICES ASSUME NEW n \in LF!Names \ {0}, NEW a \in erased' \ stray',
                        NEW b \in LF!Lines(file[n])' \ stray'
                 PROVE  a < b
      BY DEF OldestErased
    <3>1. a \in erased \ stray /\ a \in 1..line
      BY <1>a DEF LogsTyped
    <3>2. b = line + 1 \/ b \in LF!Lines(file[n]) \ stray
      BY <1>8
    <3> QED
      BY <1>e, <2>1, <3>1, <3>2 DEF OldestErased
  <2> QED
    BY <2>2, <2>3, <2>4
<1> QED
  BY <1>4, <1>6, <1>7, <1>9

LEMMA SeveralMonotone ==
    ASSUME Several, used \subseteq used'
    PROVE  Several'
  BY DEF Several

LEMMA TwoUsed ==
    ASSUME NEW v \in used, NEW w \in used, v # w
    PROVE  Several
  BY DEF Several

LEMMA AppendTaskFits ==
    ASSUME LogsInv, NEW w \in IoThreads, LF!AppendTask(w)
    PROVE  LogsInv'
<1> USE DEF LogsInv
<1>1. /\ UNCHANGED <<now, back, file, text, line, stray, erased>>
      /\ at' \in [IoThreads -> {"idle", "rotating", "pruning", "opening"}]
      /\ cache' \in [IoThreads -> 0..Len(text)] /\ used' = used \cup {w}
      /\ \A v \in IoThreads : v # w => at'[v] = at[v]
      /\ \A v \in IoThreads : cache'[v] \in {0, cache[v]}
      /\ at'[w] \in {"rotating", "pruning"} => cache'[w] = 0
  BY DEF LF!AppendTask, LF!Moves, LogsTyped
<1>2. LogsTyped'
  BY <1>1, FS_AddElement DEF LogsTyped
<1>3. Foreign' /\ Written'
  BY <1>1 DEF Foreign, Written, LF!Lines
<1>4. Ordered'
  BY <1>1 DEF Ordered, NamesAreSeconds, NamesInOrder, OldestErased, LF!Lines
<1>5. Several => Several'
  BY <1>1, SeveralMonotone
<1>6. HandlesFit'
  BY <1>1, <1>5 DEF HandlesFit
<1> QED
  BY <1>2, <1>3, <1>4, <1>6

LEMMA RenameFits ==
    ASSUME LogsInv, NEW w \in IoThreads, LF!Rename(w)
    PROVE  LogsInv'
<1> USE DEF LogsInv
<1>1. /\ UNCHANGED <<now, back, text, cache, line, used, stray, erased>>
      /\ at[w] = "rotating"
      /\ at' \in [IoThreads -> {"idle", "rotating", "pruning", "opening"}]
      /\ \A v \in IoThreads : v # w => at'[v] = at[v]
  BY DEF LF!Rename, LF!Moves, LogsTyped
<1>2. CASE file[LF!Log] = 0
  <2>1. file' = file
    BY <1>2 DEF LF!Rename
  <2>2. LogsTyped' /\ Foreign' /\ Written'
    <3>1. LogsTyped'
      BY <1>1, <2>1 DEF LogsTyped
    <3>2. Foreign' /\ Written'
      BY <1>1, <2>1 DEF Foreign, Written, LF!Lines
    <3> QED
      BY <3>1, <3>2
  <2>3. Ordered'
    BY <1>1, <2>1 DEF Ordered, NamesAreSeconds, NamesInOrder, OldestErased, LF!Lines
  <2>4. HandlesFit'
    BY <1>1, <2>1 DEF HandlesFit, Several
  <2> QED
    BY <2>2, <2>3, <2>4
<1>3. CASE file[LF!Log] # 0
  <2> DEFINE log == file[LF!Log]
  <2>1. file' = [file EXCEPT ![now] = log, ![LF!Log] = 0]
    BY <1>3 DEF LF!Rename
  <2>2. now \in LF!Names \ {0} /\ now < LF!Log /\ now \in 1..MaxTime
    BY LogNames DEF LogsTyped
  <2>3. file \in [LF!Names -> 0..Len(text)]
    BY DEF LogsTyped
  <2>4. \A n \in LF!Names :
            file'[n] = IF n = now THEN log ELSE IF n = LF!Log THEN 0 ELSE file[n]
    BY <2>1, <2>2, <2>3, LogNames
  <2>5. file' \in [LF!Names -> 0..Len(text)]
    <3>1. log \in 0..Len(text) /\ 0 \in 0..Len(text)
      BY <2>3, LogNames DEF LogsTyped
    <3> QED
      BY <2>1, <2>3, <3>1
  <2>6. \A m, n \in LF!Names : file'[m] = file'[n] => m = n \/ file'[m] = 0
    BY <2>2, <2>4, LogNames DEF LogsTyped
  <2>7. LogsTyped' /\ Written'
    BY <1>1, <2>5, <2>6 DEF LogsTyped, Written, LF!Lines
  <2>8. Foreign'
    BY <1>1, <2>2, <2>4, LogNames DEF Foreign
  <2>9. HandlesFit'
    <3>1. w \in used /\ cache[w] = 0
      BY <1>1 DEF HandlesFit
    <3>2. \A v \in IoThreads : cache[v] # 0 => v \in used /\ Several
      BY <3>1, TwoUsed DEF HandlesFit
    <3>3. Several' = Several
      BY <1>1 DEF Several
    <3>4. /\ \A v \in IoThreads : at'[v] # "idle" \/ cache'[v] # 0 => v \in used'
          /\ \A v \in IoThreads : at'[v] \in {"rotating", "pruning"} => cache'[v] = 0
      BY <1>1, <3>1 DEF HandlesFit
    <3> QED
      BY <1>1, <3>2, <3>3, <3>4 DEF HandlesFit
  <2>10. \A n \in LF!Names :
            LF!Lines(file[n])' = IF n = now THEN LF!Lines(log)
                                 ELSE IF n = LF!Log THEN {} ELSE LF!Lines(file[n])
    <3> TAKE n \in LF!Names
    <3>1. text' = text /\ file'[n] = IF n = now THEN log ELSE IF n = LF!Log THEN 0 ELSE file[n]
      BY <1>1, <2>4
    <3> HIDE DEF log
    <3>2. CASE n = now
      BY <3>1, <3>2 DEF LF!Lines
    <3>3. CASE n # now /\ n = LF!Log
      BY <3>1, <3>3 DEF LF!Lines
    <3>4. CASE n # now /\ n # LF!Log
      BY <3>1, <3>4 DEF LF!Lines
    <3> QED
      BY <3>2, <3>3, <3>4
  <2> HIDE DEF log
  <2>11. Ordered'
    <3> SUFFICES ASSUME ~back PROVE NamesAreSeconds' /\ NamesInOrder' /\ OldestErased'
      BY <1>1 DEF Ordered
    <3>1. NamesAreSeconds /\ NamesInOrder /\ OldestErased
      BY DEF Ordered
    <3>2. NamesAreSeconds'
      BY <1>1, <2>2, <2>4, <3>1, LogNames DEF NamesAreSeconds
    <3>3. \A n \in 1..MaxTime : n > now => LF!Lines(file[n]) = {}
      BY <2>2, <3>1, NoFileNoLines DEF NamesAreSeconds
    <3>4. NamesInOrder'
      <4> SUFFICES ASSUME NEW m \in LF!Names \ {0}, NEW n \in LF!Names \ {0}, m < n,
                          NEW a \in LF!Lines(file[m])' \ stray,
                          NEW b \in LF!Lines(file[n])' \ stray
                   PROVE  a < b
        BY <1>1 DEF NamesInOrder
      <4>1. m # LF!Log /\ n # LF!Log
        BY <2>10, <2>2
      <4>2. CASE n = now
        <5>1. a \in LF!Lines(file[m]) \ stray /\ b \in LF!Lines(file[LF!Log]) \ stray
          BY <2>10, <4>1, <4>2, <2>2 DEF log
        <5>2. m < LF!Log
          BY <2>2, <4>2, LogNames
        <5> QED
          BY <3>1, <5>1, <5>2, LogNames DEF NamesInOrder
      <4>3. CASE m = now
        <5>1. n \in 1..MaxTime /\ n # now
          BY <4>1, <4>3, <2>2, LogNames
        <5> QED
          BY <2>10, <3>3, <4>1, <4>3, <5>1
      <4>4. CASE m # now /\ n # now
        BY <2>10, <3>1, <4>1, <4>4 DEF NamesInOrder
      <4> QED
        BY <4>2, <4>3, <4>4
    <3>5. OldestErased'
      <4> SUFFICES ASSUME NEW n \in LF!Names \ {0}, NEW a \in erased \ stray,
                          NEW b \in LF!Lines(file[n])' \ stray
                   PROVE  a < b
        BY <1>1 DEF OldestErased
      <4>1. b \in LF!Lines(file[LF!Log]) \/ b \in LF!Lines(file[n])
        BY <2>10 DEF log
      <4> QED
        BY <3>1, <4>1, LogNames DEF OldestErased
    <3> QED
      BY <3>2, <3>4, <3>5
  <2> QED
    BY <2>7, <2>8, <2>9, <2>11
<1> QED
  BY <1>2, <1>3

\* What prune_rotations removes sorts before all that it keeps, and is not
\* the log.
LEMMA SameCardinality == \A S : LF!Cardinality(S) = Cardinality(S)
  BY DEF LF!Cardinality, Cardinality

LEMMA ExcessIsOldest ==
    ASSUME LogsTyped
    PROVE  /\ LF!Log \notin LF!Excess /\ LF!Excess \subseteq LF!Names
           /\ \A k \in LF!Excess, n \in LF!Names :
                  file[n] # 0 /\ n \notin LF!Excess => k < n
<1>1. \A n \in LF!Names : IsFiniteSet(LF!From(n)) /\ Cardinality(LF!From(n)) \in Nat
  <2> TAKE n \in LF!Names
  <2>1. IsFiniteSet(LF!Names)
    BY FS_Interval, LogNames
  <2>2. LF!From(n) \in SUBSET LF!Names
    BY DEF LF!From, LF!Matching
  <2>3. IsFiniteSet(LF!From(n))
    BY <2>1, <2>2, FS_Subset
  <2> QED
    BY <2>3, FS_CardinalityType
<1>2. /\ LF!Excess \subseteq LF!Names
      /\ \A n \in LF!Excess : Cardinality(LF!From(n)) > MaxRotations
      /\ \A n \in LF!Names \ LF!Excess :
             file[n] # 0 => ~(Cardinality(LF!From(n)) > MaxRotations)
  <2>1. LF!Matching \subseteq LF!Names /\ \A n \in LF!Names : file[n] # 0 => n \in LF!Matching
    BY DEF LF!Matching
  <2> QED
    BY <2>1, SameCardinality DEF LF!Excess
<1>3. MaxRotations \in Nat \ {0}
  BY LogAssumption DEF LF!BoundsAssumption
<1>4. Cardinality(LF!From(LF!Log)) <= 1
  <2>1. LF!From(LF!Log) \in SUBSET {LF!Log}
    BY LogNames DEF LF!From, LF!Matching
  <2>2. Cardinality(LF!From(LF!Log)) <= Cardinality({LF!Log})
    BY <2>1, FS_Subset, FS_Singleton
  <2> QED
    BY <2>2, FS_Singleton
<1>5. ASSUME NEW k \in LF!Excess, NEW n \in LF!Names, file[n] # 0, n \notin LF!Excess
      PROVE  k < n
  <2>1. k \in LF!Names /\ k \in Nat /\ n \in Nat
    BY <1>2, LogNames
  <2>2. ASSUME n <= k PROVE FALSE
    <3>1. LF!From(k) \in SUBSET LF!From(n)
      BY <2>1, <2>2, LogNames DEF LF!From, LF!Matching
    <3>2. Cardinality(LF!From(k)) <= Cardinality(LF!From(n))
      BY <1>1, <3>1, FS_Subset
    <3>3. Cardinality(LF!From(n)) > MaxRotations
      BY <1>1, <1>2, <1>3, <2>1, <3>2
    <3> QED
      BY <1>2, <1>5, <3>3
  <2> QED
    BY <2>1, <2>2
<1>6. LF!Log \notin LF!Excess
  BY <1>1, <1>2, <1>3, <1>4, LogNames
<1> QED
  BY <1>2, <1>5, <1>6

LEMMA PruneFits ==
    ASSUME LogsInv, NEW w \in IoThreads, LF!Prune(w)
    PROVE  LogsInv'
<1> USE DEF LogsInv
<1>1. /\ UNCHANGED <<now, back, text, cache, line, used, stray>>
      /\ at[w] = "pruning"
      /\ at' \in [IoThreads -> {"idle", "rotating", "pruning", "opening"}]
      /\ \A v \in IoThreads : v # w => at'[v] = at[v]
      /\ at'[w] = "opening"
      /\ erased' = erased \cup UNION {LF!Lines(file[n]) : n \in LF!Excess}
      /\ file' = [n \in LF!Names |-> IF n \in LF!Excess THEN 0 ELSE file[n]]
  BY DEF LF!Prune, LF!Moves, LogsTyped
<1>2. /\ LF!Log \notin LF!Excess /\ LF!Excess \subseteq LF!Names
      /\ \A k \in LF!Excess, n \in LF!Names :
             file[n] # 0 /\ n \notin LF!Excess => k < n
  BY ExcessIsOldest
<1>3. file' \in [LF!Names -> 0..Len(text)] /\ file'[LF!Log] = file[LF!Log]
  BY <1>1, <1>2, LogNames DEF LogsTyped
<1>4. \A n \in LF!Names :
          /\ file'[n] \in {0, file[n]} /\ (n \in LF!Excess => file'[n] = 0)
          /\ LF!Lines(file[n])' # {}
             => /\ LF!Lines(file[n])' = LF!Lines(file[n])
                /\ file[n] # 0 /\ n \notin LF!Excess
  <2> TAKE n \in LF!Names
  <2>1. text' = text /\ file'[n] = IF n \in LF!Excess THEN 0 ELSE file[n]
    BY <1>1
  <2> QED
    BY <2>1 DEF LF!Lines
<1>5. /\ \A n \in LF!Names : LF!Lines(file[n]) \subseteq 1..line
      /\ LF!Lines(file[0]) = {}
  <2>1. file \in [LF!Names -> 0..Len(text)] /\ Len(text) \in Nat
    BY DEF LogsTyped
  <2>2. LF!Lines(1) = {}
    BY DEF Foreign, LF!Lines
  <2>3. \A f \in 0..Len(text) : LF!Lines(f) \subseteq 1..line
    BY <2>1, NoFileNoLines DEF Written
  <2> QED
    BY <2>1, <2>2, <2>3, NoFileNoLines, LogNames DEF Foreign
<1>6. LogsTyped'
  <2>1. \A m, n \in LF!Names : file'[m] = file'[n] => m = n \/ file'[m] = 0
    BY <1>4 DEF LogsTyped
  <2>2. erased' \subseteq 1..line
    BY <1>1, <1>2, <1>5 DEF LogsTyped
  <2> QED
    BY <1>1, <1>3, <2>1, <2>2 DEF LogsTyped
<1>7. Foreign' /\ Written'
  <2>1. Foreign'
    BY <1>1, <1>4, LogNames DEF Foreign
  <2>2. Written'
    BY <1>1 DEF Written, LF!Lines
  <2> QED
    BY <2>1, <2>2
<1>8. HandlesFit'
  BY <1>1, <1>3 DEF HandlesFit, Several
<1>9. Ordered'
  <2> SUFFICES ASSUME ~back PROVE NamesAreSeconds' /\ NamesInOrder' /\ OldestErased'
    BY <1>1 DEF Ordered
  <2>1. NamesAreSeconds /\ NamesInOrder /\ OldestErased
    BY DEF Ordered
  <2>2. NamesAreSeconds'
    BY <1>1, <1>4, <2>1, LogNames DEF NamesAreSeconds
  <2>3. NamesInOrder'
    BY <1>1, <1>4, <2>1 DEF NamesInOrder
  <2>4. OldestErased'
    <3> SUFFICES ASSUME NEW n \in LF!Names \ {0}, NEW a \in erased' \ stray,
                        NEW b \in LF!Lines(file[n])' \ stray
                 PROVE  a < b
      BY <1>1 DEF OldestErased
    <3>1. b \in LF!Lines(file[n]) \ stray /\ file[n] # 0 /\ n \notin LF!Excess
      BY <1>4
    <3>2. CASE a \in erased
      BY <2>1, <3>1, <3>2 DEF OldestErased
    <3>3. ASSUME NEW k \in LF!Excess, a \in LF!Lines(file[k]) PROVE a < b
      <4>1. k \in LF!Names /\ k # 0 /\ k < n
        BY <1>2, <1>5, <3>1, <3>3
      <4> QED
        BY <2>1, <3>1, <3>3, <4>1 DEF NamesInOrder
    <3> QED
      BY <1>1, <3>2, <3>3
  <2> QED
    BY <2>2, <2>3, <2>4
<1> QED
  BY <1>6, <1>7, <1>8, <1>9

LEMMA ReplacedFile ==
    ASSUME NEW s \in Seq(Seq(Nat)), NEW f \in 1..Len(s), NEW t \in Seq(Nat)
    PROVE  LET r == [s EXCEPT ![f] = t]
           IN  /\ r \in Seq(Seq(Nat)) /\ Len(r) = Len(s) /\ r[f] = t
               /\ \A g \in 1..Len(s) : g # f => r[g] = s[g]
<1> DEFINE r == [s EXCEPT ![f] = t]
<1>1. r \in [1..Len(s) -> Seq(Nat)] /\ Len(s) \in Nat
  OBVIOUS
<1>2. r \in Seq(Seq(Nat)) /\ Len(r) = Len(s)
  BY <1>1
<1> QED
  BY <1>2

LEMMA AppendedLine ==
    ASSUME NEW s \in Seq(Nat), NEW n \in Nat
    PROVE  /\ Append(s, n) \in Seq(Nat)
           /\ \A i \in DOMAIN Append(s, n) :
                  Append(s, n)[i] \in {s[k] : k \in DOMAIN s} \cup {n}
<1>1. /\ Append(s, n) \in Seq(Nat) /\ Len(s) \in Nat /\ DOMAIN s = 1..Len(s)
      /\ DOMAIN Append(s, n) = 1..(Len(s) + 1)
      /\ \A i \in 1..Len(s) : Append(s, n)[i] = s[i]
      /\ Append(s, n)[Len(s) + 1] = n
  OBVIOUS
<1>2. \A i \in 1..(Len(s) + 1) : i \in 1..Len(s) \/ i = Len(s) + 1
  BY <1>1
<1> QED
  BY <1>1, <1>2

LEMMA WriteFits ==
    ASSUME LogsInv, NEW w \in IoThreads, LF!Write(w)
    PROVE  LogsInv'
<1> USE DEF LogsInv
<1> DEFINE made == file[LF!Log] = 0 /\ cache[w] = 0
           chosen == IF cache[w] # 0 THEN cache[w]
                     ELSE IF made THEN Len(text) + 1 ELSE file[LF!Log]
           files == IF made THEN Append(text, <<>>) ELSE text
<1>0. PICK f : f = chosen
  OBVIOUS
<1>1. /\ text' = [files EXCEPT ![f] = Append(files[f], line + 1)]
      /\ file' = IF made THEN [file EXCEPT ![LF!Log] = f] ELSE file
      /\ cache' = [cache EXCEPT ![w] = f]
      /\ stray' = IF f # file'[LF!Log] THEN stray \cup {line + 1} ELSE stray
      /\ UNCHANGED <<now, back, used, erased>>
      /\ at[w] = "opening" /\ line < MaxLines /\ line' = line + 1
      /\ at' \in [IoThreads -> {"idle", "rotating", "pruning", "opening"}]
      /\ \A v \in IoThreads : v # w => at'[v] = at[v]
      /\ at'[w] = "idle"
  BY <1>0 DEF LF!Write, LF!Moves, LogsTyped
<1>2. /\ file[LF!Log] \in 0..Len(text) /\ cache[w] \in 0..Len(text) /\ Len(text) \in Nat
      /\ file[LF!Log] # 1 /\ cache[w] # 1 /\ Len(text) >= 1 /\ line + 1 \in Nat
      /\ line' <= MaxLines
  BY <1>1, LogNames, LogAssumption DEF LogsTyped, Foreign, LF!BoundsAssumption
<1>3. /\ files \in Seq(Seq(Nat)) /\ Len(files) = IF made THEN Len(text) + 1 ELSE Len(text)
      /\ \A g \in 1..Len(text) : files[g] = text[g]
      /\ made => files[Len(text) + 1] = <<>>
  BY DEF LogsTyped
<1>4. f \in 2..Len(files) /\ (made <=> f = Len(text) + 1) /\ (~made => f \in 1..Len(text))
  <2>1. made => f = Len(text) + 1
    BY <1>0
  <2>2. ~made => f \in {cache[w], file[LF!Log]} \ {0}
    BY <1>0
  <2>3. Len(files) = IF made THEN Len(text) + 1 ELSE Len(text)
    BY <1>3
  <2> HIDE DEF made, files
  <2> QED
    BY <1>2, <2>1, <2>2, <2>3
<1> HIDE DEF files
<1>5. /\ Append(files[f], line + 1) \in Seq(Nat)
      /\ \A i \in DOMAIN Append(files[f], line + 1) :
             Append(files[f], line + 1)[i] \in {files[f][k] : k \in DOMAIN files[f]} \cup {line + 1}
  <2>1. files[f] \in Seq(Nat)
    BY <1>3, <1>4
  <2> QED
    BY <1>2, <2>1, AppendedLine
<1>6. /\ text' \in Seq(Seq(Nat)) /\ Len(text') = Len(files)
      /\ text'[f] = Append(files[f], line + 1)
      /\ \A g \in 1..Len(files) : g # f => text'[g] = files[g]
  BY <1>1, <1>3, <1>4, <1>5, ReplacedFile
<1>7. LF!Lines(f)' \subseteq {files[f][k] : k \in DOMAIN files[f]} \cup {line + 1}
  <2>1. f # 0 /\ text'[f] = Append(files[f], line + 1)
    BY <1>4, <1>6
  <2> QED
    BY <1>5, <2>1 DEF LF!Lines
<1>8. OneLine(f)
  <2>1. CASE made
    <3>1. files[f] = <<>>
      BY <1>3, <1>4, <2>1
    <3>2. LF!Lines(f)' \subseteq {line + 1}
      BY <1>7, <3>1
    <3>3. /\ f = Len(text) + 1 /\ Len(text') = f /\ file[LF!Log] = 0
          /\ file' = [file EXCEPT ![LF!Log] = f]
      BY <1>1, <1>3, <1>4, <1>6, <2>1
    <3> HIDE DEF made
    <3> QED
      BY <1>1, <1>3, <1>4, <1>6, <3>2, <3>3 DEF OneLine
  <2>2. CASE ~made
    <3>1. /\ f <= Len(text) /\ Len(text') = Len(text) /\ file' = file
          /\ files[f] = text[f] /\ f # 0
      BY <1>1, <1>2, <1>3, <1>4, <1>6, <2>2
    <3>2. LF!Lines(f)' \subseteq LF!Lines(f) \cup {line + 1}
      BY <1>7, <3>1 DEF LF!Lines
    <3> HIDE DEF made
    <3> QED
      BY <1>1, <1>2, <1>3, <1>4, <1>6, <3>1, <3>2 DEF OneLine
  <2> QED
    BY <2>1, <2>2
<1>9. /\ cache' \in [IoThreads -> 0..Len(text')] /\ \A v \in IoThreads : cache'[v] # 1
      /\ \A v \in IoThreads : cache'[v] = IF v = w THEN f ELSE cache[v]
  <2>1. /\ cache \in [IoThreads -> 0..Len(text)] /\ \A v \in IoThreads : cache[v] # 1
    BY DEF LogsTyped, Foreign
  <2>2. f \in 0..Len(text') /\ f # 1 /\ 0..Len(text) \subseteq 0..Len(text')
    BY <1>2, <1>3, <1>4, <1>6
  <2> HIDE DEF made
  <2> QED
    BY <1>1, <2>1, <2>2
<1>10. LogsTyped' /\ Foreign' /\ Written' /\ Ordered'
  <2> HIDE DEF made
  <2>1. used' \subseteq IoThreads /\ IsFiniteSet(used')
    BY <1>1 DEF LogsTyped
  <2> QED
    BY <1>1, <1>2, <1>8, <1>9, <2>1, OneLineFits
<1>11. HandlesFit'
  <2>1. w \in used /\ used' = used /\ Several' = Several
    BY <1>1 DEF HandlesFit, Several
  <2>2. f # file'[LF!Log] => Several
    BY <1>0, <1>1, <1>2, LogNames DEF HandlesFit, LogsTyped
  <2>3. ASSUME NEW v \in IoThreads, v # w, cache[v] \notin {0, file'[LF!Log]} PROVE Several
    <3>1. v \in used
      BY <2>3 DEF HandlesFit
    <3> QED
      BY <2>1, <2>3, <3>1, TwoUsed
  <2> HIDE DEF made
  <2> QED
    BY <1>1, <1>9, <2>1, <2>2, <2>3 DEF HandlesFit
<1> QED
  BY <1>10, <1>11

LEMMA OverwriteFits ==
    ASSUME LogsInv, NEW w \in IoThreads, LF!Overwrite(w)
    PROVE  LogsInv'
<1> USE DEF LogsInv
<1> DEFINE made == file[LF!Log] = 0
<1>0. PICK f : f = IF made THEN Len(text) + 1 ELSE file[LF!Log]
  OBVIOUS
<1>1. /\ text' = IF made THEN Append(text, <<line + 1>>)
                         ELSE [text EXCEPT ![f] = <<line + 1>>]
      /\ file' = [file EXCEPT ![LF!Log] = f]
      /\ cache' = [cache EXCEPT ![w] = 0]
      /\ used' = used \cup {w}
      /\ UNCHANGED <<now, back, at, stray, erased>>
      /\ at[w] = "idle" /\ line < MaxLines /\ line' = line + 1
  BY <1>0 DEF LF!Overwrite
<1>2. /\ file[LF!Log] \in 0..Len(text) /\ Len(text) \in Nat
      /\ file[LF!Log] # 1 /\ Len(text) >= 1 /\ <<line + 1>> \in Seq(Nat)
      /\ line' <= MaxLines /\ text \in Seq(Seq(Nat))
      /\ file \in [LF!Names -> 0..Len(text)]
  <2>1. line + 1 \in Nat /\ line' <= MaxLines
    BY <1>1, LogAssumption DEF LogsTyped, LF!BoundsAssumption
  <2>2. <<line + 1>> \in Seq(Nat)
    BY <2>1
  <2> QED
    BY <2>1, <2>2, LogNames DEF LogsTyped, Foreign
<1>3. /\ text' \in Seq(Seq(Nat)) /\ Len(text') = IF made THEN Len(text) + 1 ELSE Len(text)
      /\ text'[f] = <<line + 1>>
      /\ \A g \in 1..Len(text) : g # f => text'[g] = text[g]
  <2>1. CASE made
    BY <1>0, <1>1, <1>2, <2>1
  <2>2. CASE ~made
    <3>1. f \in 1..Len(text)
      BY <1>0, <1>2, <2>2
    <3> QED
      BY <1>1, <1>2, <2>2, <3>1, ReplacedFile
  <2> QED
    BY <2>1, <2>2
<1>4. f \in 2..Len(text') /\ file'[LF!Log] = f
  <2>1. f \in 2..Len(text')
    BY <1>0, <1>2, <1>3
  <2> HIDE DEF made
  <2> QED
    BY <1>1, <1>2, <2>1, LogNames
<1>5. LF!Lines(f)' \subseteq {line + 1}
  <2> QED
    BY <1>3 DEF LF!Lines
<1>6. OneLine(f)
  <2>1. CASE made
    <3>1. /\ f = Len(text) + 1 /\ Len(text') = f /\ file[LF!Log] = 0
      BY <1>0, <1>3, <2>1
    <3> HIDE DEF made
    <3> QED
      BY <1>1, <1>3, <1>4, <1>5, <3>1 DEF OneLine
  <2>2. CASE ~made
    <3>1. f <= Len(text) /\ Len(text') = Len(text) /\ f = file[LF!Log]
      BY <1>0, <1>2, <1>3, <2>2
    <3>2. file' = file
      BY <1>1, <1>2, <3>1, LogNames
    <3> HIDE DEF made
    <3> QED
      BY <1>1, <1>3, <1>4, <1>5, <3>1, <3>2 DEF OneLine
  <2> QED
    BY <2>1, <2>2
<1>7. /\ cache' \in [IoThreads -> 0..Len(text')] /\ \A v \in IoThreads : cache'[v] # 1
      /\ \A v \in IoThreads : cache'[v] = IF v = w THEN 0 ELSE cache[v]
  <2>1. /\ cache \in [IoThreads -> 0..Len(text)] /\ \A v \in IoThreads : cache[v] # 1
    BY DEF LogsTyped, Foreign
  <2>2. 0 \in 0..Len(text') /\ 0..Len(text) \subseteq 0..Len(text')
    BY <1>2, <1>3
  <2> HIDE DEF made
  <2> QED
    BY <1>1, <2>1, <2>2
<1>8. LogsTyped' /\ Foreign' /\ Written' /\ Ordered'
  <2> HIDE DEF made
  <2>1. used' \subseteq IoThreads /\ IsFiniteSet(used')
    BY <1>1, FS_AddElement DEF LogsTyped
  <2>2. at' \in [IoThreads -> {"idle", "rotating", "pruning", "opening"}]
    BY <1>1 DEF LogsTyped
  <2> QED
    BY <1>1, <1>2, <1>6, <1>7, <2>1, <2>2, OneLineFits
<1>9. HandlesFit'
  <2>1. Several => Several'
    BY <1>1, SeveralMonotone
  <2>2. ASSUME NEW v \in IoThreads, v # w, cache[v] \notin {0, f} PROVE Several'
    <3>1. v \in used'
      BY <1>1, <2>2 DEF HandlesFit
    <3> QED
      BY <1>1, <2>2, <3>1 DEF Several
  <2> HIDE DEF made
  <2> QED
    BY <1>1, <1>4, <1>7, <2>1, <2>2 DEF HandlesFit
<1> QED
  BY <1>8, <1>9

LEMMA LogsInductive ==
    ASSUME LogsInv, [LF!Next]_(LF!vars)
    PROVE  LogsInv'
<1>1. CASE LF!Tick \/ LF!SetBack
  <2>1. /\ UNCHANGED <<file, text, cache, at, line, used, stray, erased>>
        /\ now' \in 1..MaxTime /\ (~back' => ~back /\ now <= now')
    <3>1. now \in 1..MaxTime /\ MaxTime \in Nat
      BY LogAssumption DEF LogsInv, LogsTyped, LF!BoundsAssumption
    <3>2. CASE LF!Tick
      BY <3>1, <3>2 DEF LF!Tick
    <3>3. CASE LF!SetBack
      BY <3>1, <3>3 DEF LF!SetBack
    <3> QED
      BY <1>1, <3>2, <3>3
  <2>2. LogsTyped' /\ Foreign'
    BY <2>1 DEF LogsInv, LogsTyped, Foreign
  <2>3. Written' /\ HandlesFit'
    BY <2>1 DEF LogsInv, Written, HandlesFit, Several, LF!Lines
  <2>4. Ordered'
    <3> SUFFICES ASSUME ~back' PROVE NamesAreSeconds' /\ NamesInOrder' /\ OldestErased'
      BY DEF Ordered
    <3>1. NamesAreSeconds /\ NamesInOrder /\ OldestErased /\ now <= now' /\ now \in Nat
      BY <2>1 DEF LogsInv, Ordered, LogsTyped
    <3>2. NamesAreSeconds'
      <4> SUFFICES ASSUME NEW n \in 1..MaxTime, file'[n] # 0 PROVE n <= now'
        BY DEF NamesAreSeconds
      <4>1. n <= now
        BY <2>1, <3>1 DEF NamesAreSeconds
      <4> QED
        BY <2>1, <3>1, <4>1
    <3>3. NamesInOrder' /\ OldestErased'
      BY <2>1, <3>1 DEF NamesInOrder, OldestErased, LF!Lines
    <3> QED
      BY <3>2, <3>3
  <2> QED
    BY <2>2, <2>3, <2>4 DEF LogsInv
<1>2. CASE UNCHANGED LF!vars
  <2>1. LogsTyped' /\ Foreign'
    BY <1>2 DEF LogsInv, LF!vars, LogsTyped, Foreign
  <2>2. Written' /\ HandlesFit'
    BY <1>2 DEF LogsInv, LF!vars, Written, HandlesFit, Several, LF!Lines
  <2>3. Ordered'
    BY <1>2 DEF LogsInv, LF!vars, Ordered, NamesAreSeconds, NamesInOrder, OldestErased,
       LF!Lines
  <2> QED
    BY <2>1, <2>2, <2>3 DEF LogsInv
<1> QED
  BY <1>1, <1>2, AppendTaskFits, RenameFits, PruneFits, WriteFits, OverwriteFits DEF LF!Next

LEMMA LogsInvariant == SumSpec => [](part = "logs" => LogsInv)
<1>1. SumInit => (part = "logs" => LogsInv)
  BY InitLogs DEF SumInit
<1>2. (part = "logs" => LogsInv) /\ [SumNext]_sumVars => (part = "logs" => LogsInv)'
  BY LogsInductive, StepOfLogs
<1> QED
  BY <1>1, <1>2, PTL DEF SumSpec

(***************************************************************************)
(* Whatever the workers interleave: the rotations by name and then the log *)
(* hold the lines in the order they were written and what was pruned is    *)
(* older, until the clock is set back; and a line goes to a file that is   *)
(* not the log only when two workers have handled tasks.                   *)
(***************************************************************************)
THEOREM LogsStayInOrder == SumSpec => []RotationsInOrder
<1>1. ASSUME LogsInv PROVE LF!RotationsInOrder
  <2>1. Several => Cardinality(used) > 1
    <3>1. IsFiniteSet(used) /\ Cardinality(used) \in Nat
      BY <1>1, FS_CardinalityType DEF LogsInv, LogsTyped
    <3>2. Cardinality(used) # 0 \/ ~Several
      BY <3>1, FS_EmptySet DEF Several
    <3>3. Cardinality(used) # 1 \/ ~Several
      BY <3>1, FS_Singleton DEF Several
    <3> QED
      BY <3>1, <3>2, <3>3
  <2>2. stray # {} => Cardinality(used) > 1
    BY <1>1, <2>1 DEF LogsInv, HandlesFit
  <2>3. ~back => NamesInOrder /\ OldestErased
    BY <1>1 DEF LogsInv, Ordered
  <2> QED
    BY <2>2, <2>3, SameCardinality DEF NamesInOrder, OldestErased, LF!RotationsInOrder
<1>2. (part = "logs" => LogsInv) => RotationsInOrder
  BY <1>1 DEF RotationsInOrder
<1> QED
  BY <1>2, LogsInvariant, PTL

-----------------------------------------------------------------------------
(***************************************************************************)
(* HookStages.  Every list of a cycle holds items with their own metadata, *)
(* as long as no table of an earlier list has been returned: a table that  *)
(* crossed to Lua and back points at the item it was made of.              *)
(***************************************************************************)
Fits(list) ==
    \A i \in DOMAIN list :
        list[i].of # None /\ list[i].meta # None => list[i].meta = list[i].of

\* A list of a cycle.
Fine(list) == list \in Seq(HS!ItemSet) /\ Len(list) <= MaxItems

StagesInv ==
    /\ HS!TypeOK /\ Fine(new) /\ Fine(told)
    /\ ~kept => Fits(items) /\ Fits(new) /\ Fits(told)

LEMMA MaxItemsIsNat == MaxItems \in Nat
  BY StagesAssumption DEF HS!BoundAssumption

LEMMA EmptyFits == Fine(<<>>) /\ Fits(<<>>)
  BY MaxItemsIsNat DEF Fine, Fits

\* lua_to_items on what items_to_lua made.
LEMMA ReturnedFits ==
    ASSUME NEW list, Fine(list), tables \subseteq HS!TableSet,
           NEW t \in HS!Returned(list)
    PROVE  /\ Fine(HS!ToItems(t, list))
           /\ HS!ToSet(t) \subseteq HS!ToTables(list) \cup {HS!Own} /\ Fits(list)
              => Fits(HS!ToItems(t, list))
<1> DEFINE result == HS!ToItems(t, list)
           T == HS!ToTables(list) \cup tables \cup {HS!Own}
<1>1. PICK n \in 0..MaxItems : t \in [1..n -> T]
  BY DEF HS!Returned, HS!SeqOf
<1>2. n \in Nat /\ n <= MaxItems
  BY <1>1, MaxItemsIsNat
<1>3. \A i \in DOMAIN list : list[i] \in HS!ItemSet
  BY DEF Fine
<1>4. \A x \in T : x.of \in HS!Elements \cup {None}
  BY <1>3 DEF HS!ToTables, HS!TableSet, HS!Own, HS!ItemSet
<1>5. /\ result = [i \in 1..n |-> result[i]]
      /\ \A i \in 1..n :
            result[i] = [of |-> t[i].of,
                         meta |-> IF t[i].idx \in DOMAIN list THEN list[t[i].idx].meta
                                  ELSE None]
  BY <1>1 DEF HS!ToItems
<1> HIDE DEF result
<1>6. \A i \in 1..n : result[i] \in HS!ItemSet
  <2> TAKE i \in 1..n
  <2>1. t[i].of \in HS!Elements \cup {None}
    BY <1>1, <1>4
  <2>2. \A k \in DOMAIN list : list[k].meta \in HS!Elements \cup {None}
    BY <1>3 DEF HS!ItemSet
  <2> QED
    BY <1>5, <2>1, <2>2 DEF HS!ItemSet
<1>7. Fine(result)
  <2>1. result \in [1..n -> HS!ItemSet]
    BY <1>5, <1>6
  <2>2. result \in Seq(HS!ItemSet) /\ Len(result) = n
    BY <1>2, <2>1
  <2> QED
    BY <1>2, <2>2 DEF Fine
<1>8. ASSUME HS!ToSet(t) \subseteq HS!ToTables(list) \cup {HS!Own}, Fits(list),
             NEW i \in DOMAIN result, result[i].of # None, result[i].meta # None
      PROVE  result[i].meta = result[i].of
  <2>1. i \in 1..n
    BY <1>5, <1>8
  <2>2. t[i] \in HS!ToTables(list) \cup {HS!Own}
    BY <1>1, <1>8, <2>1 DEF HS!ToSet
  <2>3. CASE t[i] = HS!Own
    BY <1>5, <1>8, <2>1, <2>3 DEF HS!Own
  <2>4. CASE t[i] \in HS!ToTables(list)
    <3>1. PICK k \in DOMAIN list : t[i] = [of |-> list[k].of, idx |-> k]
      BY <2>4 DEF HS!ToTables
    <3>2. result[i] = [of |-> list[k].of, meta |-> list[k].meta]
      BY <1>5, <2>1, <3>1
    <3> QED
      BY <1>8, <3>2 DEF Fits
  <2> QED
    BY <2>2, <2>3, <2>4
<1> QED
  BY <1>7, <1>8 DEF result, Fits

LEMMA AfterHookFits ==
    ASSUME NEW b, NEW list, NEW result, Fine(list), tables \subseteq HS!TableSet,
           ~kept => Fits(list), HS!AfterHook(b, list, <<>>, result)
    PROVE  Fine(result) /\ (~kept' => ~kept /\ Fits(result))
<1>1. CASE result = list /\ kept' = kept
  BY <1>1
<1>2. CASE result = <<>> /\ kept' = kept
  BY <1>2, EmptyFits
<1>3. ASSUME NEW t \in HS!Returned(list), result = HS!ToItems(t, list),
             kept' = (kept \/ ~HS!ToSet(t) \subseteq HS!ToTables(list) \cup {HS!Own})
      PROVE  Fine(result) /\ (~kept' => ~kept /\ Fits(result))
  BY <1>3, ReturnedFits
<1> QED
  BY <1>1, <1>2, <1>3 DEF HS!AfterHook

LEMMA ShowsFits ==
    ASSUME NEW b, NEW list, Fine(list), tables \subseteq HS!TableSet, HS!Shows(b, list)
    PROVE  tables' \subseteq HS!TableSet
<1>1. \A i \in DOMAIN list : list[i] \in HS!ItemSet /\ i \in 0..MaxItems
  BY MaxItemsIsNat DEF Fine
<1> QED
  BY <1>1 DEF HS!Shows, HS!ToTables, HS!TableSet, HS!ItemSet

LEMMA ThoseFit ==
    ASSUME NEW list, Fine(list), NEW places \in HS!PlacesOf(list)
    PROVE  /\ Fine(HS!Those(list, places))
           /\ Fits(list) => Fits(HS!Those(list, places))
<1> DEFINE those == HS!Those(list, places)
<1>1. PICK n \in 0..Len(list) : places \in [1..n -> DOMAIN list]
  BY DEF HS!PlacesOf
<1>2. n \in Nat /\ n <= MaxItems
  BY <1>1, MaxItemsIsNat DEF Fine
<1>3. /\ those = [k \in 1..n |-> those[k]]
      /\ \A k \in 1..n : places[k] \in DOMAIN list /\ those[k] = list[places[k]]
  BY <1>1 DEF HS!Those
<1> HIDE DEF those
<1>4. those \in [1..n -> HS!ItemSet]
  BY <1>3 DEF Fine
<1>5. those \in Seq(HS!ItemSet) /\ Len(those) = n
  BY <1>2, <1>4
<1>6. Fits(list) => Fits(those)
  BY <1>3 DEF Fits
<1> QED
  BY <1>2, <1>5, <1>6 DEF Fine, those

LEMMA InitStages == HS!Init => StagesInv
<1> SUFFICES ASSUME HS!Init PROVE StagesInv
  OBVIOUS
<1>1. HS!TypeOK
  BY MaxItemsIsNat DEF HS!Init, HS!TypeOK
<1> QED
  BY <1>1, EmptyFits DEF HS!Init, StagesInv

\* The part of the type invariant that all steps keep in the same way.
Staged ==
    /\ stage \in {"before_fetch", "fetch", "after_fetch", "extract", "after_extract",
                  "filter", "before_store", "store", "before_notify",
                  "before_webhook", "end"}
    /\ response \in {"none", "error", "ok"}
    /\ outcome \in {"running", "skipped", "failed", "done"}
    /\ outcome = "running" <=> stage # "end"

LEMMA StagedInductive ==
    ASSUME Staged, [HS!Next]_(HS!vars)
    PROVE  Staged'
<1> USE DEF Staged, HS!Goes, HS!Ends
<1>1. ASSUME NEW b, \/ HS!BeforeFetch(b) \/ HS!AfterFetch(b) \/ HS!Extract(b)
                    \/ HS!BeforeWebhook(b) \/ HS!Filter(b)
      PROVE  Staged'
  BY <1>1 DEF HS!BeforeFetch, HS!AfterFetch, HS!Extract, HS!BeforeWebhook, HS!Filter
<1>2. ASSUME NEW b, HS!AfterExtract(b) \/ HS!BeforeStore(b) \/ HS!BeforeNotify(b)
      PROVE  Staged'
  BY <1>2 DEF HS!AfterExtract, HS!BeforeStore, HS!BeforeNotify
<1>3. ASSUME NEW b, NEW ok, HS!Fetch(b, ok) PROVE Staged'
  BY <1>3 DEF HS!Fetch
<1>4. CASE HS!Store
  BY <1>4 DEF HS!Store
<1>5. CASE UNCHANGED HS!vars
  BY <1>5 DEF HS!vars
<1> HIDE DEF Staged
<1> QED
  BY <1>1, <1>2, <1>3, <1>4, <1>5 DEF HS!Next

\* The lists and the tables of a cycle.
ListsFine ==
    /\ Fine(items) /\ Fine(new) /\ Fine(told) /\ tables \subseteq HS!TableSet
    /\ ~kept => Fits(items) /\ Fits(new) /\ Fits(told)

LEMMA StagesInvParts == StagesInv <=> Staged /\ ListsFine
  BY DEF StagesInv, Staged, ListsFine, Fine, HS!TypeOK

LEMMA ListsInductive ==
    ASSUME ListsFine, [HS!Next]_(HS!vars)
    PROVE  ListsFine'
<1>1. ASSUME UNCHANGED <<items, new, told, tables, kept>> PROVE ListsFine'
  BY <1>1 DEF ListsFine, Fine, Fits
<1>2. ASSUME NEW b, HS!BeforeFetch(b) \/ HS!AfterFetch(b) \/ HS!BeforeWebhook(b)
      PROVE  ListsFine'
  BY <1>1, <1>2 DEF HS!BeforeFetch, HS!AfterFetch, HS!BeforeWebhook
<1>3. ASSUME NEW b, NEW ok, HS!Fetch(b, ok) PROVE ListsFine'
  BY <1>1, <1>3 DEF HS!Fetch
<1>4. ASSUME NEW b, HS!Extract(b) PROVE ListsFine'
  <2>1. UNCHANGED <<new, told, tables, kept>>
    BY <1>4 DEF HS!Extract
  <2>2. \/ items' = items \/ items' = <<>>
        \/ \E n \in 0..MaxItems : \/ items' = [e \in 1..n |-> [of |-> e, meta |-> e]]
                                  \/ items' = [e \in 1..n |-> [of |-> e, meta |-> None]]
    BY <1>4 DEF HS!Extract
  <2>3. ASSUME NEW n \in 0..MaxItems, NEW s,
               \/ s = [e \in 1..n |-> [of |-> e, meta |-> e]]
               \/ s = [e \in 1..n |-> [of |-> e, meta |-> None]]
        PROVE  Fine(s) /\ Fits(s)
    <3>1. n \in Nat /\ n <= MaxItems /\ 1..n \subseteq HS!Elements
      BY MaxItemsIsNat DEF HS!Elements
    <3>2. s \in [1..n -> HS!ItemSet]
      BY <2>3, <3>1 DEF HS!ItemSet
    <3>3. s \in Seq(HS!ItemSet) /\ Len(s) = n
      BY <3>1, <3>2
    <3>4. Fits(s)
      BY <2>3 DEF Fits
    <3> QED
      BY <3>1, <3>3, <3>4 DEF Fine
  <2>4. Fine(items') /\ (~kept => Fits(items'))
    BY <2>2, <2>3, EmptyFits DEF ListsFine
  <2> QED
    BY <2>1, <2>4 DEF ListsFine, Fine, Fits
<1>5. ASSUME NEW b, HS!AfterExtract(b) \/ HS!BeforeStore(b) PROVE ListsFine'
  <2>1. /\ HS!AfterHook(b, items, <<>>, items') /\ HS!Shows(b, items)
        /\ UNCHANGED <<new, told>>
    BY <1>5 DEF HS!AfterExtract, HS!BeforeStore
  <2>2. Fine(items') /\ (~kept' => ~kept /\ Fits(items')) /\ tables' \subseteq HS!TableSet
    BY <2>1, AfterHookFits, ShowsFits DEF ListsFine
  <2> QED
    BY <2>1, <2>2 DEF ListsFine, Fine, Fits
<1>6. ASSUME NEW b, HS!BeforeNotify(b) PROVE ListsFine'
  <2>1. /\ HS!AfterHook(b, new, <<>>, told') /\ HS!Shows(b, new)
        /\ UNCHANGED <<items, new>>
    BY <1>6 DEF HS!BeforeNotify
  <2>2. Fine(told') /\ (~kept' => ~kept /\ Fits(told')) /\ tables' \subseteq HS!TableSet
    BY <2>1, AfterHookFits, ShowsFits DEF ListsFine
  <2> QED
    BY <2>1, <2>2 DEF ListsFine, Fine, Fits
<1>7. ASSUME NEW b, HS!Filter(b) PROVE ListsFine'
  <2>1. PICK places \in HS!PlacesOf(items), edit \in SUBSET DOMAIN items :
            items' = HS!Those([i \in DOMAIN items |->
                                  IF i \in edit THEN [items[i] EXCEPT !.of = None]
                                                ELSE items[i]], places)
    BY <1>7 DEF HS!Filter
  <2> DEFINE edited == [i \in DOMAIN items |->
                           IF i \in edit THEN [items[i] EXCEPT !.of = None] ELSE items[i]]
  <2>2. Fine(items) /\ (~kept => Fits(items))
    BY DEF ListsFine
  <2>3. /\ DOMAIN edited = DOMAIN items /\ edited = [i \in DOMAIN items |-> edited[i]]
        /\ \A i \in DOMAIN items :
              edited[i] = IF i \in edit THEN [items[i] EXCEPT !.of = None] ELSE items[i]
    OBVIOUS
  <2> HIDE DEF edited
  <2>4. \A i \in DOMAIN items : items[i] \in HS!ItemSet
    BY <2>2 DEF Fine
  <2>5. \A i \in DOMAIN items : /\ edited[i] \in HS!ItemSet /\ edited[i].meta = items[i].meta
                                /\ edited[i].of \in {None, items[i].of}
    BY <2>3, <2>4 DEF HS!ItemSet
  <2>6. Fine(edited)
    <3>1. Len(items) \in Nat /\ DOMAIN items = 1..Len(items) /\ Len(items) <= MaxItems
      BY <2>2 DEF Fine
    <3>2. edited \in [1..Len(items) -> HS!ItemSet]
      BY <2>3, <2>5, <3>1
    <3>3. edited \in Seq(HS!ItemSet) /\ Len(edited) = Len(items)
      BY <3>1, <3>2
    <3> QED
      BY <3>1, <3>3 DEF Fine
  <2>7. Fits(items) => Fits(edited)
    BY <2>3, <2>5 DEF Fits
  <2>8. places \in HS!PlacesOf(edited)
    <3>1. Len(edited) = Len(items)
      BY <2>2, <2>3, <2>6 DEF Fine
    <3>2. PICK n \in 0..Len(items) :
              /\ places \in [1..n -> DOMAIN items]
              /\ \A i, k \in 1..n : i < k => places[i] < places[k]
      BY DEF HS!PlacesOf
    <3>3. /\ n \in 0..Len(edited) /\ places \in [1..n -> DOMAIN edited]
          /\ \A i, k \in 1..n : i < k => places[i] < places[k]
      BY <2>3, <3>1, <3>2
    <3> QED
      BY <3>3 DEF HS!PlacesOf
  <2>9. Fine(items') /\ (~kept => Fits(items'))
    BY <2>1, <2>2, <2>6, <2>7, <2>8, ThoseFit DEF edited
  <2>10. UNCHANGED <<new, told, tables, kept>>
    BY <1>7 DEF HS!Filter
  <2> QED
    BY <2>9, <2>10 DEF ListsFine, Fine, Fits
<1>8. CASE HS!Store
  <2>1. UNCHANGED <<items, told, tables, kept>>
    BY <1>8 DEF HS!Store
  <2>2. \/ new' = new
        \/ \E unseen \in HS!PlacesOf(items) : new' = HS!Those(items, unseen)
    BY <1>8 DEF HS!Store
  <2>3. Fine(new') /\ (~kept => Fits(new'))
    BY <2>2, ThoseFit DEF ListsFine
  <2> QED
    BY <2>1, <2>3 DEF ListsFine, Fine, Fits
<1>9. CASE UNCHANGED HS!vars
  BY <1>1, <1>9 DEF HS!vars
<1> HIDE DEF ListsFine
<1> QED
  BY <1>2, <1>3, <1>4, <1>5, <1>6, <1>7, <1>8, <1>9 DEF HS!Next

LEMMA StagesInvariant == SumSpec => [](part = "stages" => StagesInv)
<1>1. SumInit => (part = "stages" => StagesInv)
  BY InitStages DEF SumInit
<1>2. (part = "stages" => StagesInv) /\ [SumNext]_sumVars => (part = "stages" => StagesInv)'
  <2> SUFFICES ASSUME StagesInv, [HS!Next]_(HS!vars) PROVE StagesInv'
    BY StepOfStages
  <2>1. Staged' /\ ListsFine'
    BY StagesInvParts, StagedInductive, ListsInductive
  <2> QED
    BY <2>1, StagesInvParts DEF StagesInv, Staged, ListsFine, Fine, HS!TypeOK
<1> QED
  BY <1>1, <1>2, PTL DEF SumSpec

(***************************************************************************)
(* Whatever the hooks reorder, repeat, drop, edit or fail at: no item is   *)
(* stored or told with the metadata of another, unless a script returned a *)
(* table of an earlier stage.                                              *)
(***************************************************************************)
THEOREM MetadataStays == SumSpec => []MetadataFits
<1>1. ASSUME StagesInv PROVE HS!MetadataFits
  BY <1>1 DEF StagesInv, Fits, HS!MetadataFits, HS!ToSet
<1>2. (part = "stages" => StagesInv) => MetadataFits
  BY <1>1 DEF MetadataFits
<1> QED
  BY <1>2, StagesInvariant, PTL

-----------------------------------------------------------------------------
(***************************************************************************)
(* RequestHandler.  Some facts of remainders and of turns: of L turns that *)
(* are dealt to n in order, nobody gets two more than another.             *)
(***************************************************************************)
LEMMA DivMod ==
    ASSUME NEW x \in Nat, NEW n \in Nat \ {0}, NEW k \in Int, k = x \div n,
           NEW r \in Int, r = x % n
    PROVE  x = n * k + r /\ k >= 0 /\ r \in 0..(n - 1)
  OBVIOUS

LEMMA Division ==
    ASSUME NEW x \in Nat, NEW n \in Nat \ {0}
    PROVE  \E k \in Nat, r \in 0..(n - 1) : x = n * k + r /\ r = x % n
<1> DEFINE k == x \div n
           r == x % n
<1>1. k \in Int /\ r \in Int /\ r = x % n
  OBVIOUS
<1>2. x = n * k + r /\ k >= 0 /\ r \in 0..(n - 1)
  BY <1>1, DivMod
<1> HIDE DEF k, r
<1>3. k \in Nat /\ r \in 0..(n - 1)
  BY <1>1, <1>2
<1> QED
  BY <1>1, <1>2, <1>3, Zenon

LEMMA Remainder ==
    ASSUME NEW n \in Nat \ {0}, NEW k \in Nat, NEW r \in 0..(n - 1), NEW x \in Nat,
           x = n * k + r
    PROVE  x % n = r
  OBVIOUS

LEMMA Multiples ==
    ASSUME NEW n \in Nat \ {0}, NEW k \in Nat
    PROVE  /\ n * (k + 1) = n * k + n
           /\ \A m \in Nat : k < m => n * k + n <= n * m
  OBVIOUS

LEMMA RemainderOfSum ==
    ASSUME NEW x \in Nat, NEW n \in Nat \ {0}, NEW d \in 0..n
    PROVE  (x + d) % n = IF (x % n) + d < n THEN (x % n) + d ELSE (x % n) + d - n
<1>1. PICK k \in Nat, r \in 0..(n - 1) : x = n * k + r /\ r = x % n
  BY Division
<1> DEFINE y == x + d
<1>2. CASE r + d < n
  <2> DEFINE s == r + d
  <2>1. y = n * k + s /\ s \in 0..(n - 1) /\ y \in Nat
    BY <1>1, <1>2
  <2> HIDE DEF y, s
  <2>2. y % n = s
    BY <2>1, Remainder
  <2> QED
    BY <1>1, <1>2, <2>2 DEF y, s
<1>3. CASE ~(r + d < n)
  <2> DEFINE s == r + d - n
             m == k + 1
  <2>1. s \in 0..(n - 1) /\ y \in Nat /\ m \in Nat
    BY <1>1, <1>3
  <2>2. n * (k + 1) = n * k + n /\ n * k \in Nat
    BY Multiples
  <2>3. y = n * m + s
    BY <1>1, <2>1, <2>2
  <2> HIDE DEF y, s, m
  <2>4. y % n = s
    BY <2>1, <2>3, Remainder
  <2> QED
    BY <1>1, <1>3, <2>4 DEF y, s
<1> QED
  BY <1>2, <1>3

LEMMA SameRemainder ==
    ASSUME NEW x \in Nat, NEW y \in Nat, NEW n \in Nat \ {0}, x % n = y % n, x < y
    PROVE  x + n <= y
<1>1. PICK k \in Nat, r \in 0..(n - 1) : x = n * k + r /\ r = x % n
  BY Division
<1>2. PICK m \in Nat, q \in 0..(n - 1) : y = n * m + q /\ q = y % n
  BY Division
<1>3. n * k \in Nat /\ n * m \in Nat
  OBVIOUS
<1>4. k < m
  <2>1. k # m /\ n * k < n * m
    BY <1>1, <1>2, <1>3
  <2>2. m < k => n * m + n <= n * k
    BY Multiples
  <2> QED
    BY <2>1, <2>2, <1>3
<1>5. n * k + n <= n * m
  BY <1>4, Multiples
<1> QED
  BY <1>1, <1>2, <1>3, <1>5

LEMMA RemainderOfRemainder ==
    ASSUME NEW x \in Nat, NEW n \in Nat \ {0}, NEW w \in Nat \ {0}, w % n = 0
    PROVE  (x % w) % n = x % n
<1>1. PICK k \in Nat, r \in 0..(w - 1) : x = w * k + r /\ r = x % w
  BY Division
<1>2. PICK m \in Nat, q \in 0..(n - 1) : w = n * m + q /\ q = w % n
  BY Division
<1>3. PICK j \in Nat, s \in 0..(n - 1) : r = n * j + s /\ s = r % n
  <2>1. r \in Nat
    OBVIOUS
  <2> QED
    BY <2>1, Division, Zenon
<1>4. w = n * m
  <2>1. q = 0
    BY <1>2, Zenon
  <2> DEFINE p == n * m
  <2>2. p \in Nat
    BY <1>2
  <2>3. w = p + 0
    BY <1>2, <2>1
  <2> HIDE DEF p
  <2>4. w = p
    BY <2>2, <2>3
  <2> QED
    BY <2>4 DEF p
<1>5. w * k = n * (m * k) /\ m * k \in Nat
  BY <1>4
<1>6. n * (m * k) + n * j = n * (m * k + j) /\ m * k + j \in Nat
  BY <1>5
<1> DEFINE a == w * k
           b == n * j
           c == m * k + j
           e == n * c
<1>7. a \in Nat
  BY <1>1
<1>8. b \in Nat
  BY <1>3
<1>9. e = a + b
  BY <1>5, <1>6, Zenon
<1>10. c \in Nat /\ e = n * c /\ x = a + r /\ r = b + s
  BY <1>1, <1>3, <1>6
<1> HIDE DEF a, b, c, e
<1>11. x = n * c + s
  BY <1>7, <1>8, <1>9, <1>10
<1>12. x % n = s
  BY <1>10, <1>11, Remainder
<1> QED
  BY <1>1, <1>3, <1>12

\* The turns among the first L that come to the one at place a of n.
Turns(L, n, a) == {i \in 1..L : (i - 1) % n = a}

LEMMA TurnsAreEven ==
    ASSUME NEW L \in Nat, NEW n \in Nat \ {0}, NEW a \in 0..(n - 1), NEW b \in 0..(n - 1)
    PROVE  Cardinality(Turns(L, n, a)) <= Cardinality(Turns(L, n, b)) + 1
<1> DEFINE A == Turns(L, n, a)
           B == Turns(L, n, b)
           C == {i \in A : i + n <= L}
           D == A \ C
           d == IF b >= a THEN b - a ELSE b - a + n
<1>1. IsFiniteSet(A) /\ IsFiniteSet(B) /\ IsFiniteSet(C) /\ IsFiniteSet(D)
  <2>1. IsFiniteSet(1..L)
    BY FS_Interval
  <2>2. A \in SUBSET (1..L) /\ B \in SUBSET (1..L) /\ C \in SUBSET (1..L)
        /\ D \in SUBSET (1..L)
    BY DEF Turns
  <2> HIDE DEF A, B, C, D
  <2> QED
    BY <2>1, <2>2, FS_Subset
<1>2. Cardinality(C) <= Cardinality(B)
  <2> DEFINE f == [i \in C |-> i + d]
  <2>1. d \in 0..n /\ d < n
    OBVIOUS
  <2>2. ASSUME NEW i \in C PROVE i + d \in B
    <3>1. i \in 1..L /\ (i - 1) % n = a /\ i + n <= L /\ i - 1 \in Nat
      BY DEF Turns
    <3>2. ((i - 1) + d) % n = b
      <4>1. ((i - 1) + d) % n = IF a + d < n THEN a + d ELSE a + d - n
        BY <2>1, <3>1, RemainderOfSum
      <4> QED
        BY <4>1
    <3>3. i + d \in 1..L /\ (i + d) - 1 = (i - 1) + d
      BY <2>1, <3>1
    <3> HIDE DEF d
    <3> QED
      BY <3>2, <3>3 DEF Turns
  <2>3. \A i, k \in C : i + d = k + d => i = k
    BY <2>1 DEF Turns
  <2> HIDE DEF B, C, d
  <2>4. f \in Injection(C, B)
    BY <2>2, <2>3 DEF Injection, IsInjective
  <2> QED
    BY <1>1, <2>4, FS_Injection
<1>3. Cardinality(D) <= 1
  <2>1. ASSUME NEW i \in D, NEW k \in D, i < k PROVE FALSE
    <3>1. /\ i \in 1..L /\ (i - 1) % n = a /\ ~(i + n <= L) /\ i - 1 \in Nat
          /\ k \in 1..L /\ (k - 1) % n = a /\ k - 1 \in Nat
      BY DEF Turns
    <3>2. (i - 1) + n <= k - 1
      <4> DEFINE x == i - 1
                 y == k - 1
      <4>1. x \in Nat /\ y \in Nat /\ x % n = y % n /\ x < y
        BY <2>1, <3>1
      <4> HIDE DEF x, y
      <4>2. x + n <= y
        BY <4>1, SameRemainder
      <4> QED
        BY <4>2 DEF x, y
    <3> QED
      BY <3>1, <3>2
  <2>2. \A i, k \in D : i = k
    <3>1. \A i \in D : i \in Nat
      BY DEF Turns
    <3> HIDE DEF D
    <3> QED
      BY <2>1, <3>1
  <2> HIDE DEF D
  <2>3. D = {} \/ \E i : D = {i}
    BY <2>2
  <2> QED
    BY <2>3, FS_EmptySet, FS_Singleton
<1>4. Cardinality(D) = Cardinality(A) - Cardinality(C)
  <2>1. A \cap C = C
    OBVIOUS
  <2>2. Cardinality(A \ C) = Cardinality(A) - Cardinality(A \cap C)
    BY <1>1, FS_Difference
  <2> QED
    BY <2>1, <2>2
<1>5. /\ Cardinality(A) \in Nat /\ Cardinality(B) \in Nat
      /\ Cardinality(C) \in Nat /\ Cardinality(D) \in Nat
  BY <1>1, FS_CardinalityType
<1> HIDE DEF A, B, C, D
<1>6. Cardinality(A) <= Cardinality(B) + 1
  BY <1>2, <1>3, <1>4, <1>5
<1> QED
  BY <1>6 DEF A, B

(***************************************************************************)
(* The inductive invariant.  The counter is the number of requests it has  *)
(* served, modulo its range, and each of them got the proxy at its turn.   *)
(* Only an agent without a proxy and with the default timeout is kept.     *)
(***************************************************************************)
Proxies == (UNION {RH!Range(Proxy[j].urls) : j \in FetchJobs}) \cup {OwnProxy, None}

FetchRecord ==
    [at : {"idle", "agent", "call"}, proxy : Proxies, quick : BOOLEAN,
     agent : RH!Agents \cup {None}, result : {None, "error", "body"}, count : Nat]

Plain == [proxy |-> None, quick |-> FALSE]

TurnsTaken ==
    /\ given \in Seq([job : FetchJobs, proxy : Proxies])
    /\ nextIndex = Len(given) % Wrap
    /\ \A i \in 1..Len(given) :
           /\ RH!Rotates(given[i].job)
           /\ given[i].proxy = RH!ProxyAt(given[i].job, (i - 1) % Wrap)

AgentsFit ==
    /\ default \in {None, Plain}
    /\ fetch \in [Fetchers -> FetchRecord]
    /\ RH!AgentFits

RequestsInv == TurnsTaken /\ AgentsFit

LEMMA ProxyFacts ==
    /\ Wrap \in Nat \ {0} /\ FetchJobOf \in [Fetchers -> FetchJobs]
    /\ \A j \in FetchJobs :
           /\ Proxy[j].urls \in Seq(RH!Range(Proxy[j].urls))
           /\ RH!Range(Proxy[j].urls) \subseteq Proxies
           /\ Proxy[j].rotate \in {"Sticky", "Random", "RoundRobin"}
  BY ProxyAssumption DEF RH!ProxyAssumption, Proxies

LEMMA NoneIsProxy == None \in Proxies /\ OwnProxy \in Proxies
  BY Zenon DEF Proxies

LEMMA AgentsAre == RH!Agents = [proxy : Proxies, quick : BOOLEAN]
  BY DEF RH!Agents, Proxies

LEMMA ChoicesAreProxies ==
    ASSUME NEW j \in FetchJobs, nextIndex \in Nat
    PROVE  /\ RH!Choices(j) \subseteq Proxies
           /\ RH!Rotates(j) => RH!Choices(j) = {RH!ProxyAt(j, nextIndex)}
<1> DEFINE urls == Proxy[j].urls
<1>1. /\ urls \in Seq(RH!Range(urls)) /\ RH!Range(urls) \subseteq Proxies
      /\ Proxy[j].rotate \in {"Sticky", "Random", "RoundRobin"} /\ None \in Proxies
  BY NoneIsProxy, ProxyFacts
<1>2. RH!Rotates(j) => RH!Choices(j) = {RH!ProxyAt(j, nextIndex)}
  BY DEF RH!Rotates, RH!Choices
<1>3. CASE ~Proxy[j].enabled \/ urls = <<>>
  BY <1>1, <1>3 DEF RH!Choices, RH!Rotates
<1>4. CASE Proxy[j].enabled /\ urls # <<>>
  <2>1. \A p \in RH!Range(urls) : p \in Proxies
    BY <1>1
  <2>2. Len(urls) \in Nat \ {0} /\ \A i \in 1..Len(urls) : urls[i] \in Proxies
    BY <1>1, <1>4
  <2>3. RH!ProxyAt(j, nextIndex) \in Proxies
    <3> DEFINE n == Len(urls)
               a == nextIndex % n
    <3>1. n \in Nat \ {0}
      BY <2>2
    <3> HIDE DEF n
    <3>2. a \in 0..(n - 1)
      BY <3>1, Division
    <3> HIDE DEF a
    <3>3. a + 1 \in 1..n
      BY <3>1, <3>2
    <3> QED
      BY <2>2, <3>3 DEF RH!ProxyAt, n, a
  <2>4. urls[1] \in Proxies
    BY <2>2
  <2> QED
    BY <1>1, <1>2, <1>4, <2>1, <2>3, <2>4 DEF RH!Choices, RH!Rotates
<1> QED
  BY <1>2, <1>3, <1>4

LEMMA IndexIsNat == ASSUME TurnsTaken PROVE nextIndex \in 0..(Wrap - 1) /\ nextIndex \in Nat
<1>1. Len(given) \in Nat /\ nextIndex = Len(given) % Wrap
  BY DEF TurnsTaken
<1> QED
  BY <1>1, ProxyFacts

LEMMA InitRequests == RH!Init => RequestsInv
<1> SUFFICES ASSUME RH!Init PROVE RequestsInv
  OBVIOUS
<1>1. TurnsTaken
  <2>1. Len(<<>>) = 0 /\ 0 % Wrap = 0
    BY ProxyFacts
  <2> QED
    BY <2>1 DEF RH!Init, TurnsTaken
<1>2. AgentsFit
  BY NoneIsProxy DEF RH!Init, AgentsFit, FetchRecord, RH!AgentFits
<1> QED
  BY <1>1, <1>2 DEF RequestsInv

\* One worker's fetch becomes another record of its kind.
LEMMA FetchStep ==
    ASSUME AgentsFit, NEW w \in Fetchers, NEW r \in FetchRecord,
           fetch' = [fetch EXCEPT ![w] = r], default' \in {None, Plain},
           r.at = "call" => r.agent = [proxy |-> r.proxy, quick |-> r.quick]
    PROVE  AgentsFit'
<1>1. fetch' \in [Fetchers -> FetchRecord]
      /\ \A v \in Fetchers : fetch'[v] = IF v = w THEN r ELSE fetch[v]
  BY DEF AgentsFit
<1>2. RH!AgentFits'
  BY <1>1 DEF AgentsFit, RH!AgentFits
<1> QED
  BY <1>1, <1>2 DEF AgentsFit

LEMMA StartFits ==
    ASSUME RequestsInv, NEW w \in Fetchers, NEW own \in {None, OwnProxy},
           NEW quick \in BOOLEAN, RH!Start(w, own, quick)
    PROVE  RequestsInv'
<1> DEFINE j == FetchJobOf[w]
           draws == own = None /\ RH!Rotates(j)
<1>1. TurnsTaken /\ AgentsFit /\ j \in FetchJobs /\ nextIndex \in Nat
  BY ProxyFacts, IndexIsNat DEF RequestsInv
<1>2. PICK p \in IF own = None THEN RH!Choices(j) ELSE {own} :
          /\ fetch' = [fetch EXCEPT ![w] =
                          [at |-> "agent", proxy |-> p, quick |-> quick, agent |-> None,
                           result |-> None, count |-> @.count + 1]]
          /\ given' = IF own = None /\ RH!Rotates(j)
                         THEN Append(given, [job |-> j, proxy |-> p]) ELSE given
  BY Zenon DEF RH!Start
<1>3. p \in Proxies /\ (draws => p = RH!ProxyAt(j, nextIndex))
  <2>2. /\ RH!Choices(j) \subseteq Proxies
        /\ RH!Rotates(j) => RH!Choices(j) = {RH!ProxyAt(j, nextIndex)}
    BY <1>1, ChoicesAreProxies
  <2> QED
    BY <1>2, <2>2, NoneIsProxy
<1>4. AgentsFit'
  <2> DEFINE r == [at |-> "agent", proxy |-> p, quick |-> quick, agent |-> None,
                   result |-> None, count |-> fetch[w].count + 1]
  <2>1. fetch[w] \in FetchRecord
    BY <1>1 DEF AgentsFit
  <2>2. r \in FetchRecord /\ r.at = "agent"
    <3>1. fetch[w].count + 1 \in Nat
      BY <2>1 DEF FetchRecord
    <3> QED
      BY <1>3, <3>1, NoneIsProxy DEF FetchRecord
  <2>3. fetch' = [fetch EXCEPT ![w] = r] /\ default' \in {None, Plain}
    <3>1. fetch' = [fetch EXCEPT ![w] = r]
      BY <1>2, Zenon
    <3> QED
      BY <1>1, <3>1 DEF RH!Start, AgentsFit
  <2> HIDE DEF r
  <2> QED
    BY <1>1, <2>2, <2>3, FetchStep
<1>5. CASE ~draws
  <2>1. nextIndex' = nextIndex /\ given' = given
    BY <1>2, <1>5 DEF RH!Start, RH!Select
  <2> QED
    BY <1>1, <1>4, <2>1 DEF TurnsTaken, RequestsInv
<1>6. CASE draws
  <2> DEFINE turn == [job |-> j, proxy |-> p]
             L == Len(given)
  <2>1. nextIndex' = (nextIndex + 1) % Wrap /\ given' = Append(given, turn)
    BY <1>2, <1>6 DEF RH!Start, RH!Select, RH!Draw
  <2>2. /\ given \in Seq([job : FetchJobs, proxy : Proxies])
        /\ turn \in [job : FetchJobs, proxy : Proxies]
        /\ turn.job = j /\ turn.proxy = p
        /\ L \in Nat /\ nextIndex = L % Wrap
        /\ \A i \in 1..L :
               /\ RH!Rotates(given[i].job)
               /\ given[i].proxy = RH!ProxyAt(given[i].job, (i - 1) % Wrap)
    BY <1>1, <1>3 DEF TurnsTaken
  <2>3. /\ given' \in Seq([job : FetchJobs, proxy : Proxies]) /\ Len(given') = L + 1
        /\ \A i \in 1..L : given'[i] = given[i]
        /\ given'[L + 1] = turn
    BY <2>1, <2>2
  <2>4. nextIndex' = (L + 1) % Wrap
    <3>1. (L + 1) % Wrap = IF (L % Wrap) + 1 < Wrap THEN (L % Wrap) + 1 ELSE (L % Wrap) + 1 - Wrap
      <4>1. 1 \in 0..Wrap /\ L \in Nat /\ Wrap \in Nat \ {0}
        BY <2>2, ProxyFacts
      <4> HIDE DEF L
      <4> QED
        BY <4>1, RemainderOfSum
    <3>2. nextIndex \in 0..(Wrap - 1) /\ Wrap \in Nat \ {0}
      BY <1>1, IndexIsNat, ProxyFacts
    <3>3. (nextIndex + 1) % Wrap = IF nextIndex + 1 < Wrap THEN nextIndex + 1 ELSE 0
      BY <3>2
    <3> QED
      BY <2>1, <2>2, <3>1, <3>2, <3>3
  <2>5. p = RH!ProxyAt(j, ((L + 1) - 1) % Wrap)
    <3>1. (L + 1) - 1 = L
      BY <2>2
    <3> QED
      BY <1>3, <1>6, <2>2, <3>1
  <2>6. \A i \in 1..(L + 1) : i \in 1..L \/ i = L + 1
    BY <2>2
  <2> HIDE DEF L, turn
  <2>7. ASSUME NEW i \in 1..Len(given')
        PROVE  /\ RH!Rotates(given'[i].job)
               /\ given'[i].proxy = RH!ProxyAt(given'[i].job, (i - 1) % Wrap)
    <3>1. CASE i \in 1..L
      BY <2>2, <2>3, <3>1
    <3>2. CASE i = L + 1
      BY <1>6, <2>2, <2>3, <2>5, <3>2
    <3> QED
      BY <2>3, <2>6, <2>7, <3>1, <3>2
  <2>8. TurnsTaken'
    BY <2>3, <2>4, <2>7 DEF TurnsTaken, RH!Rotates, RH!ProxyAt
  <2> QED
    BY <1>4, <2>8 DEF RequestsInv
<1> QED
  BY <1>5, <1>6

LEMMA RequestsInductive ==
    ASSUME RequestsInv, [RH!Next]_(RH!vars)
    PROVE  RequestsInv'
<1>1. TurnsTaken /\ AgentsFit
  BY DEF RequestsInv
<1>2. ASSUME UNCHANGED <<nextIndex, given>>, AgentsFit' PROVE RequestsInv'
  BY <1>1, <1>2 DEF TurnsTaken, RequestsInv
<1>3. ASSUME NEW w \in Fetchers, RH!GetAgent(w) PROVE RequestsInv'
  <2> DEFINE asked == [proxy |-> fetch[w].proxy, quick |-> fetch[w].quick]
             keeps == asked.proxy = None /\ ~asked.quick
  <2>1. fetch[w] \in FetchRecord /\ default \in {None, Plain}
    BY <1>1 DEF AgentsFit
  <2>2. keeps => asked = Plain
    BY <2>1 DEF Plain, FetchRecord
  <2>3. /\ default' = IF keeps /\ default = None THEN asked ELSE default
        /\ fetch' = [fetch EXCEPT ![w].at = "call",
                                  ![w].agent = IF keeps THEN default' ELSE asked]
        /\ UNCHANGED <<nextIndex, given>>
    BY <1>3 DEF RH!GetAgent
  <2>4. asked \in RH!Agents
    BY <2>1, AgentsAre DEF FetchRecord
  <2>5. default' \in {None, Plain} /\ (keeps => default' = asked)
    BY <2>1, <2>2, <2>3
  <2> DEFINE r == [fetch[w] EXCEPT !.at = "call", !.agent = asked]
  <2>6. fetch' = [fetch EXCEPT ![w] = r]
    <3> HIDE DEF keeps, asked
    <3>1. (IF keeps THEN default' ELSE asked) = asked
      BY <2>5
    <3>2. fetch' = [fetch EXCEPT ![w].at = "call", ![w].agent = asked]
      BY <2>3, <3>1
    <3> QED
      BY <1>1, <2>1, <3>2 DEF AgentsFit, FetchRecord
  <2>7. r \in FetchRecord /\ r.agent = [proxy |-> r.proxy, quick |-> r.quick]
    BY <2>1, <2>4 DEF FetchRecord
  <2> HIDE DEF r
  <2> QED
    BY <1>1, <1>2, <2>3, <2>5, <2>6, <2>7, FetchStep
<1>4. ASSUME NEW w \in Fetchers, NEW result \in {"error", "body"},
             RH!NoAgent(w) \/ RH!Call(w, result)
      PROVE  RequestsInv'
  <2>1. fetch[w] \in FetchRecord /\ default' \in {None, Plain}
        /\ UNCHANGED <<nextIndex, given>>
    BY <1>1, <1>4 DEF AgentsFit, RH!NoAgent, RH!Call
  <2>2. PICK how \in {"error", "body"} :
            fetch' = [fetch EXCEPT ![w].at = "idle", ![w].result = how]
    BY <1>4 DEF RH!NoAgent, RH!Call
  <2> DEFINE r == [fetch[w] EXCEPT !.at = "idle", !.result = how]
  <2>3. fetch' = [fetch EXCEPT ![w] = r] /\ r \in FetchRecord /\ r.at = "idle"
    BY <1>1, <2>1, <2>2 DEF AgentsFit, FetchRecord
  <2> HIDE DEF r
  <2> QED
    BY <1>1, <1>2, <2>1, <2>3, FetchStep
<1>5. CASE UNCHANGED RH!vars
  BY <1>1, <1>2, <1>5 DEF RH!vars, AgentsFit, RH!AgentFits
<1> QED
  BY <1>3, <1>4, <1>5, StartFits DEF RH!Next

LEMMA CardinalityOfTurns == \A S : RH!Cardinality(S) = Cardinality(S)
  BY DEF RH!Cardinality, Cardinality

LEMMA TimesAreTurns ==
    ASSUME TurnsTaken, NEW j \in FetchJobs, RH!Rotates(j), RH!Alone(j),
           RH!IsInjective(Proxy[j].urls),
           Len(given) <= Wrap \/ Wrap % Len(Proxy[j].urls) = 0,
           NEW a \in 0..(Len(Proxy[j].urls) - 1)
    PROVE  RH!Times(j, Proxy[j].urls[a + 1])
               = Cardinality(Turns(Len(given), Len(Proxy[j].urls), a))
<1> DEFINE urls == Proxy[j].urls
           n == Len(urls)
           L == Len(given)
<1>1. n \in Nat \ {0} /\ L \in Nat /\ Wrap \in Nat \ {0} /\ (L <= Wrap \/ Wrap % n = 0)
  <2>1. urls \in Seq(RH!Range(urls)) /\ urls # <<>>
    BY ProxyFacts DEF RH!Rotates
  <2>2. given \in Seq([job : FetchJobs, proxy : Proxies])
    BY DEF TurnsTaken
  <2> QED
    BY <2>1, <2>2, ProxyFacts
<1>2. \A i, k \in 1..n : urls[i] = urls[k] => i = k
  <2>1. DOMAIN urls = 1..n
    BY ProxyFacts
  <2> QED
    BY <2>1 DEF RH!IsInjective
<1>3. ASSUME NEW i \in 1..L
      PROVE  given[i] = [job |-> j, proxy |-> urls[a + 1]] <=> (i - 1) % n = a
  <2> DEFINE x == i - 1
             w == x % Wrap
             t == x % n
  <2>1. x \in Nat /\ x < L
    BY <1>1
  <2>2. given[i].job = j /\ given[i].proxy = RH!ProxyAt(j, w)
    <3>1. given[i].job = j
      BY DEF RH!Alone, TurnsTaken
    <3>2. given[i].proxy = RH!ProxyAt(given[i].job, w)
      BY DEF TurnsTaken
    <3> HIDE DEF w
    <3> QED
      BY <3>1, <3>2 DEF RH!ProxyAt
  <2>3. given[i] = [job |-> given[i].job, proxy |-> given[i].proxy]
    <3>1. given[i] \in [job : FetchJobs, proxy : Proxies]
      <4> DEFINE S == [job : FetchJobs, proxy : Proxies]
      <4>1. given \in Seq(S) /\ i \in 1..Len(given)
        BY DEF TurnsTaken
      <4> HIDE DEF S
      <4>2. given[i] \in S
        BY <4>1
      <4> QED
        BY <4>2 DEF S
    <3> QED
      BY <3>1
  <2> HIDE DEF n, L, x
  <2>4. w % n = t
    <3>1. CASE L <= Wrap
      <4>1. w = x
        BY <1>1, <2>1, <3>1
      <4> QED
        BY <4>1
    <3>2. CASE Wrap % n = 0
      <4> HIDE DEF w, t
      <4>1. x \in Nat /\ n \in Nat \ {0} /\ Wrap \in Nat \ {0}
        BY <1>1, <2>1
      <4>2. (x % Wrap) % n = x % n
        BY <3>2, <4>1, RemainderOfRemainder
      <4> QED
        BY <4>2 DEF w, t
    <3> QED
      BY <1>1, <3>1, <3>2
  <2>5. t \in 0..(n - 1)
    BY <1>1, <2>1, Division
  <2> HIDE DEF w, t
  <2>6. RH!ProxyAt(j, w) = urls[t + 1]
    BY <2>4 DEF RH!ProxyAt, n
  <2>7. a \in 0..(n - 1)
    BY DEF n
  <2>8. urls[t + 1] = urls[a + 1] <=> t = a
    <3> HIDE DEF urls
    <3>1. t + 1 \in 1..n /\ a + 1 \in 1..n /\ (t + 1 = a + 1 <=> t = a)
      BY <1>1, <2>5, <2>7
    <3> QED
      BY <1>2, <3>1
  <2>9. given[i] = [job |-> j, proxy |-> urls[a + 1]] <=> given[i].proxy = urls[a + 1]
    BY <2>2, <2>3
  <2> QED
    BY <2>2, <2>6, <2>8, <2>9 DEF t, x
<1>4. {i \in DOMAIN given : given[i] = [job |-> j, proxy |-> urls[a + 1]]} = Turns(L, n, a)
  <2>1. DOMAIN given = 1..L
    BY DEF TurnsTaken
  <2> HIDE DEF urls, n, L
  <2> QED
    BY <1>3, <2>1 DEF Turns
<1> QED
  BY <1>4, CardinalityOfTurns DEF RH!Times

LEMMA EvenByTurns ==
    ASSUME TurnsTaken
    PROVE  RH!RotationIsEven
<1> SUFFICES ASSUME NEW j \in FetchJobs, RH!Rotates(j), RH!Alone(j),
                    RH!IsInjective(Proxy[j].urls),
                    Len(given) <= Wrap \/ Wrap % Len(Proxy[j].urls) = 0,
                    NEW p \in RH!Range(Proxy[j].urls), NEW q \in RH!Range(Proxy[j].urls)
             PROVE  RH!Times(j, p) <= RH!Times(j, q) + 1
  BY DEF RH!RotationIsEven
<1> DEFINE urls == Proxy[j].urls
           n == Len(urls)
<1>1. n \in Nat \ {0} /\ Len(given) \in Nat
  <2>1. urls \in Seq(RH!Range(urls)) /\ urls # <<>>
    BY ProxyFacts DEF RH!Rotates
  <2> QED
    BY <2>1 DEF TurnsTaken
<1>2. ASSUME NEW x \in RH!Range(urls)
      PROVE  \E a \in 0..(n - 1) : x = urls[a + 1]
  <2>1. PICK i \in DOMAIN urls : x = urls[i]
    BY DEF RH!Range
  <2>2. DOMAIN urls = 1..n
    BY ProxyFacts
  <2>3. i - 1 \in 0..(n - 1) /\ (i - 1) + 1 = i
    BY <1>1, <2>1, <2>2
  <2> QED
    BY <2>1, <2>3
<1>3. PICK a \in 0..(n - 1) : p = urls[a + 1]
  BY <1>2
<1>4. PICK b \in 0..(n - 1) : q = urls[b + 1]
  BY <1>2
<1>5. RH!Times(j, p) = Cardinality(Turns(Len(given), n, a))
  BY <1>3, TimesAreTurns
<1>6. RH!Times(j, q) = Cardinality(Turns(Len(given), n, b))
  BY <1>4, TimesAreTurns
<1> QED
  BY <1>1, <1>5, <1>6, TurnsAreEven

LEMMA RequestsInvariant == SumSpec => [](part = "requests" => RequestsInv)
<1>1. SumInit => (part = "requests" => RequestsInv)
  BY InitRequests DEF SumInit
<1>2. (part = "requests" => RequestsInv) /\ [SumNext]_sumVars
      => (part = "requests" => RequestsInv)'
  BY StepOfRequests, RequestsInductive
<1> QED
  BY <1>1, <1>2, PTL DEF SumSpec

(***************************************************************************)
(* Workers that fetch at the same time share the proxies of their job      *)
(* evenly, and each request goes out through the proxy selected for it,    *)
(* with the timeout asked for, although all share one default agent.       *)
(***************************************************************************)
THEOREM RotationStaysEven == SumSpec => []RotationIsEven
<1>1. (part = "requests" => RequestsInv) => RotationIsEven
  BY EvenByTurns DEF RequestsInv, AgentsFit, RotationIsEven
<1> QED
  BY <1>1, RequestsInvariant, PTL

-----------------------------------------------------------------------------
(***************************************************************************)
(* The types of these parts.                                               *)
(***************************************************************************)
Placed(q) ==
    /\ q.at \in {"new", "routed", "loading", "resolving", "handling", "deferred",
                "sweeping", "answered"}
    /\ q.made \in 0..MaxDefers
    /\ q.answer \in {0, 200, 401, 404, 500}
    /\ q.at = "answered" <=> q.answer # 0

LEMMA StepPlaces ==
    ASSUME ApiInv, API!TypeOK, NEW r \in Requests, NEW at0, NEW after, Placed(after),
           API!Steps(r, at0, after)
    PROVE  API!TypeOK'
<1>1. \A q \in Requests : Placed(req'[q])
  BY DEF API!Steps, ApiInv, API!TypeOK, Placed
<1> QED
  BY <1>1 DEF API!TypeOK, API!Steps, Placed, API!InitFiles, API!Tables

LEMMA PlacedAt == ASSUME API!TypeOK, NEW r \in Requests PROVE Placed(req[r])
  BY DEF API!TypeOK, Placed

LEMMA AnsweredPlaced ==
    ASSUME NEW q \in RequestRecord, Placed(q), NEW status \in {200, 401, 404, 500}
    PROVE  Placed(API!Answered(q, status))
<1> DEFINE e == API!Answered(q, status)
<1>1. e.at = "answered" /\ e.answer = status /\ e.made = q.made
  BY DEF API!Answered, RequestRecord
<1> HIDE DEF e
<1>2. Placed(e)
  BY <1>1 DEF Placed
<1> QED
  BY <1>2 DEF e

\* A request that is not answered and moves on.
LEMMA MovedPlaced ==
    ASSUME NEW q, Placed(q), q.at # "answered", NEW e,
           e.at \in {"new", "routed", "loading", "resolving", "handling", "deferred",
                    "sweeping"},
           e.made \in 0..MaxDefers, e.answer = q.answer
    PROVE  Placed(e)
  BY DEF Placed

LEMMA RouteTyped ==
    ASSUME ApiInv, API!TypeOK, NEW r \in Requests, NEW path \in API!Paths,
           NEW keyed \in BOOLEAN, NEW named \in BOOLEAN, API!Route(r, path, keyed, named)
    PROVE  API!TypeOK'
<1> DEFINE q == req[r]
           seen == [q EXCEPT !.path = path, !.keyed = keyed]
           after == IF ~API!Authorized(path, keyed) THEN API!Answered(seen, 401)
                    ELSE IF path \in {"public", "v"}
                         THEN IF named THEN [seen EXCEPT !.at = "routed"]
                              ELSE API!Answered(seen, 404)
                    ELSE IF path = "other" THEN API!Answered(seen, 404)
                    ELSE API!Answered(seen, 200)
<1>1. q \in RequestRecord /\ Placed(q) /\ q.at = "new" /\ API!Steps(r, "new", after)
  BY RequestAt, PlacedAt DEF API!Route, API!Steps
<1>2. /\ seen \in RequestRecord /\ seen.at = q.at /\ seen.made = q.made
      /\ seen.answer = q.answer
  BY <1>1 DEF RequestRecord, API!Paths
<1> HIDE DEF q, seen
<1>3. Placed(seen)
  BY <1>1, <1>2 DEF Placed
<1>4. Placed([seen EXCEPT !.at = "routed"])
  <2> DEFINE e == [seen EXCEPT !.at = "routed"]
  <2>1. e.at = "routed" /\ e.made = seen.made /\ e.answer = seen.answer
    BY <1>2 DEF RequestRecord
  <2> HIDE DEF e
  <2>2. Placed(e)
    BY <1>1, <1>2, <1>3, <2>1 DEF Placed
  <2> QED
    BY <2>2 DEF e
<1>5. Placed(after)
  BY <1>2, <1>3, <1>4, AnsweredPlaced
<1> HIDE DEF after
<1> QED
  BY <1>1, <1>5, StepPlaces

\* The steps of a request that has a handler's path.
LEMMA HandlingTyped ==
    ASSUME ApiInv, API!TypeOK, NEW r \in Requests, NEW fails \in BOOLEAN,
           \/ API!ReadInit(r) \/ API!Defer(r) \/ API!Timeout(r) \/ API!Loaded(r, fails)
           \/ API!Resolve(r) \/ API!Handled(r, fails) \/ API!Swap(r) \/ API!RunNext(r)
    PROVE  API!TypeOK'
<1> DEFINE q == req[r]
           Kept(e) == e.made = q.made /\ e.answer = q.answer
<1>1. /\ q \in RequestRecord /\ Placed(q)
      /\ \A status \in {200, 401, 404, 500} : Placed(API!Answered(q, status))
  BY RequestAt, PlacedAt, AnsweredPlaced
<1>2. ASSUME NEW at0, NEW e, at0 # "answered", API!Steps(r, at0, e), Kept(e),
             e.at \in {"new", "routed", "loading", "resolving", "handling", "deferred",
                      "sweeping"}
      PROVE  API!TypeOK'
  <2>1. Placed(e)
    BY <1>1, <1>2, MovedPlaced DEF Placed, API!Steps
  <2> QED
    BY <1>2, <2>1, StepPlaces
<1>3. ASSUME NEW at0, NEW status \in {200, 401, 404, 500},
             API!Steps(r, at0, API!Answered(q, status))
      PROVE  API!TypeOK'
  BY <1>1, <1>3, StepPlaces
<1>4. CASE API!ReadInit(r)
  <2>1. CASE init = {"missing"}
    BY <2>1, <1>3, <1>4 DEF API!ReadInit
  <2>2. CASE init # {"missing"}
    <3> DEFINE e == [q EXCEPT !.at = "loading", !.defines = init]
    <3>1. API!Steps(r, "routed", e)
      BY <2>2, <1>4 DEF API!ReadInit
    <3>2. Kept(e) /\ e.at = "loading"
      BY <1>1 DEF RequestRecord
    <3> HIDE DEF e
    <3> QED
      BY <3>1, <3>2, <1>2
  <2> QED
    BY <2>1, <2>2
<1>5. CASE API!Defer(r)
  <2> DEFINE e == [q EXCEPT !.made = @ + 1, !.queue = Append(@, q.made + 1)]
  <2>1. /\ q.at \in {"loading", "handling", "sweeping"} /\ q.made < MaxDefers
        /\ API!Steps(r, q.at, e)
    BY <1>5 DEF API!Defer, API!Steps
  <2>2. e.at = q.at /\ e.made = q.made + 1 /\ e.answer = q.answer
    BY <1>1 DEF RequestRecord
  <2> HIDE DEF e
  <2>3. e.made \in 0..MaxDefers
    BY <1>1, <2>1, <2>2, ApiAssumption DEF Placed, API!BoundAssumption
  <2>4. Placed(e)
    BY <1>1, <2>1, <2>2, <2>3, MovedPlaced
  <2> QED
    BY <2>1, <2>4, StepPlaces
<1>6. CASE API!Timeout(r)
  <2> DEFINE e == [q EXCEPT !.late = TRUE]
  <2>1. /\ q.at \in {"loading", "handling", "deferred", "sweeping"}
        /\ API!Steps(r, q.at, e)
    BY <1>6 DEF API!Timeout, API!Steps
  <2>2. Kept(e) /\ e.at = q.at
    BY <1>1 DEF RequestRecord
  <2> HIDE DEF e
  <2> QED
    BY <2>1, <2>2, <1>2
<1>7. CASE API!Loaded(r, fails)
  <2>1. CASE fails
    BY <2>1, <1>3, <1>7 DEF API!Loaded
  <2>2. CASE ~fails
    <3> DEFINE e == [q EXCEPT !.at = "resolving"]
    <3>1. API!Steps(r, "loading", e)
      BY <2>2, <1>7 DEF API!Loaded
    <3>2. Kept(e) /\ e.at = "resolving"
      BY <1>1 DEF RequestRecord
    <3> HIDE DEF e
    <3> QED
      BY <3>1, <3>2, <1>2
  <2> QED
    BY <2>1, <2>2
<1>8. CASE API!Resolve(r)
  <2> DEFINE handler == API!HandlerOf(q)
  <2>1. CASE handler = "none"
    BY <2>1, <1>3, <1>8 DEF API!Resolve
  <2>2. CASE handler # "none"
    <3> DEFINE e == [q EXCEPT !.at = "handling", !.called = handler]
    <3>1. API!Steps(r, "resolving", e)
      BY <2>2, <1>8 DEF API!Resolve
    <3> HIDE DEF handler
    <3>2. Kept(e) /\ e.at = "handling"
      BY <1>1 DEF RequestRecord
    <3> HIDE DEF e
    <3> QED
      BY <3>1, <3>2, <1>2
  <2> QED
    BY <2>1, <2>2
<1>9. CASE API!Handled(r, fails)
  <2> DEFINE e == [q EXCEPT !.at = "deferred",
                            !.called = IF fails THEN "failed" ELSE @]
  <2>1. API!Steps(r, "handling", e)
    BY <1>9 DEF API!Handled
  <2>2. Kept(e) /\ e.at = "deferred"
    BY <1>1 DEF RequestRecord
  <2> HIDE DEF e
  <2> QED
    BY <2>1, <2>2, <1>2
<1>10. CASE API!Swap(r)
  <2>1. CASE q.queue = <<>>
    <3>1. (IF q.called = "failed" THEN 500 ELSE 200) \in {200, 401, 404, 500}
      OBVIOUS
    <3> QED
      BY <2>1, <3>1, <1>3, <1>10 DEF API!Swap
  <2>2. CASE q.queue # <<>>
    <3> DEFINE e == [q EXCEPT !.at = "sweeping", !.batch = API!Reverse(q.queue),
                              !.queue = <<>>]
    <3>1. API!Steps(r, "deferred", e)
      BY <2>2, <1>10 DEF API!Swap
    <3>2. Kept(e) /\ e.at = "sweeping"
      BY <1>1 DEF RequestRecord
    <3> HIDE DEF e
    <3> QED
      BY <3>1, <3>2, <1>2
  <2> QED
    BY <2>1, <2>2
<1>11. CASE API!RunNext(r)
  <2> DEFINE e == IF q.batch = <<>> THEN [q EXCEPT !.at = "deferred"]
                  ELSE [q EXCEPT !.batch = Tail(@), !.ran = Append(@, Head(q.batch))]
  <2>1. API!Steps(r, "sweeping", e) /\ q.at = "sweeping"
    BY <1>11 DEF API!RunNext, API!Steps
  <2>2. Kept(e) /\ e.at \in {"deferred", "sweeping"}
    BY <1>1, <2>1 DEF RequestRecord
  <2> HIDE DEF e
  <2> QED
    BY <2>1, <2>2, <1>2
<1> QED
  BY <1>4, <1>5, <1>6, <1>7, <1>8, <1>9, <1>10, <1>11

LEMMA ApiTypes == SumSpec => [](part = "api" => API!TypeOK)
<1>1. SumInit => (part = "api" => API!TypeOK)
  BY ApiAssumption DEF SumInit, API!Init, API!New, API!TypeOK, API!InitFiles,
     API!BoundAssumption
<1>2. ASSUME ApiInv, API!TypeOK, [API!Next]_(API!vars) PROVE API!TypeOK'
  <2>1. CASE API!Save
    <3>1. init' \in API!InitFiles
      BY <2>1 DEF API!Save, API!InitFiles, API!Tables, API!SymDiff
    <3> QED
      <4>1. init' \in API!InitFiles' /\ req' = req
        BY <2>1, <3>1 DEF API!Save, API!InitFiles, API!Tables
      <4> QED
        BY <1>2, <4>1 DEF API!TypeOK
  <2>2. CASE UNCHANGED API!vars
    BY <1>2, <2>2 DEF API!vars, API!TypeOK, API!InitFiles, API!Tables
  <2> QED
    BY <1>2, <2>1, <2>2, RouteTyped, HandlingTyped DEF API!Next
<1>3. (part = "api" => ApiInv) /\ (part = "api" => API!TypeOK) /\ [SumNext]_sumVars
      => (part = "api" => API!TypeOK)'
  BY <1>2, StepOfApi
<1> QED
  BY <1>1, <1>3, ApiInvariant, PTL DEF SumSpec

LEMMA DataTypes ==
    SumSpec => [](/\ part = "api" => API!TypeOK
                  /\ part = "logs" => LF!TypeOK
                  /\ part = "stages" => HS!TypeOK
                  /\ part = "requests" => RH!TypeOK)
<1>1. (part = "logs" => LogsInv) => (part = "logs" => LF!TypeOK)
  BY DEF LogsInv, LogsTyped, LF!TypeOK
<1>2. (part = "stages" => StagesInv) => (part = "stages" => HS!TypeOK)
  BY DEF StagesInv
<1>3. (part = "requests" => RequestsInv) => (part = "requests" => RH!TypeOK)
  <2> SUFFICES ASSUME RequestsInv PROVE RH!TypeOK
    OBVIOUS
  <2>1. nextIndex \in 0..(Wrap - 1)
    BY IndexIsNat DEF RequestsInv
  <2>2. Plain \in RH!Agents
    BY AgentsAre, NoneIsProxy DEF Plain
  <2> QED
    BY <2>1, <2>2 DEF RequestsInv, AgentsFit, FetchRecord, RH!TypeOK
<1> QED
  BY <1>1, <1>2, <1>3, ApiTypes, LogsInvariant, StagesInvariant, RequestsInvariant, PTL

=============================================================================
