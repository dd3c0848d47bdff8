--------------------------- MODULE ReadingProofs ---------------------------
(***************************************************************************)
(* Proofs about what is read, for any values of the constants: a client    *)
(* that walks through the pages of records, the tree the parser builds of  *)
(* a page, and what a selector finds in it.  Induction over a number goes  *)
(* by the least element of a set of numbers (LeastNatural, UpTo).          *)
(***************************************************************************)
EXTENDS ServicesProofs, DataFlowProofs, WellFoundedInduction

LEMMA OneMore ==
    ASSUME NEW S, IsFiniteSet(S), NEW x
    PROVE  /\ IsFiniteSet(S \cup {x})
           /\ Cardinality(S \cup {x}) \in Nat
           /\ Cardinality(S \cup {x}) <= Cardinality(S) + 1
<1>1. Cardinality(S) \in Nat
  BY FS_CardinalityType
<1>2. /\ IsFiniteSet(S \cup {x})
      /\ Cardinality(S \cup {x}) \in {Cardinality(S), Cardinality(S) + 1}
  BY FS_AddElement
<1> QED
  BY <1>1, <1>2

LEMMA LeastNatural ==
    ASSUME NEW T \in SUBSET Nat, T # {}
    PROVE  \E m \in T : \A k \in T : m <= k
<1> DEFINE R == OpToRel(<, Nat)
<1>1. IsWellFoundedOn(R, Nat)
  BY NatLessThanWellFounded
<1>2. \A x, y \in Nat : x < y => <<x, y>> \in R
  BY DEF OpToRel
<1> HIDE DEF R
<1>3. PICK m \in T : \A y \in T : ~(<<y, m>> \in R)
  BY <1>1, WFMin
<1>4. ASSUME NEW k \in T PROVE m <= k
  <2>1. k \in Nat /\ m \in Nat /\ ~(k < m)
    BY <1>2, <1>3
  <2> QED
    BY <2>1
<1> QED
  BY <1>4

LEMMA GreatestOf ==
    ASSUME NEW T \in SUBSET Nat, T # {}, NEW b \in Nat, \A t \in T : t <= b
    PROVE  \E m \in T : \A k \in T : k <= m
<1> DEFINE U == {b - t : t \in T}
<1>1. U \in SUBSET Nat /\ U # {}
  <2>1. \A t \in T : t \in Nat /\ b - t \in Nat
    OBVIOUS
  <2> QED
    BY <2>1
<1>2. PICK u \in U : \A v \in U : u <= v
  BY <1>1, LeastNatural
<1>3. PICK m \in T : u = b - m
  BY <1>2
<1>4. ASSUME NEW k \in T PROVE k <= m
  <2>1. u <= b - k
    BY <1>2
  <2> QED
    BY <1>3, <2>1
<1> QED
  BY <1>4

LEMMA ListIsSeq ==
    ASSUME NEW S, NEW n \in Nat, NEW s \in [1..n -> S]
    PROVE  s \in Seq(S) /\ Len(s) = n
  OBVIOUS

LEMMA SeqElements ==
    ASSUME NEW S, NEW s \in Seq(S)
    PROVE  /\ Len(s) \in Nat /\ (s = <<>> \/ Len(s) \in 1..Len(s))
           /\ \A i \in 1..Len(s) : s[i] \in S
  OBVIOUS

IsJoined(t, g, s) ==
    /\ Len(g) \in Nat /\ Len(s) \in Nat /\ Len(t) = Len(g) + Len(s)
    /\ \A i \in 1..Len(g) : i \in 1..Len(t) /\ t[i] = g[i]
    /\ \A k \in 1..Len(s) : Len(g) + k \in 1..Len(t) /\ t[Len(g) + k] = s[k]

LEMMA Joined ==
    ASSUME NEW S, NEW g \in Seq(S), NEW s \in Seq(S)
    PROVE  g \o s \in Seq(S) /\ IsJoined(g \o s, g, s)
  BY DEF IsJoined

-----------------------------------------------------------------------------
(* RecordsApi.                                                             *)

LEMMA ClockIs ==
    /\ MaxTs \in Nat /\ RA!Clock \in SUBSET Nat
    /\ \A t \in RA!Clock : t # 0 /\ t <= MaxTs
  BY RecordsAssumption DEF RA!ParamAssumption, RA!Clock

\* A strictly growing count places the elements of a set one after the other.
LEMMA RowsCounted == \A S : RA!Cardinality(S) = Cardinality(S)
  BY DEF RA!Cardinality, Cardinality

LEMMA StrictSubset ==
    ASSUME NEW S, IsFiniteSet(S), NEW T \in SUBSET S, T # S
    PROVE  /\ Cardinality(T) \in Nat /\ Cardinality(S) \in Nat
           /\ Cardinality(T) < Cardinality(S)
  BY FS_Subset, FS_CardinalityType

LEMMA Ranked ==
    ASSUME NEW T, IsFiniteSet(T), NEW r \in [T -> 1..Cardinality(T)],
           \A t, u \in T : r[t] = r[u] => t = u
    PROVE  \A k \in 1..Cardinality(T) : \E t \in T : r[t] = k
<1> DEFINE n == Cardinality(T)
<1>1. n \in Nat /\ IsFiniteSet(1..n) /\ Cardinality(1..n) = n
  BY FS_CardinalityType, FS_Interval
<1>2. r \in Injection(T, 1..n)
  BY DEF Injection, IsInjective
<1>3. r \in Surjection(T, 1..n)
  BY <1>1, <1>2, FS_Injection
<1> QED
  BY <1>3 DEF Surjection

LEMMA ListedNewestFirst ==
    ASSUME NEW T \in SUBSET Nat, IsFiniteSet(T)
    PROVE  /\ RA!NewestFirst(T) \in [1..Cardinality(T) -> T]
           /\ \A i, k \in 1..Cardinality(T) :
                  i < k => RA!NewestFirst(T)[i] > RA!NewestFirst(T)[k]
           /\ \A t \in T : \E k \in 1..Cardinality(T) : RA!NewestFirst(T)[k] = t
<1> DEFINE n == Cardinality(T)
           From(t) == {u \in T : u >= t}
           r == [t \in T |-> Cardinality(From(t))]
           s == RA!NewestFirst(T)
           At(k) == CHOOSE t \in T : RA!Cardinality({u \in T : u >= t}) = k
<1>1. n \in Nat /\ \A t \in T : IsFiniteSet(From(t)) /\ r[t] \in 1..n
  <2>1. n \in Nat
    BY FS_CardinalityType
  <2>2. ASSUME NEW t \in T PROVE IsFiniteSet(From(t)) /\ r[t] \in 1..n
    <3>1. From(t) \in SUBSET T /\ t \in From(t)
      OBVIOUS
    <3> HIDE DEF From
    <3>2. IsFiniteSet(From(t)) /\ Cardinality(From(t)) <= n /\ Cardinality(From(t)) \in Nat
      BY <3>1, FS_Subset, FS_CardinalityType
    <3>3. Cardinality(From(t)) # 0
      BY <3>1, <3>2, FS_EmptySet
    <3> QED
      BY <2>1, <3>2, <3>3
  <2> QED
    BY <2>1, <2>2
<1>2. ASSUME NEW t \in T, NEW u \in T, t < u PROVE r[u] < r[t]
  <2>1. From(u) \in SUBSET From(t) /\ t \in From(t) /\ t \notin From(u)
    <3>1. t \in Nat /\ u \in Nat /\ \A v \in T : v \in Nat
      OBVIOUS
    <3>2. \A v \in T : v >= u => v >= t
      BY <1>2, <3>1
    <3>3. t >= t /\ ~(t >= u)
      BY <1>2, <3>1
    <3> QED
      BY <3>2, <3>3
  <2>2. IsFiniteSet(From(t))
    BY <1>1
  <2> HIDE DEF From
  <2>3. Cardinality(From(u)) < Cardinality(From(t))
    BY <2>1, <2>2, StrictSubset
  <2> QED
    BY <2>3
<1>3. \A t, u \in T : r[t] = r[u] => t = u
  <2>1. \A t, u \in T : t < u \/ u < t \/ t = u
    OBVIOUS
  <2>2. \A t \in T : r[t] \in Nat
    BY <1>1
  <2> HIDE DEF r
  <2> QED
    BY <1>2, <2>1, <2>2
<1>4. \A k \in 1..n : \E t \in T : r[t] = k
  <2>1. r \in [T -> 1..n]
    BY <1>1
  <2> HIDE DEF r
  <2> QED
    BY <1>3, <2>1, Ranked
<1>5. /\ s = [k \in 1..n |-> At(k)]
      /\ \A k \in 1..n : At(k) \in T /\ r[At(k)] = k
  <2>1. s = [k \in 1..n |-> At(k)]
    <3>1. s = [k \in 1..RA!Cardinality(T) |-> At(k)]
      BY DEF RA!NewestFirst
    <3> HIDE DEF At, s
    <3> QED
      BY <3>1, RowsCounted
  <2>2. ASSUME NEW k \in 1..n PROVE At(k) \in T /\ Cardinality(From(At(k))) = k
    <3>1. \E t \in T : RA!Cardinality({u \in T : u >= t}) = k
      BY <1>4, RowsCounted
    <3>2. At(k) \in T /\ RA!Cardinality({u \in T : u >= At(k)}) = k
      BY <3>1
    <3> HIDE DEF At
    <3> QED
      BY <3>2, RowsCounted
  <2> HIDE DEF At, From
  <2> QED
    BY <2>1, <2>2
<1> HIDE DEF At
<1>6. s \in [1..n -> T] /\ \A k \in 1..n : r[s[k]] = k
  BY <1>5
<1>7. ASSUME NEW i \in 1..n, NEW k \in 1..n, i < k PROVE s[i] > s[k]
  <2>1. s[i] \in T /\ s[k] \in T /\ r[s[i]] = i /\ r[s[k]] = k
    BY <1>6
  <2> HIDE DEF r, s
  <2>2. s[i] \in Nat /\ s[k] \in Nat
    BY <2>1
  <2>3. ~(s[i] < s[k]) /\ s[i] # s[k]
    BY <1>2, <1>7, <2>1, <2>2
  <2> QED
    BY <2>2, <2>3
<1>8. ASSUME NEW t \in T PROVE \E k \in 1..n : s[k] = t
  <2>1. r[t] \in 1..n
    BY <1>1
  <2> HIDE DEF r, s
  <2>2. s[r[t]] = t
    BY <1>3, <1>6, <2>1
  <2> QED
    BY <2>1, <2>2
<1> QED
  BY <1>6, <1>7, <1>8

\* Rows of one job: a time is that of one row only.
Timed(S) ==
    /\ IsFiniteSet(S)
    /\ \A r \in S : r.ts \in RA!Clock
    /\ \A q, r \in S : q.ts = r.ts => q = r

LEMMA TimedSubset ==
    ASSUME NEW S, Timed(S), NEW T \in SUBSET S
    PROVE  Timed(T)
  BY FS_Subset DEF Timed

LEMMA TimesCounted ==
    ASSUME NEW S, Timed(S)
    PROVE  /\ RA!Times(S) \subseteq RA!Clock /\ RA!Times(S) \in SUBSET Nat
           /\ IsFiniteSet(RA!Times(S))
           /\ Cardinality(RA!Times(S)) = Cardinality(S)
<1> DEFINE T == RA!Times(S)
           f == [r \in S |-> r.ts]
<1>1. f \in Surjection(S, T)
  BY DEF Surjection, RA!Times
<1>2. f \in Injection(S, T)
  BY <1>1 DEF Surjection, Injection, IsInjective, Timed
<1>3. IsFiniteSet(T) /\ Cardinality(T) = Cardinality(S)
  BY <1>1, <1>2, FS_Surjection DEF Timed
<1>4. T \subseteq RA!Clock /\ T \in SUBSET Nat
  BY ClockIs DEF Timed, RA!Times
<1> QED
  BY <1>3, <1>4

Later(S, r) == {q \in S : q.ts > r.ts}

LEMMA NewestIs ==
    ASSUME NEW S, NEW n
    PROVE  RA!Newest(S, n) = {r \in S : Cardinality(Later(S, r)) < n}
  BY RowsCounted DEF RA!Newest, Later

\* The newest rows are the limit's number of them, or all.
LEMMA NewestFills ==
    ASSUME NEW S, Timed(S), NEW n \in Nat
    PROVE  /\ RA!Newest(S, n) \in SUBSET S
           /\ \A r \in RA!Newest(S, n), q \in S : q.ts > r.ts => q \in RA!Newest(S, n)
           /\ Cardinality(RA!Newest(S, n)) \in Nat
           /\ Cardinality(RA!Newest(S, n)) <= n
           /\ Cardinality(RA!Newest(S, n)) = n \/ RA!Newest(S, n) = S
<1> DEFINE N == RA!Newest(S, n)
<1>1. /\ \A r \in S : r.ts \in Nat /\ r.ts <= MaxTs
      /\ \A q, r \in S : q.ts = r.ts => q = r
      /\ IsFiniteSet(S) /\ MaxTs \in Nat
  BY ClockIs DEF Timed
<1>2. /\ N \in SUBSET S
      /\ \A r \in S : r \in N <=> Cardinality(Later(S, r)) < n
  BY NewestIs
<1> HIDE DEF N
<1>3. \A r \in S : /\ Later(S, r) \in SUBSET S /\ IsFiniteSet(Later(S, r))
                   /\ Cardinality(Later(S, r)) \in Nat
  BY <1>1, FS_Subset, FS_CardinalityType DEF Later
<1>4. ASSUME NEW r \in N, NEW q \in S, q.ts > r.ts PROVE q \in N
  <2>1. r \in S /\ r.ts \in Nat /\ q.ts \in Nat /\ \A p \in S : p.ts \in Nat
    BY <1>1, <1>2
  <2>2. Later(S, q) \in SUBSET Later(S, r)
    BY <1>4, <2>1 DEF Later
  <2>3. Cardinality(Later(S, q)) <= Cardinality(Later(S, r))
    BY <1>3, <2>1, <2>2, FS_Subset
  <2>4. Cardinality(Later(S, r)) < n
    BY <1>2, <2>1
  <2> QED
    BY <1>2, <1>3, <2>1, <2>3, <2>4
<1>5. IsFiniteSet(N) /\ Cardinality(N) \in Nat
  BY <1>1, <1>2, FS_Subset, FS_CardinalityType
<1>6. Cardinality(N) <= n
  <2>1. CASE N = {}
    BY <2>1, FS_EmptySet
  <2>2. CASE N # {}
    <3> DEFINE T == {r.ts : r \in N}
    <3>1. T \in SUBSET Nat /\ T # {}
      BY <1>1, <1>2, <2>2
    <3>2. PICK t \in T : \A u \in T : t <= u
      BY <3>1, LeastNatural
    <3>3. PICK m \in N : m.ts = t
      BY <3>2
    <3>4. N \in SUBSET (Later(S, m) \cup {m})
      <4>1. ASSUME NEW r \in N PROVE r \in Later(S, m) \cup {m}
        <5>1. m.ts <= r.ts /\ r \in S /\ m \in S
          BY <1>2, <3>2, <3>3
        <5>2. m.ts = r.ts \/ r.ts > m.ts
          BY <1>1, <5>1
        <5> QED
          BY <1>1, <5>1, <5>2 DEF Later
      <4> QED
        BY <4>1
    <3>5. m \in S /\ Cardinality(Later(S, m)) < n
      BY <1>2
    <3>6. /\ IsFiniteSet(Later(S, m) \cup {m})
          /\ Cardinality(Later(S, m) \cup {m}) \in Nat
          /\ Cardinality(Later(S, m) \cup {m}) <= Cardinality(Later(S, m)) + 1
      <4>1. IsFiniteSet(Later(S, m))
        BY <1>3, <3>5
      <4> QED
        BY <4>1, OneMore
    <3>7. Cardinality(N) <= Cardinality(Later(S, m) \cup {m})
      BY <3>4, <3>6, FS_Subset
    <3> QED
      BY <1>3, <1>5, <3>5, <3>6, <3>7
  <2> QED
    BY <2>1, <2>2
<1>7. ASSUME N # S PROVE Cardinality(N) = n
  <2> DEFINE T == {r.ts : r \in S \ N}
  <2>1. T \in SUBSET Nat /\ T # {} /\ \A t \in T : t <= MaxTs
    BY <1>1, <1>2, <1>7
  <2>2. PICK t \in T : \A u \in T : u <= t
    BY <1>1, <2>1, GreatestOf
  <2>3. PICK m \in S \ N : m.ts = t
    BY <2>2
  <2>4. Later(S, m) \in SUBSET N
    <3>1. ASSUME NEW r \in S, r.ts > m.ts PROVE r \in N
      <4>1. CASE r \notin N
        <5>1. r.ts <= m.ts
          BY <2>2, <2>3, <4>1
        <5> QED
          BY <1>1, <3>1, <5>1
      <4> QED
        BY <4>1
    <3> QED
      BY <3>1 DEF Later
  <2>5. ~(Cardinality(Later(S, m)) < n)
    BY <1>2
  <2>6. Cardinality(Later(S, m)) <= Cardinality(N)
    BY <1>5, <2>4, FS_Subset
  <2>7. Cardinality(Later(S, m)) \in Nat
    BY <1>3
  <2> QED
    BY <1>5, <1>6, <2>5, <2>6, <2>7
<1> QED
  BY <1>2, <1>4, <1>5, <1>6, <1>7 DEF N

\* The rows that a page may show, and those it does.
Shown(j, after) == {r \in RA!RowsOf(j) : r.good /\ (after = None \/ r.ts < after)}

PageRows(j, limit, after) ==
    IF engine = "redb" THEN RA!RedbPage(j, limit, after) ELSE RA!SqlitePage(j, limit, after)

\* No row that the limit counts and the page does not show.
Readable(j) == engine = "redb" \/ \A r \in RA!RowsOf(j) : r.good

LEMMA PageRowsAre ==
    ASSUME NEW j, Timed(RA!RowsOf(j)), NEW limit \in Nat, NEW after \in Nat \cup {None}
    PROVE  /\ PageRows(j, limit, after) \in SUBSET Shown(j, after)
           /\ limit # 0 => Cardinality(PageRows(j, limit, after)) <= limit
           /\ limit # 0 /\ Readable(j)
              => PageRows(j, limit, after) = RA!Newest(Shown(j, after), limit)
<1> DEFINE B == {r \in RA!RowsOf(j) : after = None \/ r.ts < after}
           S == {r \in RA!RowsOf(j) : RA!Before(r, after)}
<1>1. S = B
  <2>1. \A r \in RA!RowsOf(j) : r.ts \in Nat \ {0}
    BY ClockIs DEF Timed
  <2>2. ASSUME NEW r \in RA!RowsOf(j) PROVE RA!Before(r, after) <=> after = None \/ r.ts < after
    BY <2>1 DEF RA!Before
  <2> QED
    BY <2>2
<1>2. Timed(B) /\ RA!Parsed(B) = Shown(j, after) /\ Timed(Shown(j, after))
  <2>1. RA!Parsed(B) = Shown(j, after)
    BY DEF RA!Parsed, Shown
  <2> QED
    BY <2>1, TimedSubset DEF RA!Parsed
<1>3. PageRows(j, limit, after) =
          IF engine = "redb"
          THEN IF limit = 0 THEN RA!Parsed(RA!Newest(B, 1))
                            ELSE RA!Newest(RA!Parsed(B), limit)
          ELSE RA!Parsed(RA!Newest(B, limit))
  BY <1>1 DEF PageRows, RA!RedbPage, RA!SqlitePage
<1>4. \A n \in Nat : RA!Newest(B, n) \in SUBSET B /\ Cardinality(RA!Newest(B, n)) \in Nat
                     /\ Cardinality(RA!Newest(B, n)) <= n
  BY <1>2, NewestFills
<1>5. /\ RA!Newest(Shown(j, after), limit) \in SUBSET Shown(j, after)
      /\ Cardinality(RA!Newest(Shown(j, after), limit)) <= limit
  BY <1>2, NewestFills
<1>6. \A n \in Nat : RA!Parsed(RA!Newest(B, n)) \in SUBSET Shown(j, after)
  BY <1>2, <1>4 DEF RA!Parsed
<1>7. PageRows(j, limit, after) \in SUBSET Shown(j, after)
  BY <1>2, <1>3, <1>5, <1>6
<1>8. ASSUME limit # 0 PROVE Cardinality(PageRows(j, limit, after)) <= limit
  <2>1. CASE engine = "redb"
    BY <1>2, <1>3, <1>5, <1>8, <2>1
  <2>2. CASE engine # "redb"
    <3> DEFINE N == RA!Newest(B, limit)
    <3>1. RA!Parsed(N) \in SUBSET N /\ IsFiniteSet(N)
      BY <1>2, <1>4, FS_Subset DEF RA!Parsed, Timed
    <3>2. Cardinality(N) \in Nat /\ Cardinality(N) <= limit
      BY <1>4
    <3> HIDE DEF N
    <3>3. Cardinality(RA!Parsed(N)) <= Cardinality(N) /\ Cardinality(RA!Parsed(N)) \in Nat
      BY <3>1, FS_Subset, FS_CardinalityType
    <3>4. Cardinality(RA!Parsed(N)) <= limit
      BY <3>2, <3>3
    <3>5. PageRows(j, limit, after) = RA!Parsed(N)
      BY <1>3, <2>2 DEF N
    <3> QED
      BY <3>4, <3>5
  <2> QED
    BY <2>1, <2>2
<1>9. ASSUME limit # 0, Readable(j)
      PROVE  PageRows(j, limit, after) = RA!Newest(Shown(j, after), limit)
  <2>1. CASE engine = "redb"
    BY <1>2, <1>3, <1>9, <2>1
  <2>2. CASE engine # "redb"
    <3>1. \A r \in B : r.good
      BY <1>9, <2>2 DEF Readable
    <3>2. RA!Parsed(B) = B /\ RA!Parsed(RA!Newest(B, limit)) = RA!Newest(B, limit)
      BY <1>4, <3>1 DEF RA!Parsed
    <3> QED
      BY <1>2, <1>3, <2>2, <3>2
  <2> QED
    BY <2>1, <2>2
<1> QED
  BY <1>7, <1>8, <1>9

Descends(s) == \A i, k \in 1..Len(s) : i < k => s[i] > s[k]

\* A page lists the times of its rows.
LEMMA PageIs ==
    ASSUME NEW j, Timed(RA!RowsOf(j)), NEW limit \in Nat, NEW after \in Nat \cup {None}
    PROVE  /\ RA!Page(j, limit, after) \in Seq(RA!Clock)
           /\ Descends(RA!Page(j, limit, after))
           /\ Len(RA!Page(j, limit, after)) = Cardinality(PageRows(j, limit, after))
           /\ \A i \in 1..Len(RA!Page(j, limit, after)) :
                  \E r \in PageRows(j, limit, after) : RA!Page(j, limit, after)[i] = r.ts
           /\ \A r \in PageRows(j, limit, after) :
                  \E i \in 1..Len(RA!Page(j, limit, after)) :
                      RA!Page(j, limit, after)[i] = r.ts
<1> DEFINE P == PageRows(j, limit, after)
           T == RA!Times(P)
           n == Cardinality(T)
           s == RA!Page(j, limit, after)
<1>1. P \in SUBSET RA!RowsOf(j)
  BY PageRowsAre DEF Shown
<1>2. Timed(P)
  BY <1>1, TimedSubset
<1>3. /\ T \in SUBSET RA!Clock /\ T \in SUBSET Nat /\ IsFiniteSet(T)
      /\ n = Cardinality(P) /\ n \in Nat
  BY <1>2, TimesCounted, FS_CardinalityType
<1>4. s = RA!NewestFirst(T)
  BY DEF RA!Page, PageRows
<1>5. T = {r.ts : r \in P}
  BY DEF RA!Times
<1> HIDE DEF T, s, P
<1>6. /\ s \in [1..n -> T]
      /\ \A i, k \in 1..n : i < k => s[i] > s[k]
      /\ \A t \in T : \E k \in 1..n : s[k] = t
  BY <1>3, <1>4, ListedNewestFirst
<1> HIDE DEF n
<1>7. s \in Seq(RA!Clock) /\ Len(s) = n
  <2>1. s \in [1..n -> RA!Clock] /\ n \in Nat
    BY <1>3, <1>6
  <2> QED
    BY <2>1, ListIsSeq
<1>8. Descends(s)
  BY <1>6, <1>7 DEF Descends
<1>9. /\ \A i \in 1..Len(s) : \E r \in P : s[i] = r.ts
      /\ \A r \in P : \E i \in 1..Len(s) : s[i] = r.ts
  <2>1. ASSUME NEW i \in 1..Len(s) PROVE \E r \in P : s[i] = r.ts
    <3>1. s[i] \in T
      BY <1>6, <1>7
    <3> QED
      BY <1>5, <3>1
  <2>2. ASSUME NEW r \in P PROVE \E i \in 1..Len(s) : s[i] = r.ts
    <3>1. r.ts \in T
      BY <1>5
    <3>2. PICK i \in 1..n : s[i] = r.ts
      BY <1>6, <3>1
    <3> QED
      BY <1>7, <3>2
  <2> QED
    BY <2>1, <2>2
<1> QED
  BY <1>3, <1>7, <1>8, <1>9 DEF s, P

\* Later records are earlier ones, or before what the client made of one.
Falls(g) == \A i, k \in 1..Len(g) : i < k => g[k] < g[i] \/ g[k] < RA!Rounded(g[i])

\* What a client has, and then a page of times that are all before its cursor.
LEMMA FallsOn ==
    ASSUME NEW g \in Seq(RA!Clock), NEW s \in Seq(RA!Clock), Falls(g), Descends(s),
           \A i \in 1..Len(g), k \in 1..Len(s) : s[k] < RA!Rounded(g[i])
    PROVE  Falls(g \o s)
<1>1. /\ Len(g) \in Nat /\ Len(s) \in Nat /\ Len(g \o s) = Len(g) + Len(s)
      /\ \A i \in 1..Len(g \o s) : (g \o s)[i] = IF i <= Len(g) THEN g[i] ELSE s[i - Len(g)]
  OBVIOUS
<1>2. ASSUME NEW i \in 1..Len(g \o s), NEW k \in 1..Len(g \o s), i < k
      PROVE  \/ (g \o s)[k] < (g \o s)[i]
             \/ (g \o s)[k] < RA!Rounded((g \o s)[i])
  <2>1. CASE k <= Len(g)
    <3>1. i \in 1..Len(g) /\ k \in 1..Len(g) /\ i <= Len(g)
      BY <1>1, <1>2, <2>1
    <3> QED
      BY <1>1, <1>2, <2>1, <3>1 DEF Falls
  <2>2. CASE i > Len(g)
    <3>1. i - Len(g) \in 1..Len(s) /\ k - Len(g) \in 1..Len(s) /\ i - Len(g) < k - Len(g)
          /\ ~(i <= Len(g)) /\ ~(k <= Len(g))
      BY <1>1, <1>2, <2>2
    <3>2. s[i - Len(g)] > s[k - Len(g)]
      BY <3>1 DEF Descends
    <3>3. s[i - Len(g)] \in Nat /\ s[k - Len(g)] \in Nat
      BY <3>1, SeqElements, ClockIs
    <3> QED
      BY <1>1, <3>1, <3>2, <3>3
  <2>3. CASE i <= Len(g) /\ k > Len(g)
    <3>1. i \in 1..Len(g) /\ k - Len(g) \in 1..Len(s) /\ ~(k <= Len(g))
      BY <1>1, <1>2, <2>3
    <3> QED
      BY <1>1, <2>3, <3>1
  <2> QED
    BY <1>1, <2>1, <2>2, <2>3
<1> QED
  BY <1>2 DEF Falls

(***************************************************************************)
(* The inductive invariant.  A cursor is what the client made of a number, *)
(* and what it would make of anything it was served is not before it; what *)
(* the walk began with was served, is still before the cursor, or is what  *)
(* the client rounded it past.                                             *)
(***************************************************************************)
OneTime == \A q, r \in rows : q.job = r.job /\ q.ts = r.ts => q = r

Passed(g, t) == \E i \in 1..Len(g) : RA!Rounded(g[i]) <= t /\ t < g[i]

Reached ==
    walk.limit # 0 /\ Readable(walk.job)
    => \A t \in since :
           \/ \E i \in 1..Len(got) : got[i] = t
           \/ Passed(got, t)
           \/ walk.after # None /\ t < walk.after

Kept(g, after) ==
    /\ RA!Rounded(after) = after
    /\ \A i \in 1..Len(g) : RA!Rounded(g[i]) >= after

Walking ==
    /\ walk.job \in ReadJobs /\ walk.limit \in 0..MaxLimit /\ walk.limit \in Nat
    /\ walk.after \in Nat \cup {None}
    /\ since \subseteq RA!Times(Shown(walk.job, None))
    /\ walk.after # None => Kept(got, walk.after)
    /\ Reached

WalkInv ==
    /\ engine \in {"redb", "sqlite"}
    /\ rows \subseteq RA!Row /\ IsFiniteSet(rows) /\ OneTime
    /\ walk.on \in BOOLEAN
    /\ got \in Seq(RA!Clock) /\ Falls(got)
    /\ walk.on => Walking

LEMMA RowsTimed == ASSUME WalkInv, NEW j PROVE Timed(RA!RowsOf(j))
<1>1. RA!RowsOf(j) \in SUBSET rows /\ \A r \in RA!RowsOf(j) : r.job = j
  BY DEF RA!RowsOf
<1> QED
  BY <1>1, FS_Subset DEF WalkInv, OneTime, Timed, RA!Row

LEMMA InitWalk == RA!Init => WalkInv
  BY FS_EmptySet DEF RA!Init, WalkInv, OneTime, Falls

LEMMA InsertWalk ==
    ASSUME WalkInv, NEW j \in ReadJobs, NEW ts \in RA!Clock, NEW good \in BOOLEAN,
           RA!Insert(j, ts, good)
    PROVE  WalkInv'
<1> DEFINE record == [job |-> j, ts |-> ts, good |-> good]
<1>1. /\ rows' = rows \cup {record} /\ UNCHANGED <<engine, walk, got, since>>
      /\ \A r \in rows : r.job = j => r.ts # ts
  BY DEF RA!Insert, RA!RowsOf
<1>2. rows' \subseteq RA!Row /\ IsFiniteSet(rows')
  <2>1. record \in RA!Row
    BY DEF RA!Row
  <2> HIDE DEF record
  <2>2. rows \subseteq RA!Row /\ IsFiniteSet(rows)
    BY DEF WalkInv
  <2>3. IsFiniteSet(rows \cup {record})
    BY <2>2, FS_AddElement
  <2>4. RA!Row' = RA!Row
    BY DEF RA!Row, RA!Clock
  <2> QED
    BY <1>1, <2>1, <2>2, <2>3, <2>4
<1>3. OneTime'
  BY <1>1 DEF WalkInv, OneTime
<1>4. ASSUME walk.on PROVE Walking'
  <2>1. Walking
    BY <1>4 DEF WalkInv
  <2>2. RA!RowsOf(walk.job) \in SUBSET RA!RowsOf(walk.job)'
    BY <1>1 DEF RA!RowsOf
  <2>3. Readable(walk.job)' => Readable(walk.job)
    BY <1>1, <2>2 DEF Readable
  <2>4. RA!Times(Shown(walk.job, None)) \in SUBSET RA!Times(Shown(walk.job, None))'
    BY <1>1, <2>2 DEF RA!Times, Shown
  <2>5. Reached'
    BY <1>1, <2>1, <2>3 DEF Walking, Reached, Passed
  <2> QED
    BY <1>1, <2>1, <2>4, <2>5 DEF Walking, Kept
<1> QED
  BY <1>1, <1>2, <1>3, <1>4 DEF WalkInv

-----------------------------------------------------------------------------
(* What a client makes of the numbers it reads.                            *)

LEMMA GrainIs == Grain \in Nat /\ Grain # 0
  BY RecordsAssumption DEF RA!ParamAssumption

LEMMA MultipleIsNat == ASSUME NEW a \in Nat PROVE a * Grain \in Nat /\ (a + 1) * Grain = a * Grain + Grain
  BY GrainIs

LEMMA MultiplesGrow ==
    ASSUME NEW a \in Nat, NEW b \in Nat, a < b
    PROVE  (a + 1) * Grain <= b * Grain
<1>1. PICK d \in Nat : b = (a + 1) + d
  <2>1. b - (a + 1) \in Nat /\ b = (a + 1) + (b - (a + 1))
    OBVIOUS
  <2> QED
    BY <2>1
<1>2. b * Grain = (a + 1) * Grain + d * Grain
  BY <1>1, GrainIs
<1>3. d * Grain \in Nat /\ (a + 1) * Grain \in Nat
  BY GrainIs
<1> QED
  BY <1>2, <1>3

LEMMA Divided ==
    ASSUME NEW n \in Nat
    PROVE  /\ n \div Grain \in Nat /\ n % Grain \in Nat /\ n % Grain < Grain
           /\ n = ((n \div Grain) * Grain) + (n % Grain)
  BY GrainIs

LEMMA DividedIs ==
    ASSUME NEW q \in Nat, NEW n \in Nat, q * Grain <= n, n < (q + 1) * Grain
    PROVE  n \div Grain = q /\ n % Grain = n - (q * Grain)
<1> DEFINE p == n \div Grain
           m == n % Grain
<1>1. p \in Nat /\ m \in Nat /\ m < Grain /\ n = p * Grain + m /\ Grain \in Nat
  BY Divided, GrainIs
<1> HIDE DEF p, m
<1>2. /\ p * Grain \in Nat /\ (p + 1) * Grain = p * Grain + Grain
      /\ q * Grain \in Nat /\ (q + 1) * Grain = q * Grain + Grain
  BY <1>1, MultipleIsNat
<1>3. CASE p < q
  <2>1. (p + 1) * Grain <= q * Grain
    BY <1>1, <1>3, MultiplesGrow
  <2> QED
    BY <1>1, <1>2, <2>1
<1>4. CASE q < p
  <2>1. (q + 1) * Grain <= p * Grain
    BY <1>1, <1>4, MultiplesGrow
  <2> QED
    BY <1>1, <1>2, <2>1
<1>5. CASE p = q
  BY <1>1, <1>2, <1>5 DEF p, m
<1> QED
  BY <1>1, <1>3, <1>4, <1>5

\* Up from the middle, and from it if q is odd.
RoundsUp(n) == 2 * (n % Grain) > Grain
               \/ (2 * (n % Grain) = Grain /\ (n \div Grain) % 2 # 0)

LEMMA RoundedIs ==
    ASSUME NEW n \in Nat
    PROVE  RA!Rounded(n) = IF RoundsUp(n) THEN (n \div Grain + 1) * Grain
                                       ELSE (n \div Grain) * Grain
<1>1. n % Grain \in Nat /\ Grain \in Nat
  BY Divided, GrainIs
<1>2. 2 * (n % Grain) \in Nat
  BY <1>1
<1>3. ~RoundsUp(n) <=> 2 * (n % Grain) < Grain
                       \/ (2 * (n % Grain) = Grain /\ (n \div Grain) % 2 = 0)
  <2> DEFINE twice == 2 * (n % Grain)
  <2> HIDE DEF twice
  <2>1. twice \in Nat
    BY <1>2 DEF twice
  <2>2. ~(twice > Grain \/ (twice = Grain /\ (n \div Grain) % 2 # 0))
        <=> twice < Grain \/ (twice = Grain /\ (n \div Grain) % 2 = 0)
    BY <1>1, <2>1
  <2> QED
    BY <2>2 DEF twice, RoundsUp
<1> QED
  BY <1>3 DEF RA!Rounded

LEMMA RoundedFixed == ASSUME NEW k \in Nat PROVE RA!Rounded(k * Grain) = k * Grain
<1> DEFINE n == k * Grain
<1>1. n \in Nat /\ n < (k + 1) * Grain /\ Grain \in Nat /\ Grain # 0
  BY MultipleIsNat, GrainIs
<1>2. n \div Grain = k /\ n % Grain = 0
  <2>1. n <= n /\ n - n = 0
    BY <1>1
  <2> QED
    BY <1>1, <2>1, DividedIs
<1>3. ~RoundsUp(n)
  BY <1>1, <1>2 DEF RoundsUp
<1> HIDE DEF n
<1>4. RA!Rounded(n) = (n \div Grain) * Grain
  BY <1>1, <1>3, RoundedIs
<1> QED
  BY <1>2, <1>4 DEF n

LEMMA RoundedIsMultiple ==
    ASSUME NEW n \in Nat
    PROVE  \E k \in Nat : RA!Rounded(n) = k * Grain
<1>1. n \div Grain \in Nat /\ n \div Grain + 1 \in Nat
  BY Divided
<1> QED
  BY <1>1, RoundedIs

LEMMA RoundedGrows ==
    ASSUME NEW m \in Nat, NEW n \in Nat, m <= n
    PROVE  RA!Rounded(m) <= RA!Rounded(n)
<1> DEFINE p == m \div Grain
           q == n \div Grain
<1>1. /\ p \in Nat /\ m % Grain \in Nat /\ m % Grain < Grain /\ m = (p * Grain) + (m % Grain)
      /\ q \in Nat /\ n % Grain \in Nat /\ n % Grain < Grain /\ n = (q * Grain) + (n % Grain)
      /\ Grain \in Nat
  BY Divided, GrainIs
<1>2. /\ p * Grain \in Nat /\ (p + 1) * Grain = p * Grain + Grain
      /\ q * Grain \in Nat /\ (q + 1) * Grain = q * Grain + Grain
  BY <1>1, MultipleIsNat
<1>3. /\ RA!Rounded(m) = IF RoundsUp(m) THEN (p + 1) * Grain ELSE p * Grain
      /\ RA!Rounded(n) = IF RoundsUp(n) THEN (q + 1) * Grain ELSE q * Grain
  BY RoundedIs
<1>4. CASE p < q
  <2>1. (p + 1) * Grain <= q * Grain
    BY <1>1, <1>4, MultiplesGrow
  <2> HIDE DEF p, q
  <2> QED
    BY <1>1, <1>2, <1>3, <2>1
<1>5. CASE q < p
  <2>1. (q + 1) * Grain <= p * Grain
    BY <1>1, <1>5, MultiplesGrow
  <2> HIDE DEF p, q
  <2> QED
    BY <1>1, <1>2, <2>1
<1>6. CASE p = q
  <2>1. RoundsUp(m) => RoundsUp(n)
    <3>1. m % Grain <= n % Grain
      <4> HIDE DEF p, q
      <4> QED
        BY <1>1, <1>2, <1>6
    <3>2. RoundsUp(m) = (2 * (m % Grain) > Grain \/ (2 * (m % Grain) = Grain /\ p % 2 # 0))
      BY DEF RoundsUp
    <3>3. RoundsUp(n) = (2 * (n % Grain) > Grain \/ (2 * (n % Grain) = Grain /\ q % 2 # 0))
      BY DEF RoundsUp
    <3> DEFINE i == m % Grain
               k == n % Grain
    <3>4. i \in Nat /\ k \in Nat /\ i <= k
      BY <1>1, <3>1
    <3> HIDE DEF i, k, p, q
    <3>5. (2 * i > Grain \/ (2 * i = Grain /\ p % 2 # 0))
          => (2 * k > Grain \/ (2 * k = Grain /\ q % 2 # 0))
      <4>1. 2 * i <= 2 * k /\ 2 * i \in Nat /\ 2 * k \in Nat
        BY <3>4
      <4> QED
        BY <1>1, <1>6, <4>1
    <3> QED
      BY <3>2, <3>3, <3>5 DEF i, k
  <2> HIDE DEF p, q
  <2> QED
    BY <1>1, <1>2, <1>3, <1>6, <2>1
<1> QED
  BY <1>1, <1>4, <1>5, <1>6

\* What a client does to a number leaves one, the same for what it did before.
LEMMA RoundedKeeps ==
    ASSUME NEW n \in Nat
    PROVE  RA!Rounded(n) \in Nat /\ RA!Rounded(RA!Rounded(n)) = RA!Rounded(n)
<1>1. PICK k \in Nat : RA!Rounded(n) = k * Grain
  BY RoundedIsMultiple
<1>2. k * Grain \in Nat /\ RA!Rounded(k * Grain) = k * Grain
  BY MultipleIsNat, RoundedFixed
<1> QED
  BY <1>1, <1>2
\* One page of a walk, its first or the next.
LEMMA ServedWalk ==
    ASSUME WalkInv, NEW j \in ReadJobs, NEW limit \in 0..MaxLimit,
           NEW after \in Nat \cup {None}, RA!Served(j, limit, after),
           UNCHANGED <<engine, rows>>,
           since' \subseteq RA!Times(Shown(j, None)),
           after # None => Kept(got, after),
           limit # 0 /\ Readable(j) /\ after # None
               => \A t \in since' : \/ \E i \in 1..Len(got) : got[i] = t
                                    \/ Passed(got, t)
                                    \/ t < after
    PROVE  WalkInv'
<1> DEFINE s == RA!Page(j, limit, after)
           P == PageRows(j, limit, after)
           g == IF after = None THEN <<>> ELSE got
<1>1. /\ walk' = [on |-> TRUE, job |-> j, limit |-> limit,
                  after |-> RA!Answer(s, limit).after]
      /\ got' = g \o s
  BY DEF RA!Served
<1>2. limit \in Nat /\ None \notin Nat
  BY RecordsAssumption DEF RA!ParamAssumption
<1>3. Timed(RA!RowsOf(j))
  BY RowsTimed
<1>4. /\ P \in SUBSET Shown(j, after)
      /\ limit # 0 => Cardinality(P) <= limit
      /\ limit # 0 /\ Readable(j) => P = RA!Newest(Shown(j, after), limit)
  BY <1>2, <1>3, PageRowsAre
<1>5. /\ s \in Seq(RA!Clock) /\ Descends(s) /\ Len(s) = Cardinality(P) /\ Len(s) \in Nat
      /\ \A i \in 1..Len(s) : \E r \in P : s[i] = r.ts
      /\ \A r \in P : \E i \in 1..Len(s) : s[i] = r.ts
  <2>1. /\ s \in Seq(RA!Clock) /\ Descends(s) /\ Len(s) = Cardinality(P)
        /\ \A i \in 1..Len(s) : \E r \in P : s[i] = r.ts
        /\ \A r \in P : \E i \in 1..Len(s) : s[i] = r.ts
    BY <1>2, <1>3, PageIs
  <2> HIDE DEF s, P
  <2> QED
    BY <2>1, SeqElements
<1>6. /\ g \in Seq(RA!Clock) /\ Falls(g)
      /\ \A i \in 1..Len(g) : /\ after # None /\ RA!Rounded(after) = after
                              /\ RA!Rounded(g[i]) >= after
  <2>1. CASE after = None
    <3>1. <<>> \in Seq(RA!Clock) /\ Len(<<>>) = 0
      OBVIOUS
    <3> QED
      BY <2>1, <3>1 DEF Falls
  <2>2. CASE after # None
    BY <2>2 DEF WalkInv, Kept
  <2> QED
    BY <2>1, <2>2
<1>s. /\ \A i \in 1..Len(s) : s[i] \in RA!Clock /\ s[i] \in Nat
      /\ s # <<>> => Len(s) \in 1..Len(s)
      /\ \A i \in 1..Len(g) : g[i] \in Nat /\ RA!Rounded(g[i]) \in Nat
  BY <1>5, <1>6, SeqElements, ClockIs, RoundedKeeps
<1>7. RA!Answer(s, limit).after =
          IF Len(s) = limit /\ s # <<>> THEN RA!Rounded(s[Len(s)]) ELSE None
  <2>1. RA!Rounded(RA!Last(s)) = RA!Rounded(s[Len(s)])
    BY DEF RA!Last
  <2> HIDE DEF s
  <2> QED
    BY <2>1 DEF RA!Answer
<1> HIDE DEF s, P, g
<1>8. \A i \in 1..Len(s) : s[i] \in Nat /\ (after # None => s[i] < after)
  <2>1. ASSUME NEW i \in 1..Len(s) PROVE s[i] \in Nat /\ (after # None => s[i] < after)
    <3>1. PICK r \in P : s[i] = r.ts
      BY <1>5
    <3>2. after # None => r.ts < after
      BY <1>4 DEF Shown
    <3>3. s[i] \in Nat
      BY <1>s
    <3> QED
      BY <3>1, <3>2, <3>3
  <2> QED
    BY <2>1
<1>9. got' \in Seq(RA!Clock) /\ Falls(got')
  <2>1. ASSUME NEW i \in 1..Len(g), NEW k \in 1..Len(s) PROVE s[k] < RA!Rounded(g[i])
    <3>1. RA!Rounded(g[i]) \in Nat /\ after # None /\ after \in Nat /\ RA!Rounded(g[i]) >= after
      BY <1>6, <1>s
    <3>2. s[k] \in Nat /\ s[k] < after
      BY <1>8, <3>1
    <3> QED
      BY <3>1, <3>2
  <2>2. Falls(g \o s)
    BY <1>5, <1>6, <2>1, FallsOn
  <2> QED
    BY <1>1, <1>5, <1>6, <2>2, Joined
<1>10. /\ Len(g) \in Nat /\ Len(s) \in Nat /\ Len(got') = Len(g) + Len(s)
       /\ \A i \in 1..Len(g) : i \in 1..Len(got') /\ got'[i] = g[i]
       /\ \A k \in 1..Len(s) : Len(g) + k \in 1..Len(got') /\ got'[Len(g) + k] = s[k]
  <2>1. got' = g \o s
    BY <1>1
  <2>2. g \in Seq(RA!Clock) /\ s \in Seq(RA!Clock)
    BY <1>5, <1>6
  <2>3. IsJoined(g \o s, g, s)
    BY <2>2, Joined
  <2>4. IsJoined(got', g, s)
    BY <2>1, <2>3
  <2> QED
    BY <2>4 DEF IsJoined
<1>11. walk'.after # None => Kept(got', walk'.after)
  <2> SUFFICES ASSUME walk'.after # None PROVE Kept(got', walk'.after)
    OBVIOUS
  <2> DEFINE last == s[Len(s)]
  <2>1. walk'.after = RA!Rounded(last) /\ last \in Nat /\ Len(s) \in 1..Len(s)
    BY <1>1, <1>7, <1>s
  <2> HIDE DEF last
  <2>2. RA!Rounded(last) \in Nat /\ RA!Rounded(RA!Rounded(last)) = RA!Rounded(last)
    BY <2>1, RoundedKeeps
  <2>3. ASSUME NEW i \in 1..Len(g) PROVE RA!Rounded(g[i]) >= RA!Rounded(last)
    <3>1. after \in Nat /\ RA!Rounded(after) = after /\ RA!Rounded(g[i]) >= after
      BY <1>6
    <3>2. last < after
      BY <1>8, <2>1, <3>1, <1>2 DEF last
    <3>3. RA!Rounded(last) <= RA!Rounded(after)
      BY <2>1, <3>1, <3>2, RoundedGrows
    <3>4. RA!Rounded(g[i]) \in Nat
      BY <1>s
    <3> QED
      BY <2>2, <3>1, <3>3, <3>4
  <2>4. ASSUME NEW k \in 1..Len(s) PROVE RA!Rounded(s[k]) >= RA!Rounded(last)
    <3>1. s[k] \in Nat /\ last <= s[k]
      <4>1. CASE k = Len(s)
        BY <2>1, <4>1, <1>s DEF last
      <4>2. CASE k < Len(s)
        BY <1>5, <1>s, <2>1, <4>2 DEF Descends, last
      <4> QED
        BY <1>5, <4>1, <4>2
    <3>2. RA!Rounded(last) <= RA!Rounded(s[k]) /\ RA!Rounded(s[k]) \in Nat
      BY <2>1, <3>1, RoundedGrows, RoundedKeeps
    <3> QED
      BY <2>2, <3>2
  <2>5. ASSUME NEW i \in 1..Len(got') PROVE RA!Rounded(got'[i]) >= RA!Rounded(last)
    <3>1. CASE i <= Len(g)
      <4>1. i \in 1..Len(g)
        BY <1>10, <3>1
      <4> QED
        BY <1>10, <2>3, <4>1
    <3>2. CASE i > Len(g)
      <4>1. i - Len(g) \in 1..Len(s) /\ Len(g) + (i - Len(g)) = i
        BY <1>10, <3>2
      <4> QED
        BY <1>10, <2>4, <4>1
    <3> QED
      BY <1>10, <3>1, <3>2
  <2> QED
    BY <2>1, <2>2, <2>5 DEF Kept
<1>12. Reached'
  <2> SUFFICES ASSUME limit # 0, Readable(j), NEW t \in since',
                      ~\E i \in 1..Len(got') : got'[i] = t,
                      ~Passed(got', t)
               PROVE  walk'.after # None /\ t < walk'.after
    BY <1>1 DEF Reached, Readable, RA!RowsOf
  <2>1. PICK r \in Shown(j, None) : r.ts = t
    BY DEF RA!Times
  <2>0. \A i \in 1..Len(got') : ~(RA!Rounded(got'[i]) <= t /\ t < got'[i])
    BY DEF Passed
  <2>2. after # None => t < after
    <3>1. ASSUME after # None, NEW i \in 1..Len(got), got[i] = t PROVE FALSE
      BY <1>10, <3>1 DEF g
    <3>2. ASSUME after # None, Passed(got, t) PROVE FALSE
      BY <1>10, <2>0, <3>2 DEF g, Passed
    <3> QED
      BY <3>1, <3>2
  <2>3. r \in Shown(j, after)
    BY <2>1, <2>2 DEF Shown
  <2>4. r \notin P
    BY <1>5, <1>10, <2>1
  <2>5. /\ P = RA!Newest(Shown(j, after), limit) /\ P # Shown(j, after)
    BY <1>4, <2>3, <2>4
  <2>6. Timed(Shown(j, after))
    BY <1>3, TimedSubset DEF Shown
  <2>7. Cardinality(P) = limit
        /\ \A p \in P, q \in Shown(j, after) : q.ts > p.ts => q \in P
    BY <1>2, <2>5, <2>6, NewestFills
  <2>8. s # <<>> /\ walk'.after = RA!Rounded(s[Len(s)]) /\ Len(s) \in 1..Len(s)
    BY <1>1, <1>2, <1>5, <1>7, <2>7
  <2>9. PICK p \in P : s[Len(s)] = p.ts
    BY <1>5, <2>8
  <2>10. p \in Shown(j, after) /\ p.ts \in Nat /\ t \in Nat /\ r.ts = t
    <3>1. p \in Shown(j, after) /\ r.ts = t
      BY <1>4, <2>1
    <3>2. p.ts \in RA!Clock /\ t \in RA!Clock
      BY <2>3, <2>6, <3>1 DEF Timed
    <3> QED
      BY <3>1, <3>2, ClockIs
  <2>11. ~(t > p.ts) /\ t # p.ts
    BY <2>3, <2>4, <2>6, <2>7, <2>10 DEF Timed
  <2>12. Len(got') \in 1..Len(got') /\ got'[Len(got')] = p.ts
    BY <1>10, <2>8, <2>9
  <2>13. RA!Rounded(p.ts) \in Nat /\ ~(RA!Rounded(p.ts) <= t)
    BY <2>0, <2>10, <2>11, <2>12, RoundedKeeps
  <2> QED
    BY <1>2, <2>8, <2>9, <2>10, <2>13
<1>13. walk'.after \in Nat \cup {None}
  <2>1. s # <<>> => RA!Rounded(s[Len(s)]) \in Nat
    BY <1>s, RoundedKeeps
  <2> QED
    BY <1>1, <1>7, <2>1
<1>14. Walking'
  <2>1. RA!Times(Shown(j, None))' = RA!Times(Shown(j, None))
    BY DEF RA!Times, Shown, RA!RowsOf
  <2> QED
    BY <1>1, <1>2, <1>11, <1>12, <1>13, <2>1 DEF Walking
<1> QED
  BY <1>1, <1>9, <1>14 DEF WalkInv, OneTime

LEMMA WalkInductive ==
    ASSUME WalkInv, [RA!Next]_(RA!vars)
    PROVE  WalkInv'
<1>1. ASSUME NEW j \in ReadJobs, NEW ts \in RA!Clock, NEW good \in BOOLEAN,
             RA!Insert(j, ts, good)
      PROVE  WalkInv'
  BY <1>1, InsertWalk
<1>2. ASSUME NEW j \in ReadJobs, NEW p \in Limits, RA!FirstPage(j, p) PROVE WalkInv'
  <2> DEFINE limit == RA!QueryLimit(p)
  <2>1. limit \in 0..MaxLimit
    <3>1. (IF p = None THEN DefaultLimit ELSE p) \in Nat /\ MaxLimit \in Nat
      BY RecordsAssumption DEF RA!ParamAssumption
    <3> QED
      BY <3>1 DEF RA!QueryLimit, RA!Least
  <2>2. RA!Served(j, limit, None) /\ UNCHANGED <<engine, rows>>
        /\ since' = {r.ts : r \in {r \in RA!RowsOf(j) : r.good}}
    BY <1>2 DEF RA!FirstPage
  <2>3. since' \subseteq RA!Times(Shown(j, None))
    BY <2>2 DEF RA!Times, Shown
  <2> HIDE DEF limit
  <2> QED
    BY <2>1, <2>2, <2>3, ServedWalk
<1>3. ASSUME RA!NextPage PROVE WalkInv'
  <2>1. Walking /\ walk.after # None
    BY <1>3 DEF RA!NextPage, WalkInv
  <2>2. /\ walk.job \in ReadJobs /\ walk.limit \in 0..MaxLimit /\ walk.after \in Nat \cup {None}
        /\ RA!Served(walk.job, walk.limit, walk.after)
        /\ UNCHANGED <<engine, rows, since>>
        /\ since \subseteq RA!Times(Shown(walk.job, None))
        /\ Kept(got, walk.after)
    BY <1>3, <2>1 DEF RA!NextPage, Walking
  <2>3. walk.limit # 0 /\ Readable(walk.job)
        => \A t \in since : \/ \E i \in 1..Len(got) : got[i] = t
                            \/ Passed(got, t)
                            \/ t < walk.after
    BY <2>1 DEF Walking, Reached
  <2> QED
    BY <2>1, <2>2, <2>3, ServedWalk
<1>4. CASE UNCHANGED RA!vars
  BY <1>4 DEF RA!vars, WalkInv, OneTime, Walking, Reached, Readable, Falls,
              Kept, Passed, RA!Rounded, RA!Times, Shown, RA!RowsOf, RA!Row, RA!Clock
<1> QED
  BY <1>1, <1>2, <1>3, <1>4 DEF RA!Next

\* Without a cursor a page is the group of the job's newest records.
LEMMA GroupIsFirstPage ==
    ASSUME engine \in {"redb", "sqlite"}, NEW j, NEW limit \in Nat, limit # 0
    PROVE  RA!Group(j, limit) = RA!Page(j, limit, None)
<1>1. {r \in RA!RowsOf(j) : RA!Before(r, None)} = RA!RowsOf(j)
  BY DEF RA!Before
<1>2. {r \in RA!RowsOf(j) : None = None \/ r.ts < None} = RA!RowsOf(j)
  OBVIOUS
<1>3. RA!RedbPage(j, limit, None) = RA!Newest(RA!Parsed(RA!RowsOf(j)), limit)
  BY <1>1 DEF RA!RedbPage
<1>4. RA!SqlitePage(j, limit, None) = RA!Parsed(RA!Newest(RA!RowsOf(j), limit))
  BY <1>2 DEF RA!SqlitePage
<1> QED
  BY <1>3, <1>4 DEF RA!Group, RA!Page

LEMMA WalkHolds ==
    ASSUME WalkInv
    PROVE  RA!WalkDescends /\ RA!WalkIsComplete /\ RA!FirstPageAgrees
<1>1. DOMAIN got = 1..Len(got) /\ RA!Range(got) = {got[i] : i \in 1..Len(got)}
  <2>1. DOMAIN got = 1..Len(got)
    BY DEF WalkInv
  <2> QED
    BY <2>1 DEF RA!Range
<1>2. RA!WalkDescends
  BY <1>1 DEF WalkInv, Falls, RA!WalkDescends
<1>3. RA!WalkIsComplete
  <2> SUFFICES ASSUME walk.on, walk.after = None, walk.limit > 0,
                      engine = "redb" \/ \A r \in RA!RowsOf(walk.job) : r.good,
                      NEW t \in since
               PROVE  t \in RA!Range(got) \/ RA!Skipped(t)
    BY DEF RA!WalkIsComplete
  <2>1. Walking
    BY DEF WalkInv
  <2>2. walk.limit # 0 /\ Readable(walk.job)
    BY <2>1 DEF Walking, Readable
  <2>3. (\E i \in 1..Len(got) : got[i] = t) \/ Passed(got, t)
    BY <2>1, <2>2 DEF Walking, Reached
  <2> QED
    BY <1>1, <2>3 DEF Passed, RA!Skipped
<1>4. RA!FirstPageAgrees
  <2>1. ASSUME NEW j \in ReadJobs, NEW limit \in 1..MaxLimit
        PROVE  RA!Group(j, limit) = RA!Page(j, limit, None)
    <3>1. limit \in Nat /\ limit # 0
      BY RecordsAssumption DEF RA!ParamAssumption
    <3> QED
      BY <3>1, GroupIsFirstPage DEF WalkInv
  <2> QED
    BY <2>1 DEF RA!FirstPageAgrees
<1> QED
  BY <1>2, <1>3, <1>4

LEMMA StepOfRecords ==
    ASSUME [SumNext]_sumVars
    PROVE  part' = part /\ (part = "records" => [RA!Next]_(RA!vars))
  BY DEF SumNext, sumVars, IoStep, KvStep, BrStep, PgStep, LfStep, ApiStep, HsStep,
         RpStep, RaStep, RhStep, UpStep, JcStep, raVars, RA!vars

\* RecordsApi: a walk serves what was readable when it began, once and newest
\* first, whatever is inserted meanwhile, on both backends (redb.rs, sqlite.rs
\* and server/mod.rs), and begins with the records that the answer for all jobs
\* shows.  A client that rounds its cursors, to whichever grain, misses or sees
\* again only records between a time it was served and what it made of it; one
\* that keeps them exactly (a grain of 1) misses none.
THEOREM WalksAreComplete == SumSpec => []WalkIsComplete
<1>1. SumInit => (part = "records" => WalkInv)
  BY InitWalk DEF SumInit
<1>2. (part = "records" => WalkInv) /\ [SumNext]_sumVars
      => (part = "records" => WalkInv)'
  BY WalkInductive, StepOfRecords
<1>3. (part = "records" => WalkInv) => WalkIsComplete
  BY WalkHolds DEF WalkIsComplete
<1> QED
  BY <1>1, <1>2, <1>3, PTL DEF SumSpec

LEMMA NextNatural == \A c \in Nat : c + 1 \in Nat
  OBVIOUS

LEMMA EmptyList == Len(<<>>) = 0 /\ 1..0 = {} /\ \A S : <<>> \in Seq(S)
  OBVIOUS

LEMMA PlacesOf == ASSUME NEW S, NEW s \in Seq(S) PROVE DOMAIN s = 1..Len(s)
  OBVIOUS

LEMMA Begun ==
    ASSUME NEW S, NEW s \in Seq(S), NEW p \in 1..(Len(s) + 1)
    PROVE  /\ SubSeq(s, 1, p - 1) \in Seq(S) /\ Len(SubSeq(s, 1, p - 1)) = p - 1
           /\ \A k \in 1..(p - 1) : SubSeq(s, 1, p - 1)[k] = s[k]
  OBVIOUS

-----------------------------------------------------------------------------
(***************************************************************************)
(* RawParser.  The inductive invariant of n, the first m elements, with    *)
(* the open ones in o and tags before c read: what is closed ends where it *)
(* was read to, and an element between another and its parent had ended    *)
(* before the other began.                                                 *)
(***************************************************************************)
Numbered(n, m) ==
    \A i \in 1..m : /\ n[i].parent \in 0..(i - 1)
                    /\ {n[i].start, n[i].close, n[i].end} \subseteq Nat

Ends(n, m, o, c) ==
    \A i \in 1..m : /\ n[i].start < n[i].close /\ n[i].start < n[i].end
                    /\ n[i].start < c
                    /\ i \notin o => n[i].end <= c

Apart(n, o, i, j) ==
    \/ n[i].end <= n[j].start
    \/ j \notin o /\ n[j].end <= n[i].end /\ n[j].start < n[i].close

Nests(n, m, o) ==
    \A i, j \in 1..m : i < j => n[i].start < n[j].start /\ (i \notin o => Apart(n, o, i, j))

Innermost(n, m, o) ==
    \A i, j \in 1..m : n[j].parent < i /\ i < j => i \notin o /\ n[i].end <= n[j].start

Within(n, m, o) ==
    \A j \in 1..m : n[j].parent # 0 /\ n[j].parent \notin o
                    => j \notin o /\ n[j].end <= n[n[j].parent].end

Tree(n, m, o, c) ==
    /\ m \in Nat /\ c \in Nat /\ o \subseteq 1..m
    /\ Numbered(n, m) /\ Ends(n, m, o, c) /\ Nests(n, m, o) /\ Innermost(n, m, o)
    /\ Within(n, m, o)

\* Closing some, and with each all that began later.
Closing(n2, n, m, o, c, x, d) ==
    /\ x \in SUBSET o /\ (\A i \in x, j \in o : i < j => j \in x)
    /\ d \in {c, c + 1}
    /\ \A i \in 1..m : n2[i].parent = n[i].parent /\ n2[i].start = n[i].start
    /\ \A i \in x : n2[i].close = d /\ n2[i].end = c + 1
    /\ \A i \in (1..m) \ x : n2[i].close = n[i].close /\ n2[i].end = n[i].end

LEMMA TreeClosed ==
    ASSUME NEW n, NEW m, NEW o, NEW c, NEW x, NEW d, NEW n2,
           Tree(n, m, o, c), Closing(n2, n, m, o, c, x, d)
    PROVE  Tree(n2, m, o \ x, c + 1)
<1> SUFFICES
      ASSUME x \in SUBSET o, \A i \in x, j \in o : i < j => j \in x, d \in {c, c + 1},
             \A i \in 1..m : n2[i].parent = n[i].parent /\ n2[i].start = n[i].start,
             \A i \in x : n2[i].close = d /\ n2[i].end = c + 1,
             \A i \in (1..m) \ x : n2[i].close = n[i].close /\ n2[i].end = n[i].end
      PROVE  Tree(n2, m, o \ x, c + 1)
  BY DEF Closing
<1>1. /\ m \in Nat /\ c \in Nat /\ o \subseteq 1..m /\ d \in Nat /\ c <= d
      /\ Numbered(n, m) /\ Ends(n, m, o, c) /\ Nests(n, m, o) /\ Innermost(n, m, o)
      /\ Within(n, m, o)
  BY DEF Tree
<1>2. \A i \in 1..m : /\ n[i].parent \in Nat /\ n[i].parent < i
                      /\ n[i].start \in Nat /\ n[i].close \in Nat /\ n[i].end \in Nat
                      /\ i \in Nat
  BY <1>1 DEF Numbered
<1>3. \A i \in x : i \in 1..m
  BY <1>1
<1>4. Numbered(n2, m)
  <2>1. ASSUME NEW i \in 1..m
        PROVE  /\ n2[i].parent \in 0..(i - 1)
               /\ n2[i].start \in Nat /\ n2[i].close \in Nat /\ n2[i].end \in Nat
    <3>1. n2[i].parent \in 0..(i - 1) /\ n2[i].start \in Nat
      BY <1>1 DEF Numbered
    <3>2. n2[i].close \in Nat /\ n2[i].end \in Nat
      <4>1. CASE i \in x
        BY <1>1, <4>1
      <4>2. CASE i \notin x
        BY <1>2, <4>2
      <4> QED
        BY <4>1, <4>2
    <3> QED
      BY <3>1, <3>2
  <2> QED
    BY <2>1 DEF Numbered
<1>5. Ends(n2, m, o \ x, c + 1)
  <2>1. ASSUME NEW i \in 1..m
        PROVE  /\ n2[i].start < n2[i].close /\ n2[i].start < n2[i].end
               /\ n2[i].start < c + 1
               /\ i \notin o \ x => n2[i].end <= c + 1
    <3>1. n[i].start < n[i].close /\ n[i].start < n[i].end /\ n[i].start < c
          /\ (i \notin o => n[i].end <= c)
      BY <1>1 DEF Ends
    <3>2. CASE i \in x
      BY <1>1, <1>2, <3>1, <3>2
    <3>3. CASE i \notin x
      BY <1>1, <1>2, <3>1, <3>3
    <3> QED
      BY <3>2, <3>3
  <2> QED
    BY <2>1 DEF Ends
<1>6. Nests(n2, m, o \ x)
  <2>1. ASSUME NEW i \in 1..m, NEW j \in 1..m, i < j
        PROVE  n2[i].start < n2[j].start /\ (i \notin o \ x => Apart(n2, o \ x, i, j))
    <3>1. n[i].start < n[j].start /\ (i \notin o => Apart(n, o, i, j))
      BY <1>1, <2>1 DEF Nests
    <3>2. n[j].start < c /\ (j \notin o => n[j].end <= c)
      BY <1>1 DEF Ends
    <3>3. CASE i \in x
      <4>1. j \in o => j \in x
        BY <2>1, <3>3
      <4>2. CASE j \in x
        BY <1>1, <1>2, <3>1, <3>2, <3>3, <4>2 DEF Apart
      <4>3. CASE j \notin o
        BY <1>1, <1>2, <3>1, <3>2, <3>3, <4>3 DEF Apart
      <4> QED
        BY <4>1, <4>2, <4>3
    <3>4. CASE i \notin x
      BY <1>2, <3>1, <3>4 DEF Apart
    <3> QED
      BY <3>3, <3>4
  <2> QED
    BY <2>1 DEF Nests
<1>7. Innermost(n2, m, o \ x)
  <2>1. ASSUME NEW i \in 1..m, NEW j \in 1..m, n2[j].parent < i, i < j
        PROVE  i \notin o \ x /\ n2[i].end <= n2[j].start
    BY <1>1, <2>1 DEF Innermost
  <2> QED
    BY <2>1 DEF Innermost
<1>8. Within(n2, m, o \ x)
  <2>1. ASSUME NEW j \in 1..m, n2[j].parent # 0, n2[j].parent \notin o \ x
        PROVE  j \notin o \ x /\ n2[j].end <= n2[n2[j].parent].end
    <3> DEFINE p == n[j].parent
    <3>1. p \in 1..m /\ p < j /\ n2[j].parent = p
      BY <1>1, <1>2, <2>1
    <3>2. j \notin o => n[j].end <= c
      BY <1>1 DEF Ends
    <3>3. p # 0 /\ p \notin o => j \notin o /\ n[j].end <= n[p].end
      BY <1>1 DEF Within
    <3> HIDE DEF p
    <3>4. CASE p \in x
      <4>1. j \in o => j \in x
        BY <3>1, <3>4
      <4> QED
        BY <1>1, <1>2, <3>1, <3>2, <3>4, <4>1
    <3>5. CASE p \notin x
      BY <1>2, <2>1, <3>1, <3>3, <3>5
    <3> QED
      BY <3>4, <3>5
  <2> QED
    BY <2>1 DEF Within
<1> QED
  BY <1>1, <1>4, <1>5, <1>6, <1>7, <1>8 DEF Tree

LastOpen(p, o) == (p = 0 /\ o = {}) \/ (p \in o /\ \A i \in o : i <= p)

Added(n2, n, m, p, c) ==
    /\ \A i \in 1..m : n2[i] = n[i]
    /\ n2[m + 1].parent = p /\ n2[m + 1].start = c
    /\ n2[m + 1].close = c + 1 /\ n2[m + 1].end = c + 1

\* A new element within the innermost open one, itself open or void.
LEMMA TreeOpened ==
    ASSUME NEW n, NEW m, NEW o, NEW c, Tree(n, m, o, c),
           NEW p, LastOpen(p, o), NEW n2, Added(n2, n, m, p, c),
           NEW o2, o2 = o \/ o2 = o \cup {m + 1}
    PROVE  Tree(n2, m + 1, o2, c + 1)
<1> USE DEF LastOpen, Added
<1>0. /\ m \in Nat /\ c \in Nat /\ o \subseteq 1..m
      /\ Numbered(n, m) /\ Ends(n, m, o, c) /\ Nests(n, m, o) /\ Innermost(n, m, o)
      /\ Within(n, m, o)
  BY DEF Tree
<1>1. /\ m \in Nat /\ c \in Nat /\ o \subseteq 1..m /\ p \in 0..m
      /\ Numbered(n, m) /\ Ends(n, m, o, c) /\ Nests(n, m, o) /\ Innermost(n, m, o)
      /\ Within(n, m, o)
  <2>1. CASE p = 0
    BY <1>0, <2>1
  <2>2. CASE p \in o
    BY <1>0, <2>2
  <2> QED
    BY <2>1, <2>2
<1>2. \A i \in 1..m : /\ n[i].parent \in Nat /\ n[i].parent < i
                      /\ n[i].start \in Nat /\ n[i].close \in Nat /\ n[i].end \in Nat
                      /\ n2[i] = n[i] /\ i \in Nat /\ i # m + 1 /\ i < m + 1
                      /\ (i \in o2 <=> i \in o)
  BY <1>1 DEF Numbered
<1>3. /\ \A i \in 1..(m + 1) : i \in 1..m \/ i = m + 1
      /\ m + 1 \in 1..(m + 1) /\ o2 \subseteq 1..(m + 1)
      /\ m + 1 \in Nat /\ c + 1 \in Nat /\ p < m + 1 /\ p \in Nat
  <2>1. \A i \in 1..(m + 1) : i \in 1..m \/ i = m + 1
    BY <1>1
  <2>2. /\ m + 1 \in 1..(m + 1) /\ m + 1 \in Nat /\ c + 1 \in Nat /\ p < m + 1 /\ p \in Nat
        /\ \A i \in 1..m : i \in 1..(m + 1)
    BY <1>1
  <2>3. o2 \subseteq 1..(m + 1)
    BY <1>1, <2>2
  <2> QED
    BY <2>1, <2>2, <2>3
<1>4. Numbered(n2, m + 1)
  <2>1. ASSUME NEW i \in 1..m
        PROVE  n2[i].parent \in 0..(i - 1)
               /\ {n2[i].start, n2[i].close, n2[i].end} \subseteq Nat
    BY <1>1 DEF Numbered
  <2>2. n2[m + 1].parent \in 0..(m + 1 - 1)
        /\ {n2[m + 1].start, n2[m + 1].close, n2[m + 1].end} \subseteq Nat
    BY <1>1
  <2> QED
    BY <1>3, <2>1, <2>2 DEF Numbered
<1>5. Ends(n2, m + 1, o2, c + 1)
  <2>1. ASSUME NEW i \in 1..m
        PROVE  /\ n2[i].start < n2[i].close /\ n2[i].start < n2[i].end
               /\ n2[i].start < c + 1
               /\ i \notin o2 => n2[i].end <= c + 1
    BY <1>1, <1>2 DEF Ends
  <2>2. /\ n2[m + 1].start < n2[m + 1].close /\ n2[m + 1].start < n2[m + 1].end
        /\ n2[m + 1].start < c + 1 /\ n2[m + 1].end <= c + 1
    BY <1>1
  <2> QED
    BY <1>3, <2>1, <2>2 DEF Ends
<1>6. Nests(n2, m + 1, o2)
  <2>1. ASSUME NEW i \in 1..(m + 1), NEW j \in 1..(m + 1), i < j
        PROVE  n2[i].start < n2[j].start /\ (i \notin o2 => Apart(n2, o2, i, j))
    <3>1. i \in 1..m
      BY <1>1, <2>1
    <3>2. CASE j \in 1..m
      <4>1. n[i].start < n[j].start /\ (i \notin o => Apart(n, o, i, j))
        BY <1>1, <2>1, <3>1, <3>2 DEF Nests
      <4> QED
        BY <1>2, <3>1, <3>2, <4>1 DEF Apart
    <3>3. CASE j = m + 1
      <4>1. n[i].start < c /\ (i \notin o => n[i].end <= c)
        BY <1>1, <3>1 DEF Ends
      <4> QED
        BY <1>2, <3>1, <3>3, <4>1 DEF Apart
    <3> QED
      BY <1>3, <3>2, <3>3
  <2> QED
    BY <2>1 DEF Nests
<1>7. Innermost(n2, m + 1, o2)
  <2>1. ASSUME NEW i \in 1..(m + 1), NEW j \in 1..(m + 1), n2[j].parent < i, i < j
        PROVE  i \notin o2 /\ n2[i].end <= n2[j].start
    <3>1. i \in 1..m
      BY <1>1, <2>1
    <3>2. CASE j \in 1..m
      BY <1>1, <1>2, <2>1, <3>1, <3>2 DEF Innermost
    <3>3. CASE j = m + 1
      <4>1. i \notin o
        BY <1>1, <2>1, <3>1, <3>3
      <4>2. n[i].end <= c
        BY <1>1, <3>1, <4>1 DEF Ends
      <4> QED
        BY <1>2, <3>1, <3>3, <4>1, <4>2
    <3> QED
      BY <1>3, <3>2, <3>3
  <2> QED
    BY <2>1 DEF Innermost
<1>8. Within(n2, m + 1, o2)
  <2>1. ASSUME NEW j \in 1..m, n2[j].parent # 0, n2[j].parent \notin o2
        PROVE  j \notin o2 /\ n2[j].end <= n2[n2[j].parent].end
    <3>1. n[j].parent \in 1..m /\ n2[j].parent = n[j].parent
      BY <1>1, <1>2, <2>1
    <3>2. j \notin o /\ n[j].end <= n[n[j].parent].end
      BY <1>1, <1>2, <2>1, <3>1 DEF Within
    <3> QED
      BY <1>2, <3>1, <3>2
  <2>2. n2[m + 1].parent = 0 \/ n2[m + 1].parent \in o2
    OBVIOUS
  <2> QED
    BY <1>3, <2>1, <2>2 DEF Within
<1> QED
  BY <1>1, <1>3, <1>4, <1>5, <1>6, <1>7, <1>8 DEF Tree

Node == [tag : Tags, parent : Nat, start : Nat, close : Nat, end : Nat]

Opened == {stack[k] : k \in 1..Len(stack)}

Rising(s) == \A i, k \in 1..Len(s) : i < k => s[i] < s[k]

ParserInv ==
    /\ done \in BOOLEAN
    /\ nodes \in Seq(Node)
    /\ stack \in Seq(Nat) /\ Rising(stack)
    /\ done => stack = <<>>
    /\ Tree(nodes, Len(nodes), Opened, IF done THEN cursor + 1 ELSE cursor)

LEMMA InitParser == RP!Init => ParserInv
<1> SUFFICES ASSUME RP!Init PROVE ParserInv
  OBVIOUS
<1>1. /\ nodes = <<>> /\ stack = <<>> /\ cursor = 0 /\ done = FALSE
      /\ Len(nodes) = 0 /\ Len(stack) = 0 /\ 1..0 = {}
  BY EmptyList DEF RP!Init
<1>2. Opened = {}
  BY <1>1 DEF Opened
<1>3. Tree(nodes, 0, Opened, 0)
  BY <1>1, <1>2 DEF Tree, Numbered, Ends, Nests, Innermost, Within
<1>4. nodes \in Seq(Node) /\ stack \in Seq(Nat)
  BY <1>1, EmptyList
<1>5. Rising(stack)
  BY <1>1 DEF Rising
<1>6. Tree(nodes, Len(nodes), Opened, IF done THEN cursor + 1 ELSE cursor)
  BY <1>1, <1>3
<1> QED
  BY <1>1, <1>4, <1>5, <1>6 DEF ParserInv

LEMMA OpenKeeps ==
    ASSUME ParserInv, NEW tag \in Tags, NEW void \in BOOLEAN, RP!Open(tag, void)
    PROVE  ParserInv'
<1> DEFINE m == Len(nodes)
           p == IF stack = <<>> THEN 0 ELSE stack[Len(stack)]
           e == [tag |-> tag, parent |-> p, start |-> cursor, close |-> cursor + 1,
                 end |-> cursor + 1]
<1>1. /\ ~done /\ ~done' /\ cursor' = cursor + 1 /\ done' = FALSE
      /\ nodes' = Append(nodes, e)
      /\ stack' = IF void THEN stack ELSE Append(stack, m + 1)
  BY DEF RP!Open, RP!Last, ParserInv
<1>2. /\ nodes \in Seq(Node) /\ stack \in Seq(Nat) /\ Rising(stack)
      /\ Tree(nodes, m, Opened, cursor) /\ m \in Nat
  BY <1>1 DEF ParserInv
<1>3. cursor \in Nat /\ Opened \subseteq 1..m
  BY <1>2 DEF Tree
<1>4. /\ Len(stack) \in Nat /\ \A k \in 1..Len(stack) : stack[k] \in Nat /\ stack[k] <= m
      /\ stack # <<>> => Len(stack) \in 1..Len(stack)
  BY <1>2, <1>3, SeqElements DEF Opened
<1>5. LastOpen(p, Opened)
  <2>1. CASE stack = <<>>
    <3>1. Len(stack) = 0 /\ 1..0 = {}
      BY <2>1
    <3> QED
      BY <2>1, <3>1 DEF Opened, LastOpen
  <2>2. CASE stack # <<>>
    <3>1. ASSUME NEW k \in 1..Len(stack) PROVE stack[k] <= stack[Len(stack)]
      <4>1. k = Len(stack) \/ k < Len(stack)
        BY <1>4
      <4> QED
        BY <1>2, <1>4, <2>2, <4>1 DEF Rising
    <3> QED
      BY <1>4, <2>2, <3>1 DEF Opened, LastOpen
  <2> QED
    BY <2>1, <2>2
<1>6. p \in Nat
  BY <1>4
<1> HIDE DEF p
<1>7. e \in Node
  BY <1>3, <1>6 DEF Node
<1>8. /\ nodes' \in Seq(Node) /\ Len(nodes') = m + 1
      /\ \A i \in 1..m : nodes'[i] = nodes[i]
      /\ nodes'[m + 1] = e
  <2> HIDE DEF e
  <2> QED
    BY <1>1, <1>2, <1>7
<1>9. /\ stack' \in Seq(Nat) /\ Rising(stack') /\ Opened' \in {Opened, Opened \cup {m + 1}}
  <2>1. CASE void
    BY <1>1, <1>2, <2>1 DEF Opened
  <2>2. CASE ~void
    <3>1. stack' = Append(stack, m + 1)
      BY <1>1, <2>2
    <3>2. /\ stack' \in Seq(Nat) /\ Len(stack') = Len(stack) + 1
          /\ \A k \in 1..Len(stack) : stack'[k] = stack[k]
          /\ stack'[Len(stack) + 1] = m + 1
      BY <1>2, <3>1
    <3>3. \A k \in 1..Len(stack') : k \in 1..Len(stack) \/ k = Len(stack) + 1
      BY <1>4, <3>2
    <3>4. Rising(stack')
      <4>1. ASSUME NEW i \in 1..Len(stack'), NEW k \in 1..Len(stack'), i < k
            PROVE  stack'[i] < stack'[k]
        <5>1. i \in 1..Len(stack)
          BY <1>4, <3>2, <4>1
        <5>2. CASE k \in 1..Len(stack)
          BY <1>2, <3>2, <4>1, <5>1, <5>2 DEF Rising
        <5>3. CASE k = Len(stack) + 1
          <6>1. stack'[i] \in Nat /\ stack'[i] <= m /\ stack'[k] = m + 1
            BY <1>4, <3>2, <5>1, <5>3
          <6> QED
            BY <1>2, <6>1
        <5> QED
          BY <3>3, <5>2, <5>3
      <4> QED
        BY <4>1 DEF Rising
    <3>5. Opened' = Opened \cup {m + 1}
      <4>1. Opened' = {stack'[k] : k \in 1..Len(stack')}
        BY DEF Opened
      <4>2. \A k \in 1..Len(stack) : k \in 1..Len(stack')
        BY <1>4, <3>2
      <4>3. Len(stack) + 1 \in 1..Len(stack')
        BY <1>4, <3>2
      <4> QED
        BY <3>2, <3>3, <4>1, <4>2, <4>3 DEF Opened
    <3> QED
      BY <3>2, <3>4, <3>5
  <2> QED
    BY <2>1, <2>2
<1>10. Tree(nodes', m + 1, Opened', cursor + 1)
  <2>1. Added(nodes', nodes, m, p, cursor)
    BY <1>8 DEF Added
  <2>2. Tree(nodes, m, Opened, cursor) /\ LastOpen(p, Opened)
        /\ (Opened' = Opened \/ Opened' = Opened \cup {m + 1})
    BY <1>2, <1>5, <1>9
  <2> HIDE DEF e, m
  <2> QED
    BY <2>1, <2>2, TreeOpened
<1> QED
  BY <1>1, <1>8, <1>9, <1>10 DEF ParserInv

\* An end tag, and the end of the page with the place just behind it.
LEMMA ClosingKeeps ==
    ASSUME ParserInv, ~done, NEW x \in SUBSET Opened,
           \A i \in x, j \in Opened : i < j => j \in x, NEW d \in {cursor, cursor + 1},
           nodes' = [i \in RP!Ids |->
                        IF i \in x THEN [nodes[i] EXCEPT !.close = d, !.end = cursor + 1]
                                   ELSE nodes[i]]
    PROVE  /\ nodes' \in Seq(Node) /\ Len(nodes') = Len(nodes)
           /\ Tree(nodes', Len(nodes'), Opened \ x, cursor + 1)
<1> DEFINE m == Len(nodes)
<1>1. /\ nodes \in Seq(Node) /\ m \in Nat /\ RP!Ids = 1..m
      /\ Tree(nodes, m, Opened, cursor)
  <2>1. nodes \in Seq(Node) /\ Tree(nodes, m, Opened, cursor)
    BY DEF ParserInv
  <2>2. m \in Nat /\ RP!Ids = 1..m
    BY <2>1, SeqElements, PlacesOf DEF RP!Ids
  <2> QED
    BY <2>1, <2>2
<1>2. cursor \in Nat /\ Opened \subseteq 1..m
  BY <1>1 DEF Tree
<1>3. \A i \in 1..m : nodes[i] \in Node
  BY <1>1, SeqElements
<1>4. ASSUME NEW i \in 1..m
      PROVE  /\ nodes'[i] \in Node
             /\ nodes'[i].parent = nodes[i].parent /\ nodes'[i].start = nodes[i].start
             /\ i \in x => nodes'[i].close = d /\ nodes'[i].end = cursor + 1
             /\ i \notin x => nodes'[i].close = nodes[i].close /\ nodes'[i].end = nodes[i].end
  <2> DEFINE e == nodes[i]
  <2>1. e \in Node /\ d \in Nat /\ cursor + 1 \in Nat
    <3>1. e \in Node
      BY <1>3
    <3>2. cursor \in Nat /\ (d = cursor \/ d = cursor + 1)
      BY <1>2
    <3> HIDE DEF e
    <3>3. d \in Nat /\ cursor + 1 \in Nat
      BY <3>2, NextNatural, Zenon
    <3> QED
      BY <3>1, <3>3
  <2>2. CASE i \in x
    <3>1. nodes'[i] = [e EXCEPT !.close = d, !.end = cursor + 1]
      BY <1>1, <2>2
    <3> HIDE DEF e
    <3>2. /\ [e EXCEPT !.close = d, !.end = cursor + 1] \in Node
          /\ [e EXCEPT !.close = d, !.end = cursor + 1].parent = e.parent
          /\ [e EXCEPT !.close = d, !.end = cursor + 1].start = e.start
          /\ [e EXCEPT !.close = d, !.end = cursor + 1].close = d
          /\ [e EXCEPT !.close = d, !.end = cursor + 1].end = cursor + 1
      BY <2>1 DEF Node
    <3> QED
      BY <2>2, <3>1, <3>2 DEF e
  <2>3. CASE i \notin x
    BY <1>1, <2>1, <2>3
  <2> QED
    BY <2>2, <2>3
<1>5. nodes' \in [1..m -> Node]
  <2>1. DOMAIN nodes' = 1..m /\ nodes' = [i \in 1..m |-> nodes'[i]]
    BY <1>1
  <2> QED
    BY <1>4, <2>1
<1>6. nodes' \in Seq(Node) /\ Len(nodes') = m
  BY <1>1, <1>5, ListIsSeq
<1>7. Tree(nodes', m, Opened \ x, cursor + 1)
  <2>1. Tree(nodes, m, Opened, cursor)
    BY <1>1
  <2>2. \A i \in 1..m : nodes'[i].parent = nodes[i].parent /\ nodes'[i].start = nodes[i].start
    BY <1>4
  <2>3. \A i \in x : nodes'[i].close = d /\ nodes'[i].end = cursor + 1
    BY <1>2, <1>4
  <2>4. \A i \in (1..m) \ x :
           nodes'[i].close = nodes[i].close /\ nodes'[i].end = nodes[i].end
    BY <1>4
  <2>5. Closing(nodes', nodes, m, Opened, cursor, x, d)
    <3> HIDE DEF m
    <3> QED
      BY <2>2, <2>3, <2>4 DEF Closing
  <2> HIDE DEF m
  <2> QED
    BY <2>1, <2>5, TreeClosed
<1> QED
  BY <1>6, <1>7

LEMMA CloseKeeps ==
    ASSUME ParserInv, NEW tag \in Tags, RP!Close(tag)
    PROVE  ParserInv'
<1> DEFINE p == RP!Position(tag)
           n == Len(stack)
           x == {stack[k] : k \in p..n}
<1>1. /\ ~done /\ done' = FALSE /\ cursor' = cursor + 1 /\ stack' = SubSeq(stack, 1, p - 1)
      /\ nodes' = [i \in RP!Ids |->
                      IF i \in x THEN [nodes[i] EXCEPT !.close = cursor, !.end = cursor + 1]
                                 ELSE nodes[i]]
  BY DEF RP!Close, ParserInv
<1>2. /\ stack \in Seq(Nat) /\ Rising(stack) /\ n \in Nat
      /\ \A k \in 1..n : stack[k] \in Nat
  BY SeqElements DEF ParserInv
<1>3. p \in 1..(n + 1)
  <2> DEFINE named == {k \in DOMAIN stack : nodes[stack[k]].tag = tag}
  <2>1. p = IF named = {} THEN n + 1 ELSE CHOOSE k \in named : \A l \in named : l <= k
    BY DEF RP!Position
  <2>2. named \in SUBSET (1..n)
    BY <1>2
  <2> HIDE DEF p, named, n
  <2>3. ASSUME named # {} PROVE \E k \in named : \A l \in named : l <= k
    <3>1. named \in SUBSET Nat /\ \A l \in named : l <= n
      BY <1>2, <2>2
    <3> QED
      BY <1>2, <2>3, <3>1, GreatestOf
  <2>4. CASE named = {}
    BY <1>2, <2>1, <2>4
  <2>5. CASE named # {}
    <3>1. p \in named
      BY <2>1, <2>3, <2>5
    <3> QED
      BY <1>2, <2>2, <3>1
  <2> QED
    BY <2>4, <2>5
<1> HIDE DEF p
<1>4. /\ stack' \in Seq(Nat) /\ Len(stack') = p - 1
      /\ \A k \in 1..(p - 1) : stack'[k] = stack[k]
  BY <1>1, <1>2, <1>3, Begun
<1>5. Rising(stack')
  <2>1. \A k \in 1..(p - 1) : k \in 1..n
    BY <1>2, <1>3
  <2> QED
    BY <1>2, <1>4, <2>1 DEF Rising
<1>6. x \in SUBSET Opened
  BY <1>2, <1>3 DEF Opened
<1>7. \A i \in x, j \in Opened : i < j => j \in x
  <2>1. ASSUME NEW k \in p..n, NEW l \in 1..n, stack[k] < stack[l] PROVE l \in p..n
    <3>1. k \in 1..n /\ stack[k] \in Nat /\ stack[l] \in Nat
      BY <1>2, <1>3
    <3>2. ~(l < k)
      BY <1>2, <2>1, <3>1 DEF Rising
    <3> QED
      BY <1>2, <1>3, <3>2
  <2> QED
    BY <2>1 DEF Opened
<1>8. Opened' = Opened \ x
  <2>1. Opened' = {stack[k] : k \in 1..(p - 1)}
    <3>1. Opened' = {stack'[k] : k \in 1..(p - 1)}
      BY <1>4 DEF Opened
    <3> QED
      BY <1>4, <3>1
  <2>2. \A k \in 1..n : k \in 1..(p - 1) \/ k \in p..n
    BY <1>2, <1>3
  <2>3. ASSUME NEW k \in 1..(p - 1), NEW l \in p..n PROVE stack[k] # stack[l] /\ k \in 1..n
    <3>1. k \in 1..n /\ l \in 1..n /\ k < l
      BY <1>2, <1>3
    <3>2. stack[k] < stack[l] /\ stack[k] \in Nat
      BY <1>2, <3>1 DEF Rising
    <3> QED
      BY <3>1, <3>2
  <2>4. \A k \in 1..n : k \in 1..(p - 1) => stack[k] \notin x
    BY <2>3
  <2>5. \A k \in 1..(p - 1) : stack[k] \in Opened
    BY <2>3, <1>2, <1>3 DEF Opened
  <2>6. ASSUME NEW i \in Opened \ x PROVE i \in Opened'
    BY <2>1, <2>2 DEF Opened
  <2>7. ASSUME NEW i \in Opened' PROVE i \in Opened \ x
    <3>1. PICK k \in 1..(p - 1) : i = stack[k]
      BY <2>1
    <3>2. k \in 1..n
      BY <1>2, <1>3
    <3> QED
      BY <2>4, <2>5, <3>1, <3>2
  <2> QED
    BY <2>6, <2>7
<1> HIDE DEF x
<1>9. /\ nodes' \in Seq(Node) /\ Len(nodes') = Len(nodes)
      /\ Tree(nodes', Len(nodes'), Opened \ x, cursor + 1)
  BY <1>1, <1>6, <1>7, ClosingKeeps
<1> QED
  BY <1>1, <1>4, <1>5, <1>8, <1>9 DEF ParserInv

LEMMA FinishKeeps == ASSUME ParserInv, RP!Finish PROVE ParserInv'
<1>1. /\ ~done /\ done' = TRUE /\ cursor' = cursor /\ stack' = <<>>
      /\ nodes' = [i \in RP!Ids |->
                      IF i \in RP!ToSet(stack)
                      THEN [nodes[i] EXCEPT !.close = cursor + 1, !.end = cursor + 1]
                      ELSE nodes[i]]
  BY DEF RP!Finish
<1>2. RP!ToSet(stack) = Opened
  BY DEF RP!ToSet, Opened, ParserInv
<1>3. /\ nodes' \in Seq(Node) /\ Len(nodes') = Len(nodes)
      /\ Tree(nodes', Len(nodes'), Opened \ Opened, cursor + 1)
  <2>1. Opened \in SUBSET Opened /\ \A i \in Opened, j \in Opened : i < j => j \in Opened
    OBVIOUS
  <2> QED
    BY <1>1, <1>2, <2>1, ClosingKeeps
<1>4. Opened' = {} /\ Opened \ Opened = {} /\ Rising(stack') /\ stack' \in Seq(Nat)
  <2>1. Len(stack') = 0 /\ 1..0 = {}
    BY <1>1, EmptyList
  <2>2. stack' \in Seq(Nat)
    BY <1>1, EmptyList
  <2> QED
    BY <2>1, <2>2 DEF Opened, Rising
<1>5. done' \in BOOLEAN /\ (IF done' THEN cursor' + 1 ELSE cursor') = cursor + 1
  BY <1>1
<1>6. Tree(nodes', Len(nodes'), Opened', cursor + 1)
  BY <1>3, <1>4
<1> QED
  BY <1>1, <1>3, <1>4, <1>5, <1>6 DEF ParserInv

LEMMA ParserInductive == ASSUME ParserInv, [RP!Next]_(RP!vars) PROVE ParserInv'
<1>1. ASSUME NEW tag \in Tags, RP!Close(tag) PROVE ParserInv'
  BY <1>1, CloseKeeps
<1>2. ASSUME NEW tag \in Tags, NEW void \in BOOLEAN, RP!Open(tag, void) PROVE ParserInv'
  BY <1>2, OpenKeeps
<1>3. CASE RP!Finish
  BY <1>3, FinishKeeps
<1>4. CASE UNCHANGED RP!vars
  BY <1>4 DEF RP!vars, ParserInv, Opened
<1> QED
  BY <1>1, <1>2, <1>3, <1>4 DEF RP!Next

\* What follows for a page that was read.
Laws ==
    /\ \A i \in RP!Ids : i \in Nat \ {0} /\ nodes[i].parent \in {0} \cup RP!Ids
                         /\ nodes[i].parent < i
    /\ \A i, j \in RP!Ids : RP!Encloses(i, j) => i < j
    /\ \A i, j \in RP!Ids :
           RP!Encloses(i, j) <=> \/ nodes[j].parent = i
                                 \/ nodes[j].parent # 0 /\ RP!Encloses(i, nodes[j].parent)
    /\ \A i, j, k \in RP!Ids :
           i < j /\ j < k /\ RP!Encloses(i, k) => RP!Encloses(i, j)
    /\ \A i, j, k \in RP!Ids :
           i < j /\ RP!Encloses(i, k) /\ RP!Encloses(j, k) => RP!Encloses(i, j)
    /\ \A i, j \in RP!Ids : i < j =>
           \/ nodes[i].end <= nodes[j].start
           \/ nodes[j].end <= nodes[i].end /\ nodes[j].start < nodes[i].close

LEMMA PageIsTree == ASSUME ParserInv, done PROVE Laws /\ IsFiniteSet(RP!Ids)
<1> DEFINE m == Len(nodes)
           Start(i) == nodes[i].start
           End(i) == nodes[i].end
           Up(i) == nodes[i].parent
<1>1. /\ RP!Ids = 1..m /\ m \in Nat /\ Opened = {}
      /\ Tree(nodes, m, {}, cursor + 1)
  <2>1. nodes \in Seq(Node) /\ stack = <<>> /\ Tree(nodes, m, Opened, cursor + 1)
    BY DEF ParserInv
  <2>2. Len(stack) = 0 /\ 1..0 = {}
    BY <2>1, EmptyList
  <2>3. Opened = {}
    BY <2>2 DEF Opened
  <2> QED
    BY <2>1, <2>3, SeqElements, PlacesOf DEF RP!Ids
<1>2. /\ Numbered(nodes, m) /\ Ends(nodes, m, {}, cursor + 1) /\ Nests(nodes, m, {})
      /\ Innermost(nodes, m, {}) /\ Within(nodes, m, {})
  BY <1>1 DEF Tree
<1>3. \A i \in 1..m : /\ Up(i) \in 0..(i - 1) /\ Start(i) \in Nat /\ End(i) \in Nat
                      /\ Start(i) < End(i) /\ i \in Nat
  BY <1>1, <1>2 DEF Numbered, Ends
<1>4. \A i \in 1..m : i \in Nat \ {0} /\ Up(i) \in {0} \cup (1..m) /\ Up(i) < i /\ Up(i) \in Nat
  BY <1>1, <1>3
<1>5. \A i, j \in 1..m :
          i < j => /\ Start(i) < Start(j)
                   /\ \/ End(i) <= Start(j)
                      \/ End(j) <= End(i) /\ Start(j) < nodes[i].close
  BY <1>2 DEF Nests, Apart
<1>6. \A i, j \in 1..m : Up(j) < i /\ i < j => End(i) <= Start(j)
  BY <1>2 DEF Innermost
<1>7. \A j \in 1..m : Up(j) # 0 => End(j) <= End(Up(j))
  BY <1>2 DEF Within
<1>8. \A i, j \in 1..m : RP!Encloses(i, j) <=> Start(i) < Start(j) /\ End(j) <= End(i)
  BY DEF RP!Encloses
<1> HIDE DEF Start, End, Up
<1>9. ASSUME NEW i \in 1..m, NEW j \in 1..m, Start(i) < Start(j) PROVE i < j
  <2>1. CASE j < i
    BY <1>3, <1>5, <1>9, <2>1
  <2>2. CASE i = j
    BY <1>3, <1>9, <2>2
  <2> QED
    BY <1>3, <2>1, <2>2
<1>10. ASSUME NEW i \in 1..m, NEW j \in 1..m
       PROVE  RP!Encloses(i, j) <=> Up(j) = i \/ (Up(j) # 0 /\ RP!Encloses(i, Up(j)))
  <2>1. ASSUME Up(j) \in 1..m PROVE RP!Encloses(Up(j), j)
    <3>1. Up(j) # 0 /\ Up(j) < j
      BY <1>4, <2>1
    <3> QED
      BY <1>5, <1>7, <1>8, <2>1, <3>1
  <2>2. ASSUME Up(j) # 0, RP!Encloses(i, Up(j)) PROVE RP!Encloses(i, j)
    <3>1. Up(j) \in 1..m
      BY <1>4, <2>2
    <3> QED
      BY <1>3, <1>8, <2>1, <2>2, <3>1
  <2>3. ASSUME RP!Encloses(i, j), Up(j) # i PROVE Up(j) # 0 /\ RP!Encloses(i, Up(j))
    <3>1. Start(i) < Start(j) /\ End(j) <= End(i) /\ i < j
      BY <1>8, <1>9, <2>3
    <3>2. ~(Up(j) < i)
      BY <1>3, <1>6, <3>1
    <3>3. i < Up(j) /\ Up(j) \in 1..m
      BY <1>4, <2>3, <3>2
    <3>4. End(j) <= End(Up(j)) /\ Start(Up(j)) < Start(j)
      BY <1>4, <1>5, <1>7, <3>3
    <3>5. Start(i) < Start(Up(j)) /\ (End(i) <= Start(Up(j)) \/ End(Up(j)) <= End(i))
      BY <1>5, <3>3
    <3> QED
      BY <1>3, <1>8, <3>1, <3>3, <3>4, <3>5
  <2> QED
    BY <1>4, <2>1, <2>2, <2>3
<1>11. \A i, j \in 1..m : RP!Encloses(i, j) => i < j
  BY <1>8, <1>9
<1>12. ASSUME NEW i \in 1..m, NEW j \in 1..m, NEW k \in 1..m, i < j, j < k, RP!Encloses(i, k)
       PROVE  RP!Encloses(i, j)
  BY <1>3, <1>5, <1>8, <1>12
<1>13. ASSUME NEW i \in 1..m, NEW j \in 1..m, NEW k \in 1..m, i < j,
              RP!Encloses(i, k), RP!Encloses(j, k)
       PROVE  RP!Encloses(i, j)
  BY <1>3, <1>5, <1>8, <1>13
<1>14. IsFiniteSet(1..m)
  BY <1>1, FS_Interval
<1> QED
  BY <1>1, <1>4, <1>5, <1>10, <1>11, <1>12, <1>13, <1>14 DEF Laws, Start, End, Up

\* The walk down through children finds what the places of the tags enclose.
LEMMA BelowIs ==
    ASSUME Laws, NEW i \in RP!Ids
    PROVE  RP!Below(i) = {j \in RP!Ids : RP!Encloses(i, j)}
<1> DEFINE Up(j) == nodes[j].parent
           w == [j \in RP!Ids |-> RP!Encloses(i, j)]
           up == CHOOSE up : up = [j \in RP!Ids |-> Up(j) = i \/ (Up(j) # 0 /\ up[Up(j)])]
<1>1. \A j \in RP!Ids : j \in Nat /\ Up(j) \in {0} \cup RP!Ids /\ Up(j) < j
  BY DEF Laws
<1>2. \A j \in RP!Ids : RP!Encloses(i, j) <=> Up(j) = i \/ (Up(j) # 0 /\ RP!Encloses(i, Up(j)))
  BY DEF Laws
<1>3. RP!Below(i) = {j \in RP!Ids : up[j]}
  BY DEF RP!Below
<1> HIDE DEF Up
<1>4. w = [j \in RP!Ids |-> Up(j) = i \/ (Up(j) # 0 /\ w[Up(j)])]
  <2>1. \A j \in RP!Ids : RP!Encloses(i, j) \in BOOLEAN
    BY DEF RP!Encloses
  <2>2. ASSUME NEW j \in RP!Ids
        PROVE  RP!Encloses(i, j) = (Up(j) = i \/ (Up(j) # 0 /\ w[Up(j)]))
    <3>1. Up(j) # 0 => w[Up(j)] = RP!Encloses(i, Up(j))
      BY <1>1
    <3> HIDE DEF w
    <3>2. RP!Encloses(i, j) <=> (Up(j) = i \/ (Up(j) # 0 /\ w[Up(j)]))
      BY <1>2, <3>1
    <3> QED
      BY <2>1, <3>2
  <2> QED
    BY <2>2
<1>5. up = [j \in RP!Ids |-> Up(j) = i \/ (Up(j) # 0 /\ up[Up(j)])]
  BY <1>4
<1> HIDE DEF w, up
<1>6. \A j \in RP!Ids : up[j] <=> RP!Encloses(i, j)
  <2> DEFINE T == {j \in RP!Ids : ~(up[j] <=> RP!Encloses(i, j))}
  <2>1. CASE T = {}
    BY <2>1
  <2>2. CASE T # {}
    <3>1. T \in SUBSET Nat
      BY <1>1
    <3>2. PICK j \in T : \A k \in T : j <= k
      BY <2>2, <3>1, LeastNatural
    <3>3. j \in RP!Ids /\ (up[j] <=> Up(j) = i \/ (Up(j) # 0 /\ up[Up(j)]))
      BY <1>5
    <3>4. Up(j) # 0 => (up[Up(j)] <=> RP!Encloses(i, Up(j)))
      BY <1>1, <3>2, <3>3
    <3> QED
      BY <1>2, <3>2, <3>3, <3>4
  <2> QED
    BY <2>1, <2>2
<1> QED
  BY <1>3, <1>6

LEMMA StepIs ==
    ASSUME Laws, NEW i \in RP!Ids, NEW by \in {"descendant", "child"}
    PROVE  (IF by = "descendant" THEN RP!Below(i) ELSE RP!Children(i))
           = {j \in RP!Ids : RP!Holds(by, i, j)}
<1>1. CASE by = "descendant"
  BY <1>1, BelowIs DEF RP!Holds
<1>2. CASE by = "child"
  <2>1. ASSUME NEW j \in RP!Ids
        PROVE  nodes[j].parent = i
               <=> RP!Encloses(i, j)
                   /\ \A k \in RP!Ids : ~(RP!Encloses(i, k) /\ RP!Encloses(k, j))
    <3> DEFINE p == nodes[j].parent
    <3>1. /\ RP!Encloses(i, j) <=> p = i \/ (p # 0 /\ RP!Encloses(i, p))
          /\ \A k \in RP!Ids : RP!Encloses(k, j) <=> p = k \/ (p # 0 /\ RP!Encloses(k, p))
          /\ p \in {0} \cup RP!Ids
          /\ \A k, l \in RP!Ids : RP!Encloses(k, l) => k < l
          /\ \A k \in RP!Ids : k \in Nat
      BY DEF Laws
    <3> HIDE DEF p
    <3>2. ASSUME p = i, NEW k \in RP!Ids, RP!Encloses(i, k), RP!Encloses(k, j) PROVE FALSE
      <4>1. k = i \/ RP!Encloses(k, i)
        BY <3>1, <3>2
      <4>2. i < k
        BY <3>1, <3>2
      <4>3. k = i \/ k < i
        BY <3>1, <4>1
      <4> QED
        BY <3>1, <4>2, <4>3
    <3>3. ASSUME RP!Encloses(i, j), p # i
          PROVE  p \in RP!Ids /\ RP!Encloses(i, p) /\ RP!Encloses(p, j)
      BY <3>1, <3>3
    <3> QED
      BY <3>1, <3>2, <3>3 DEF p
  <2> QED
    BY <1>2, <2>1 DEF RP!Children, RP!Holds
<1> QED
  BY <1>1, <1>2

-----------------------------------------------------------------------------
(* Lists.                                                                  *)

LEMMA UpTo ==
    ASSUME NEW n \in Nat, NEW T,
           \A k \in 1..n : (k = 1 \/ (k - 1 \in 1..n /\ k - 1 \in T)) => k \in T
    PROVE  \A k \in 1..n : k \in T
<1> DEFINE C == {k \in 1..n : k \notin T}
<1>1. CASE C = {}
  BY <1>1
<1>2. CASE C # {}
  <2>1. C \in SUBSET Nat
    OBVIOUS
  <2>2. PICK k \in C : \A l \in C : k <= l
    BY <1>2, <2>1, LeastNatural
  <2>3. k \in 1..n /\ k \notin T
    OBVIOUS
  <2>4. k = 1 \/ (k - 1 \in 1..n /\ k - 1 \in T)
    <3>1. k # 1 => k - 1 \in 1..n /\ ~(k <= k - 1)
      BY <2>3
    <3>2. k - 1 \in 1..n /\ k - 1 \notin T => k - 1 \in C
      OBVIOUS
    <3> HIDE DEF C
    <3> QED
      BY <2>2, <3>1, <3>2
  <2> QED
    BY <2>3, <2>4
<1> QED
  BY <1>1, <1>2

IsAlong(f, n, D, b, F) ==
    /\ f \in [1..n -> D]
    /\ \A k \in 1..n : f[k] = IF k = 1 THEN b ELSE F[<<k, f[k - 1]>>]

\* A function that is defined along 1 .. n exists.
LEMMA DefinedAlong ==
    ASSUME NEW D, NEW n \in Nat, NEW b \in D, NEW F \in [(1..n) \X D -> D]
    PROVE  \E f : IsAlong(f, n, D, b, F)
<1> USE DEF IsAlong
<1> DEFINE Is(f, l) == IsAlong(f, l, D, b, F)
           T == {l \in 1..n : \E f : Is(f, l)}
<1>1. ASSUME NEW k \in 1..n, k = 1 \/ (k - 1 \in 1..n /\ k - 1 \in T)
      PROVE  k \in T
  <2>1. CASE k = 1
    <3> DEFINE f == [i \in 1..1 |-> b]
    <3>1. Is(f, 1)
      OBVIOUS
    <3> HIDE DEF f, Is
    <3> QED
      BY <2>1, <3>1
  <2>2. CASE k # 1
    <3>1. k - 1 \in 1..n /\ \E g : Is(g, k - 1)
      BY <1>1, <2>2
    <3>2. PICK g : Is(g, k - 1)
      BY <3>1
    <3> DEFINE v == F[<<k, g[k - 1]>>]
               f == [i \in 1..k |-> IF i = k THEN v ELSE g[i]]
    <3>3. k - 1 \in 1..(k - 1) /\ g[k - 1] \in D /\ v \in D
      BY <3>1, <3>2
    <3>4. \A i \in 1..k : i = k \/ (i \in 1..(k - 1) /\ i # k)
      OBVIOUS
    <3>5. f \in [1..k -> D]
      <4> HIDE DEF v
      <4> QED
        BY <3>2, <3>3, <3>4
    <3>6. ASSUME NEW i \in 1..k PROVE f[i] = IF i = 1 THEN b ELSE F[<<i, f[i - 1]>>]
      <4>1. CASE i = k
        <5>1. f[i] = v /\ f[i - 1] = g[k - 1] /\ i # 1
          BY <2>2, <3>3, <4>1
        <5> QED
          BY <4>1, <5>1
      <4>2. CASE i # k
        <5>1. i \in 1..(k - 1)
          BY <3>4, <4>2
        <5>2. f[i] = g[i] /\ (i # 1 => i - 1 \in 1..k /\ i - 1 # k /\ f[i - 1] = g[i - 1])
          BY <4>2, <5>1
        <5>3. g[i] = IF i = 1 THEN b ELSE F[<<i, g[i - 1]>>]
          BY <3>2, <5>1
        <5> HIDE DEF f
        <5> QED
          BY <5>2, <5>3
      <4> QED
        BY <4>1, <4>2
    <3>7. Is(f, k)
      BY <3>5, <3>6
    <3> HIDE DEF f, Is
    <3> QED
      BY <3>7
  <2> QED
    BY <2>1, <2>2
<1>2. \A k \in 1..n : k \in T
  <2> HIDE DEF T
  <2> QED
    BY <1>1, UpTo
<1>3. CASE n = 0
  <2> DEFINE f == [i \in 1..0 |-> b]
  <2>1. f \in [1..0 -> D] /\ \A k \in 1..0 : f[k] = IF k = 1 THEN b ELSE F[<<k, f[k - 1]>>]
    OBVIOUS
  <2> HIDE DEF f
  <2> QED
    BY <1>3, <2>1
<1>4. CASE n # 0
  <2>1. n \in T
    BY <1>2, <1>4
  <2> QED
    BY <2>1
<1> QED
  BY <1>3, <1>4

Vals(s) == {s[i] : i \in 1..Len(s)}

Once(s) == \A i, k \in 1..Len(s) : s[i] = s[k] => i = k

Leads(s) == s = <<>> \/ \A x \in Vals(s) : s[1] <= x

LEMMA ValsOf ==
    ASSUME NEW S, NEW s \in Seq(S)
    PROVE  /\ Vals(s) \in SUBSET S /\ (s = <<>> <=> Vals(s) = {})
           /\ s # <<>> => 1 \in 1..Len(s) /\ s[1] \in Vals(s)
           /\ RP!ToSet(s) = Vals(s)
<1>1. /\ Len(s) \in Nat /\ \A i \in 1..Len(s) : s[i] \in S
      /\ DOMAIN s = 1..Len(s)
  BY SeqElements, PlacesOf
<1>2. s # <<>> => 1 \in 1..Len(s)
  BY <1>1, SeqElements
<1>3. s = <<>> => Vals(s) = {}
  BY EmptyList DEF Vals
<1>4. RP!ToSet(s) = Vals(s)
  BY <1>1 DEF RP!ToSet, Vals
<1> QED
  BY <1>1, <1>2, <1>3, <1>4 DEF Vals

IsBoth(t, g, s) ==
    /\ Vals(t) = Vals(g) \cup Vals(s)
    /\ g = <<>> => t = s
    /\ g # <<>> => t[1] = g[1] /\ t # <<>>
    /\ Once(g) /\ Once(s) /\ Vals(g) \cap Vals(s) = {} => Once(t)

LEMMA JoinedVals ==
    ASSUME NEW S, NEW g \in Seq(S), NEW s \in Seq(S)
    PROVE  g \o s \in Seq(S) /\ IsBoth(g \o s, g, s)
<1> DEFINE t == g \o s
           m == Len(g)
           n == Len(s)
<1>1. t \in Seq(S) /\ IsJoined(t, g, s)
  BY Joined
<1>2. g = <<>> => t = s
  OBVIOUS
<1> HIDE DEF t
<1>3. /\ m \in Nat /\ n \in Nat /\ Len(t) = m + n
      /\ \A i \in 1..m : i \in 1..Len(t) /\ t[i] = g[i]
      /\ \A k \in 1..n : m + k \in 1..Len(t) /\ t[m + k] = s[k]
  BY <1>1 DEF IsJoined
<1> HIDE DEF m, n
<1>4. \A i \in 1..Len(t) : i \in 1..m \/ (i - m \in 1..n /\ i = m + (i - m))
  BY <1>3
<1>5. Vals(t) = Vals(g) \cup Vals(s)
  <2>1. \A i \in 1..Len(t) : (i \in 1..m /\ t[i] = g[i]) \/ (i - m \in 1..n /\ t[i] = s[i - m])
    BY <1>3, <1>4
  <2>2. Vals(t) \subseteq Vals(g) \cup Vals(s)
    BY <2>1 DEF Vals, m, n
  <2>3. Vals(g) \subseteq Vals(t)
    BY <1>3 DEF Vals, m
  <2>4. Vals(s) \subseteq Vals(t)
    <3>1. ASSUME NEW k \in 1..n PROVE s[k] \in Vals(t)
      <4>1. m + k \in 1..Len(t) /\ t[m + k] = s[k]
        BY <1>3
      <4> QED
        BY <4>1 DEF Vals
    <3> QED
      BY <3>1 DEF Vals, n
  <2> QED
    BY <2>2, <2>3, <2>4
<1>6. ASSUME g # <<>> PROVE t[1] = g[1] /\ t # <<>>
  <2>1. 1 \in 1..m
    BY <1>6, ValsOf DEF m
  <2>2. Vals(g) # {} /\ Vals(t) # {}
    BY <1>5, <1>6, ValsOf
  <2> QED
    BY <1>1, <1>3, <2>1, <2>2, ValsOf
<1>7. ASSUME Once(g), Once(s), Vals(g) \cap Vals(s) = {} PROVE Once(t)
  <2>1. ASSUME NEW i \in 1..Len(t), NEW k \in 1..Len(t), t[i] = t[k] PROVE i = k
    <3>1. CASE i \in 1..m /\ k \in 1..m
      BY <1>3, <1>7, <2>1, <3>1 DEF Once, m
    <3>2. CASE i \notin 1..m /\ k \notin 1..m
      <4>1. i - m \in 1..n /\ k - m \in 1..n /\ t[i] = s[i - m] /\ t[k] = s[k - m]
        BY <1>3, <1>4, <3>2
      <4>2. i - m = k - m
        BY <1>7, <2>1, <4>1 DEF Once, n
      <4> QED
        BY <1>3, <4>2
    <3>3. CASE i \in 1..m /\ k \notin 1..m
      <4>1. t[i] = g[i] /\ k - m \in 1..n /\ t[k] = s[k - m]
        BY <1>3, <1>4, <3>3
      <4> QED
        BY <1>7, <2>1, <3>3, <4>1 DEF Vals, m, n
    <3>4. CASE i \notin 1..m /\ k \in 1..m
      <4>1. t[k] = g[k] /\ i - m \in 1..n /\ t[i] = s[i - m]
        BY <1>3, <1>4, <3>4
      <4> QED
        BY <1>7, <2>1, <3>4, <4>1 DEF Vals, m, n
    <3> QED
      BY <3>1, <3>2, <3>3, <3>4
  <2> QED
    BY <2>1 DEF Once
<1> QED
  BY <1>1, <1>2, <1>5, <1>6, <1>7 DEF t, IsBoth

\* A list without a repetition is as long as the set of its elements.
LEMMA OnceCounts ==
    ASSUME NEW S, NEW s \in Seq(S), Once(s)
    PROVE  Len(s) = Cardinality(Vals(s)) /\ IsFiniteSet(Vals(s))
<1>1. Len(s) \in Nat /\ IsFiniteSet(1..Len(s)) /\ Cardinality(1..Len(s)) = Len(s)
  <2>1. Len(s) \in Nat
    BY SeqElements
  <2> QED
    BY <2>1, FS_Interval
<1> DEFINE f == [i \in 1..Len(s) |-> s[i]]
<1>2. f \in Surjection(1..Len(s), Vals(s))
  BY DEF Surjection, Vals
<1>3. f \in Injection(1..Len(s), Vals(s))
  BY <1>2 DEF Surjection, Injection, IsInjective, Once
<1> QED
  BY <1>1, <1>2, <1>3, FS_Surjection

Flattens(f, S, n, ss) ==
    /\ f \in [1..n -> Seq(S)]
    /\ f[1] = ss[1]
    /\ \A k \in 1..n : k # 1 => f[k] = f[k - 1] \o ss[k]
    /\ RP!FlattenSeq(ss) = f[n]

LEMMA FlattenIs ==
    ASSUME NEW S, NEW n \in Nat \ {0}, NEW ss \in [1..n -> Seq(S)]
    PROVE  \E f : Flattens(f, S, n, ss)
<1> DEFINE F == [p \in (1..n) \X Seq(S) |-> p[2] \o ss[p[1]]]
           ch == CHOOSE f : f = [i \in 1..Len(ss) |-> IF i = 1 THEN ss[i] ELSE f[i - 1] \o ss[i]]
<1>1. Len(ss) = n /\ n # 0 /\ n \in Nat /\ 1 \in 1..n
  BY ListIsSeq
<1>2. RP!FlattenSeq(ss) = ch[n]
  BY <1>1 DEF RP!FlattenSeq
<1>3. F \in [(1..n) \X Seq(S) -> Seq(S)]
  OBVIOUS
<1>4. PICK f : IsAlong(f, n, Seq(S), ss[1], F)
  <2>1. ss[1] \in Seq(S)
    BY <1>1
  <2> HIDE DEF F
  <2> QED
    BY <1>1, <1>3, <2>1, DefinedAlong
<1>f. f \in [1..n -> Seq(S)] /\ f = [k \in 1..n |-> f[k]]
  <2>1. f \in [1..n -> Seq(S)]
    BY <1>4 DEF IsAlong
  <2> QED
    BY <2>1
<1>5. \A k \in 1..n : f[k] = IF k = 1 THEN ss[k] ELSE f[k - 1] \o ss[k]
  <2>1. ASSUME NEW k \in 1..n, k # 1 PROVE F[<<k, f[k - 1]>>] = f[k - 1] \o ss[k]
    <3>1. k - 1 \in 1..n
      BY <1>1, <2>1
    <3>2. f[k - 1] \in Seq(S)
      BY <1>f, <3>1
    <3> QED
      BY <3>2
  <2> HIDE DEF F
  <2> QED
    BY <1>4, <2>1 DEF IsAlong
<1>6. f = [i \in 1..Len(ss) |-> IF i = 1 THEN ss[i] ELSE f[i - 1] \o ss[i]]
  BY <1>1, <1>5, <1>f
<1>7. ch = [i \in 1..Len(ss) |-> IF i = 1 THEN ss[i] ELSE ch[i - 1] \o ss[i]]
  BY <1>6
<1> HIDE DEF ch
<1> DEFINE T == {k \in 1..n : ch[k] = f[k]}
<1>8. \A k \in 1..n : k \in T
  <2>1. ASSUME NEW k \in 1..n, k = 1 \/ (k - 1 \in 1..n /\ k - 1 \in T) PROVE k \in T
    <3>1. ch[k] = IF k = 1 THEN ss[k] ELSE ch[k - 1] \o ss[k]
      BY <1>1, <1>7
    <3>2. k = 1 \/ ch[k - 1] = f[k - 1]
      BY <2>1
    <3> QED
      BY <1>5, <3>1, <3>2
  <2> HIDE DEF T
  <2> QED
    BY <1>1, <2>1, UpTo
<1>9. ch[n] = f[n]
  BY <1>1, <1>8
<1>10. Flattens(f, S, n, ss)
  BY <1>1, <1>2, <1>f, <1>5, <1>9 DEF Flattens
<1> QED
  BY <1>10

LEMMA NothingFlattens == ASSUME NEW S, NEW ss \in [1..0 -> S] PROVE RP!FlattenSeq(ss) = <<>>
<1>1. ss \in Seq(S) /\ Len(ss) = 0
  BY ListIsSeq
<1>2. ss = <<>>
  BY <1>1
<1> QED
  BY <1>1, <1>2 DEF RP!FlattenSeq

\* What flattening keeps: every element, none twice when no two lists share
\* one, and the least at the front when a later list has none that is less and
\* is not in the earlier one.
LEMMA FlattenKeeps ==
    ASSUME NEW S, NEW n \in Nat, NEW ss \in [1..n -> Seq(S)]
    PROVE  /\ RP!FlattenSeq(ss) \in Seq(S)
           /\ Vals(RP!FlattenSeq(ss)) = UNION {Vals(ss[k]) : k \in 1..n}
           /\ (/\ \A k \in 1..n : Once(ss[k])
               /\ \A i, k \in 1..n : i # k => Vals(ss[i]) \cap Vals(ss[k]) = {})
              => Once(RP!FlattenSeq(ss))
           /\ (/\ S \subseteq Nat
               /\ \A k \in 1..n : Leads(ss[k])
               /\ \A i, k \in 1..n : \A y \in Vals(ss[i]), x \in Vals(ss[k]) :
                      i < k /\ x < y => x \in Vals(ss[i]))
              => Leads(RP!FlattenSeq(ss))
<1> DEFINE fl == RP!FlattenSeq(ss)
           Disjoint == /\ \A k \in 1..n : Once(ss[k])
                       /\ \A i, k \in 1..n : i # k => Vals(ss[i]) \cap Vals(ss[k]) = {}
           Early == /\ S \subseteq Nat
                    /\ \A k \in 1..n : Leads(ss[k])
                    /\ \A i, k \in 1..n : \A y \in Vals(ss[i]), x \in Vals(ss[k]) :
                           i < k /\ x < y => x \in Vals(ss[i])
<1>1. CASE n = 0
  <2>1. fl = <<>>
    BY <1>1, NothingFlattens
  <2>2. Vals(<<>>) = {} /\ Once(<<>>) /\ Leads(<<>>) /\ <<>> \in Seq(S)
    BY EmptyList DEF Vals, Once, Leads
  <2>3. UNION {Vals(ss[k]) : k \in 1..n} = {}
    BY <1>1, EmptyList
  <2> QED
    BY <2>1, <2>2, <2>3
<1>2. CASE n # 0
  <2>1. n \in Nat \ {0}
    BY <1>2
  <2>f. PICK f : Flattens(f, S, n, ss)
    BY <2>1, FlattenIs
  <2>2. /\ f \in [1..n -> Seq(S)]
        /\ f[1] = ss[1]
        /\ \A k \in 1..n : k # 1 => f[k] = f[k - 1] \o ss[k]
        /\ fl = f[n]
    BY <2>f DEF Flattens
  <2> HIDE DEF fl
  <2> DEFINE T == {k \in 1..n : /\ Vals(f[k]) = UNION {Vals(ss[i]) : i \in 1..k}
                                /\ Disjoint => Once(f[k])
                                /\ Early => Leads(f[k])}
  <2>3. ASSUME NEW k \in 1..n, k = 1 \/ (k - 1 \in 1..n /\ k - 1 \in T) PROVE k \in T
    <3>0. ss[k] \in Seq(S) /\ f[k] \in Seq(S) /\ 1..k \in SUBSET (1..n)
      BY <2>1, <2>2
    <3>1. CASE k = 1
      <4>1. f[k] = ss[k] /\ 1..k = {k}
        BY <2>2, <3>1
      <4>2. Vals(f[k]) = UNION {Vals(ss[i]) : i \in 1..k}
        BY <4>1
      <4>3. Disjoint => Once(f[k])
        BY <4>1
      <4>4. Early => Leads(f[k])
        BY <4>1
      <4> QED
        BY <4>2, <4>3, <4>4
    <3>2. CASE k # 1
      <4> DEFINE g == f[k - 1]
                 s == ss[k]
      <4>1. /\ k - 1 \in 1..n /\ k - 1 \in T /\ f[k] = g \o s
            /\ g \in Seq(S) /\ s \in Seq(S)
        BY <2>2, <2>3, <3>0, <3>2
      <4>2. /\ Vals(g) = UNION {Vals(ss[i]) : i \in 1..(k - 1)}
            /\ Disjoint => Once(g)
            /\ Early => Leads(g)
        BY <4>1
      <4>3. 1..k = (1..(k - 1)) \cup {k} /\ \A i \in 1..(k - 1) : i \in 1..n /\ i < k /\ i # k
        BY <2>1, <3>2
      <4> HIDE DEF T, g, s, Disjoint, Early
      <4>4. /\ Vals(f[k]) = Vals(g) \cup Vals(s)
            /\ g = <<>> => f[k] = s
            /\ g # <<>> => f[k][1] = g[1] /\ f[k] # <<>>
            /\ Once(g) /\ Once(s) /\ Vals(g) \cap Vals(s) = {} => Once(f[k])
        <5>1. IsBoth(g \o s, g, s)
          BY <4>1, JoinedVals
        <5>2. IsBoth(f[k], g, s)
          BY <4>1, <5>1
        <5> QED
          BY <5>2 DEF IsBoth
      <4>5. Vals(f[k]) = UNION {Vals(ss[i]) : i \in 1..k}
        <5>1. UNION {Vals(ss[i]) : i \in 1..k}
              = (UNION {Vals(ss[i]) : i \in 1..(k - 1)}) \cup Vals(ss[k])
          BY <4>3
        <5> QED
          BY <4>2, <4>4, <5>1 DEF s
      <4>6. ASSUME Disjoint PROVE Once(f[k])
        <5>1. Once(s)
          BY <4>6 DEF s, Disjoint
        <5>2. Vals(g) \cap Vals(s) = {}
          <6>1. \A i \in 1..(k - 1) : Vals(ss[i]) \cap Vals(ss[k]) = {}
            BY <4>3, <4>6 DEF Disjoint
          <6> QED
            BY <4>2, <6>1 DEF s
        <5> QED
          BY <4>2, <4>4, <4>6, <5>1, <5>2
      <4>7. ASSUME Early PROVE Leads(f[k])
        <5>1. CASE g = <<>>
          BY <4>4, <4>7, <5>1 DEF Early, s
        <5>2. CASE g # <<>>
          <6> DEFINE y == g[1]
          <6>1. y \in Vals(g) /\ f[k][1] = y /\ S \subseteq Nat
                /\ Vals(g) \in SUBSET S /\ Vals(s) \in SUBSET S
            BY <4>1, <4>4, <4>7, <5>2, ValsOf DEF Early
          <6>2. \A x \in Vals(g) : y <= x
            BY <4>2, <4>7, <5>2 DEF Leads
          <6> HIDE DEF y
          <6>3. ASSUME NEW x \in Vals(s) PROVE y <= x
            <7>1. PICK i \in 1..(k - 1) : y \in Vals(ss[i])
              BY <4>2, <6>1
            <7>2. x < y => x \in Vals(ss[i])
              BY <4>3, <4>7, <7>1 DEF Early, s
            <7>3. x < y => x \in Vals(g)
              BY <4>2, <7>2
            <7>4. x \in Nat /\ y \in Nat
              BY <6>1
            <7> QED
              BY <6>2, <7>3, <7>4
          <6> QED
            BY <4>4, <6>1, <6>2, <6>3 DEF Leads
        <5> QED
          BY <5>1, <5>2
      <4> QED
        BY <4>5, <4>6, <4>7 DEF T
    <3> QED
      BY <3>1, <3>2
  <2>4. n \in T
    <3>1. n \in 1..n
      BY <2>1
    <3> HIDE DEF T
    <3> QED
      BY <2>1, <2>3, <3>1, UpTo
  <2>5. fl \in Seq(S)
    BY <2>1, <2>2
  <2> QED
    BY <2>2, <2>4, <2>5 DEF fl
<1> QED
  BY <1>1, <1>2

LEMMA PageCounted == \A S : RP!Cardinality(S) = Cardinality(S)
  BY DEF RP!Cardinality, Cardinality

LEMMA InOrderIs ==
    ASSUME NEW S, S \subseteq Nat, NEW T \in SUBSET S, IsFiniteSet(T)
    PROVE  /\ RP!InOrder(T) \in Seq(S) /\ Vals(RP!InOrder(T)) = T
           /\ Rising(RP!InOrder(T)) /\ Once(RP!InOrder(T)) /\ Leads(RP!InOrder(T))
<1> DEFINE n == Cardinality(T)
           Upto(t) == {u \in T : u <= t}
           r == [t \in T |-> Cardinality(Upto(t))]
           s == RP!InOrder(T)
           At(k) == CHOOSE t \in T : RP!Cardinality({u \in T : u <= t}) = k
<1>0. T \in SUBSET Nat
  OBVIOUS
<1>1. n \in Nat /\ \A t \in T : IsFiniteSet(Upto(t)) /\ r[t] \in 1..n
  <2>1. n \in Nat
    BY FS_CardinalityType
  <2>2. ASSUME NEW t \in T PROVE IsFiniteSet(Upto(t)) /\ r[t] \in 1..n
    <3>1. Upto(t) \in SUBSET T /\ t \in Upto(t)
      BY <1>0
    <3> HIDE DEF Upto
    <3>2. IsFiniteSet(Upto(t)) /\ Cardinality(Upto(t)) <= n /\ Cardinality(Upto(t)) \in Nat
      BY <3>1, FS_Subset, FS_CardinalityType
    <3>3. Cardinality(Upto(t)) # 0
      BY <3>1, <3>2, FS_EmptySet
    <3> QED
      BY <2>1, <3>2, <3>3
  <2> QED
    BY <2>1, <2>2
<1>2. ASSUME NEW t \in T, NEW u \in T, t < u PROVE r[t] < r[u]
  <2>1. Upto(t) \in SUBSET Upto(u) /\ u \in Upto(u) /\ u \notin Upto(t)
    <3>1. t \in Nat /\ u \in Nat /\ \A v \in T : v \in Nat
      BY <1>0
    <3>2. \A v \in T : v <= t => v <= u
      BY <1>2, <3>1
    <3>3. u <= u /\ ~(u <= t)
      BY <1>2, <3>1
    <3> QED
      BY <3>2, <3>3
  <2>2. IsFiniteSet(Upto(u))
    BY <1>1
  <2> HIDE DEF Upto
  <2>3. Cardinality(Upto(t)) < Cardinality(Upto(u))
    BY <2>1, <2>2, StrictSubset
  <2> QED
    BY <2>3
<1>3. \A t, u \in T : r[t] = r[u] => t = u
  <2>1. \A t, u \in T : t < u \/ u < t \/ t = u
    BY <1>0
  <2>2. \A t \in T : r[t] \in Nat
    BY <1>1
  <2> HIDE DEF r
  <2> QED
    BY <1>2, <2>1, <2>2
<1>4. \A k \in 1..n : \E t \in T : r[t] = k
  <2>1. r \in [T -> 1..n]
    BY <1>1
  <2> HIDE DEF r
  <2> QED
    BY <1>3, <2>1, Ranked
<1>5. /\ s = [k \in 1..n |-> At(k)]
      /\ \A k \in 1..n : At(k) \in T /\ r[At(k)] = k
  <2>1. s = [k \in 1..n |-> At(k)]
    <3>1. s = [k \in 1..RP!Cardinality(T) |-> At(k)]
      BY DEF RP!InOrder
    <3> HIDE DEF At, s
    <3> QED
      BY <3>1, PageCounted
  <2>2. ASSUME NEW k \in 1..n PROVE At(k) \in T /\ Cardinality(Upto(At(k))) = k
    <3>1. \E t \in T : RP!Cardinality({u \in T : u <= t}) = k
      BY <1>4, PageCounted
    <3>2. At(k) \in T /\ RP!Cardinality({u \in T : u <= At(k)}) = k
      BY <3>1
    <3> HIDE DEF At
    <3> QED
      BY <3>2, PageCounted
  <2> HIDE DEF At, Upto
  <2> QED
    BY <2>1, <2>2
<1> HIDE DEF At
<1>6. s \in [1..n -> T] /\ \A k \in 1..n : s[k] \in T /\ r[s[k]] = k
  BY <1>5
<1> HIDE DEF s
<1>7. s \in Seq(T) /\ Len(s) = n
  BY <1>1, <1>6, ListIsSeq
<1>8. Rising(s)
  <2>1. ASSUME NEW i \in 1..Len(s), NEW k \in 1..Len(s), i < k PROVE s[i] < s[k]
    <3> HIDE DEF r, n
    <3>1. s[i] \in T /\ s[k] \in T /\ r[s[i]] = i /\ r[s[k]] = k /\ i \in Nat /\ k \in Nat
      <4>1. i \in 1..n /\ k \in 1..n
        BY <1>7
      <4> QED
        BY <1>1, <1>6, <4>1
    <3>2. s[i] \in Nat /\ s[k] \in Nat
      BY <3>1, <1>0
    <3>3. ~(s[k] < s[i]) /\ s[i] # s[k]
      BY <1>2, <2>1, <3>1, <3>2
    <3> QED
      BY <3>2, <3>3
  <2> QED
    BY <2>1 DEF Rising
<1>9. Once(s)
  <2> HIDE DEF r
  <2> QED
    BY <1>6, <1>7 DEF Once
<1>10. Vals(s) = T
  <2>1. ASSUME NEW t \in T PROVE \E k \in 1..n : s[k] = t
    <3>1. r[t] \in 1..n
      BY <1>1
    <3> HIDE DEF r
    <3>2. s[r[t]] = t
      BY <1>3, <1>6, <3>1
    <3> QED
      BY <3>1, <3>2
  <2>2. \A k \in 1..n : s[k] \in T
    BY <1>7
  <2> HIDE DEF r, n
  <2> QED
    BY <1>7, <2>1, <2>2 DEF Vals
<1>11. s \in Seq(S)
  <2>1. s \in [1..n -> S]
    BY <1>6
  <2> QED
    BY <1>1, <2>1, ListIsSeq
<1>12. Leads(s)
  <2>1. ASSUME s # <<>>, NEW i \in 1..Len(s) PROVE s[1] <= s[i]
    <3> HIDE DEF r, n
    <3>1. 1 \in 1..Len(s) /\ s[1] \in Nat /\ s[i] \in Nat /\ (1 < i \/ 1 = i)
      <4>1. 1 \in 1..Len(s)
        BY <1>7, <2>1, ValsOf
      <4>2. 1 \in 1..n /\ i \in 1..n
        BY <1>7, <4>1
      <4>3. s[1] \in T /\ s[i] \in T
        BY <1>6, <4>2
      <4>4. s[1] \in Nat /\ s[i] \in Nat
        BY <1>0, <4>3
      <4>5. 1 < i \/ 1 = i
        BY <1>1, <4>2
      <4> QED
        BY <4>1, <4>4, <4>5
    <3>2. 1 < i => s[1] < s[i]
      BY <1>8, <3>1 DEF Rising
    <3> QED
      BY <3>1, <3>2
  <2> QED
    BY <2>1 DEF Leads, Vals
<1> QED
  BY <1>8, <1>9, <1>10, <1>11, <1>12 DEF s

-----------------------------------------------------------------------------
(* Selectors on a page that was read.                                      *)

Held(i, s) == {j \in RP!Named(RP!Ids, s.tag) : RP!Holds(s.by, i, j)}

LEMMA FoundIs ==
    ASSUME Laws, IsFiniteSet(RP!Ids), NEW i \in RP!Ids, NEW s \in RP!Step
    PROVE  /\ RP!FoundFrom(i, s) \in Seq(RP!Ids) /\ Vals(RP!FoundFrom(i, s)) = Held(i, s)
           /\ Once(RP!FoundFrom(i, s)) /\ Leads(RP!FoundFrom(i, s))
<1> DEFINE D == IF s.by = "descendant" THEN RP!Below(i) ELSE RP!Children(i)
<1>1. s.by \in {"descendant", "child"}
  BY DEF RP!Step, RP!Combinators
<1>2. D = {j \in RP!Ids : RP!Holds(s.by, i, j)}
  BY <1>1, StepIs
<1>3. RP!FoundFrom(i, s) = RP!InOrder(RP!Named(D, s.tag))
  BY DEF RP!FoundFrom
<1> HIDE DEF D
<1>4. RP!Named(D, s.tag) = Held(i, s)
  BY <1>2 DEF RP!Named, Held
<1>5. RP!FoundFrom(i, s) = RP!InOrder(Held(i, s))
  BY <1>3, <1>4
<1>6. Held(i, s) \in SUBSET RP!Ids /\ IsFiniteSet(Held(i, s)) /\ RP!Ids \subseteq Nat
  <2>1. Held(i, s) \in SUBSET RP!Ids
    BY DEF Held, RP!Named
  <2>2. RP!Ids \subseteq Nat
    BY DEF Laws
  <2> QED
    BY <2>1, <2>2, FS_Subset
<1> QED
  BY <1>5, <1>6, InOrderIs

LEMMA AfterIs ==
    ASSUME Laws, IsFiniteSet(RP!Ids), NEW m \in Seq(RP!Ids), NEW s \in RP!Step
    PROVE  /\ RP!After(m, s) \in Seq(RP!Ids)
           /\ Vals(RP!After(m, s)) = {j \in RP!Named(RP!Ids, s.tag) :
                                          \E i \in Vals(m) : RP!Holds(s.by, i, j)}
           /\ Once(m) /\ (\A i, k \in Vals(m) : ~RP!Encloses(i, k)) => Once(RP!After(m, s))
           /\ Rising(m) /\ s.by = "descendant" => Leads(RP!After(m, s))
<1> DEFINE n == Len(m)
           ss == [k \in 1..n |-> RP!FoundFrom(m[k], s)]
<1>1. /\ n \in Nat /\ \A k \in 1..n : m[k] \in RP!Ids
      /\ RP!After(m, s) = RP!FlattenSeq(ss)
  BY SeqElements, PlacesOf DEF RP!After
<1>2. \A k \in 1..n : /\ RP!FoundFrom(m[k], s) \in Seq(RP!Ids)
                      /\ Vals(RP!FoundFrom(m[k], s)) = Held(m[k], s)
                      /\ Once(RP!FoundFrom(m[k], s)) /\ Leads(RP!FoundFrom(m[k], s))
  BY <1>1, FoundIs
<1>3. /\ ss \in [1..n -> Seq(RP!Ids)]
      /\ \A k \in 1..n : Vals(ss[k]) = Held(m[k], s) /\ Once(ss[k]) /\ Leads(ss[k])
  BY <1>2
<1> HIDE DEF ss
<1>4. \A i, j \in RP!Ids : j \in Held(i, s) => RP!Encloses(i, j)
  BY DEF Held, RP!Holds
<1>5. /\ \A i \in RP!Ids : i \in Nat
      /\ \A i, j \in RP!Ids : RP!Encloses(i, j) => i < j
      /\ \A i, j, k \in RP!Ids : i < j /\ j < k /\ RP!Encloses(i, k) => RP!Encloses(i, j)
      /\ \A i, j, k \in RP!Ids :
             i < j /\ RP!Encloses(i, k) /\ RP!Encloses(j, k) => RP!Encloses(i, j)
  BY DEF Laws
<1>6. \A i, j : j \in Held(i, s) <=> j \in RP!Named(RP!Ids, s.tag) /\ RP!Holds(s.by, i, j)
  BY DEF Held
<1>7. RP!Named(RP!Ids, s.tag) \in SUBSET RP!Ids
  BY DEF RP!Named
<1>8. UNION {Vals(ss[k]) : k \in 1..n}
      = {j \in RP!Named(RP!Ids, s.tag) : \E i \in Vals(m) : RP!Holds(s.by, i, j)}
  <2>1. UNION {Vals(ss[k]) : k \in 1..n} = UNION {Held(m[k], s) : k \in 1..n}
    BY <1>3
  <2> QED
    BY <1>6, <2>1 DEF Vals
<1>9. ASSUME Once(m), \A i, k \in Vals(m) : ~RP!Encloses(i, k),
             NEW i \in 1..n, NEW k \in 1..n, i # k
      PROVE  Vals(ss[i]) \cap Vals(ss[k]) = {}
  <2>1. /\ m[i] \in RP!Ids /\ m[k] \in RP!Ids /\ m[i] \in Vals(m) /\ m[k] \in Vals(m)
        /\ m[i] # m[k]
    BY <1>1, <1>9 DEF Once, Vals
  <2>2. m[i] < m[k] \/ m[k] < m[i]
    BY <1>5, <2>1
  <2>3. ASSUME NEW j \in Held(m[i], s), j \in Held(m[k], s) PROVE FALSE
    <3>1. j \in RP!Ids /\ RP!Encloses(m[i], j) /\ RP!Encloses(m[k], j)
      BY <1>4, <1>6, <1>7, <2>1, <2>3
    <3>2. RP!Encloses(m[i], m[k]) \/ RP!Encloses(m[k], m[i])
      BY <1>5, <2>1, <2>2, <3>1
    <3> QED
      BY <1>9, <2>1, <3>2
  <2> QED
    BY <1>3, <2>3
<1>10. ASSUME Rising(m), s.by = "descendant", NEW i \in 1..n, NEW k \in 1..n,
              NEW y \in Vals(ss[i]), NEW x \in Vals(ss[k]), i < k, x < y
       PROVE  x \in Vals(ss[i])
  <2>1. y \in Held(m[i], s) /\ x \in Held(m[k], s) /\ m[i] < m[k]
        /\ m[i] \in RP!Ids /\ m[k] \in RP!Ids
    BY <1>1, <1>3, <1>10 DEF Rising
  <2>2. x \in RP!Ids /\ y \in RP!Ids /\ RP!Encloses(m[i], y) /\ m[k] < x
    BY <1>4, <1>5, <1>6, <1>7, <2>1
  <2>3. m[i] < x
    BY <1>5, <2>1, <2>2
  <2>4. RP!Encloses(m[i], x)
    BY <1>5, <1>10, <2>1, <2>2, <2>3
  <2>5. RP!Holds(s.by, m[i], x)
    BY <1>10, <2>4 DEF RP!Holds
  <2> QED
    BY <1>3, <1>6, <2>1, <2>5
<1>11. /\ RP!FlattenSeq(ss) \in Seq(RP!Ids)
       /\ Vals(RP!FlattenSeq(ss)) = UNION {Vals(ss[k]) : k \in 1..n}
  BY <1>1, <1>3, FlattenKeeps
<1>12. ASSUME Once(m), \A i, k \in Vals(m) : ~RP!Encloses(i, k) PROVE Once(RP!FlattenSeq(ss))
  <2>1. /\ \A k \in 1..n : Once(ss[k])
        /\ \A i, k \in 1..n : i # k => Vals(ss[i]) \cap Vals(ss[k]) = {}
    BY <1>3, <1>9, <1>12
  <2> QED
    BY <1>1, <1>3, <2>1, FlattenKeeps
<1>13. ASSUME Rising(m), s.by = "descendant" PROVE Leads(RP!FlattenSeq(ss))
  <2>1. /\ RP!Ids \subseteq Nat
        /\ \A k \in 1..n : Leads(ss[k])
        /\ \A i, k \in 1..n : \A y \in Vals(ss[i]), x \in Vals(ss[k]) :
               i < k /\ x < y => x \in Vals(ss[i])
    BY <1>3, <1>5, <1>10, <1>13
  <2> QED
    BY <1>1, <1>3, <2>1, FlattenKeeps
<1> QED
  BY <1>1, <1>8, <1>11, <1>12, <1>13

\* A selector of one or of two steps.
LEMMA ThroughIs ==
    ASSUME NEW first, NEW steps, Len(steps) \in 1..2
    PROVE  RP!Through(first, steps)
           = IF Len(steps) = 1 THEN first ELSE RP!After(first, steps[2])
<1> DEFINE n == Len(steps)
           w == [k \in 1..n |-> IF k = 1 THEN first ELSE RP!After(first, steps[k])]
           ch == CHOOSE f : f = [k \in 1..n |-> IF k = 1 THEN first
                                                ELSE RP!After(f[k - 1], steps[k])]
<1>1. RP!Through(first, steps) = ch[n]
  BY DEF RP!Through
<1>2. n \in 1..2
  OBVIOUS
<1> HIDE DEF n
<1>3. \A k \in 1..n : k = 1 \/ (k = 2 /\ k - 1 = 1 /\ k - 1 \in 1..n)
  BY <1>2
<1>4. w = [k \in 1..n |-> IF k = 1 THEN first ELSE RP!After(w[k - 1], steps[k])]
  BY <1>3
<1>5. ch = [k \in 1..n |-> IF k = 1 THEN first ELSE RP!After(ch[k - 1], steps[k])]
  BY <1>4
<1> HIDE DEF ch
<1>6. n = 1 => ch[n] = first
  BY <1>5
<1>7. n = 2 => ch[n] = RP!After(first, steps[2])
  <2>1. n = 2 => 1 \in 1..n /\ 2 \in 1..n /\ 2 - 1 = 1 /\ 2 # 1
    OBVIOUS
  <2>2. n = 2 => ch[1] = first
    BY <1>5, <2>1
  <2> QED
    BY <1>5, <2>1, <2>2
<1> QED
  BY <1>1, <1>2, <1>6, <1>7 DEF n

LEMMA CssIs ==
    ASSUME NEW scope, NEW steps, Len(steps) \in 1..2
    PROVE  RP!Css(scope, steps)
           = IF Len(steps) = 1 THEN RP!Named(scope, steps[1].tag)
             ELSE {j \in RP!Named(RP!Ids, steps[2].tag) :
                       \E i \in RP!Named(scope, steps[1].tag) : RP!Holds(steps[2].by, i, j)}
<1> DEFINE n == Len(steps)
           first == RP!Named(scope, steps[1].tag)
           Next2(set, k) == {j \in RP!Named(RP!Ids, steps[k].tag) :
                                 \E i \in set : RP!Holds(steps[k].by, i, j)}
           w == [k \in 1..n |-> IF k = 1 THEN first ELSE Next2(first, k)]
           ch == CHOOSE f : f = [k \in 1..n |-> IF k = 1 THEN first ELSE Next2(f[k - 1], k)]
<1>1. RP!Css(scope, steps) = ch[n]
  BY DEF RP!Css
<1>2. n \in 1..2
  OBVIOUS
<1> HIDE DEF n, Next2, first
<1>3. \A k \in 1..n : k = 1 \/ (k = 2 /\ k - 1 = 1 /\ k - 1 \in 1..n)
  BY <1>2
<1>4. w = [k \in 1..n |-> IF k = 1 THEN first ELSE Next2(w[k - 1], k)]
  BY <1>3
<1>5. ch = [k \in 1..n |-> IF k = 1 THEN first ELSE Next2(ch[k - 1], k)]
  BY <1>4
<1> HIDE DEF ch
<1>6. n = 1 => ch[n] = first
  BY <1>5
<1>7. n = 2 => ch[n] = Next2(first, 2)
  <2>1. n = 2 => 1 \in 1..n /\ 2 \in 1..n /\ 2 - 1 = 1 /\ 2 # 1
    OBVIOUS
  <2>2. n = 2 => ch[1] = first
    BY <1>5, <2>1
  <2> QED
    BY <1>5, <2>1, <2>2
<1> QED
  <2>1. n = 1 \/ n = 2
    BY <1>2
  <2>2. RP!Css(scope, steps) = IF n = 1 THEN first ELSE Next2(first, 2)
    BY <1>1, <1>6, <1>7, <2>1
  <2> QED
    BY <2>2 DEF n, first, Next2

LEMMA SelectorIs ==
    ASSUME NEW s \in RP!Selectors
    PROVE  /\ Len(s) \in 1..2 /\ s[1] \in RP!Step /\ s[1].by = "descendant"
           /\ Len(s) # 1 => Len(s) = 2 /\ s[2] \in RP!Step
  BY DEF RP!Selectors

LEMMA ParserHolds ==
    ASSUME ParserInv
    PROVE  RP!Nested /\ RP!SelectsLikeCss /\ RP!FirstWithin
<1>1. CASE ~done
  BY <1>1 DEF RP!Nested, RP!SelectsLikeCss, RP!FirstWithin
<1>2. CASE done
  <2>1. Laws /\ IsFiniteSet(RP!Ids) /\ RP!Ids \subseteq Nat
    BY <1>2, PageIsTree DEF Laws
  <2>2. RP!Nested
    BY <2>1 DEF Laws, RP!Nested
  <2>3. \A T \in SUBSET RP!Ids :
            /\ RP!InOrder(T) \in Seq(RP!Ids) /\ Vals(RP!InOrder(T)) = T
            /\ Rising(RP!InOrder(T)) /\ Once(RP!InOrder(T)) /\ Leads(RP!InOrder(T))
    BY <2>1, FS_Subset, InOrderIs
  <2>4. ASSUME NEW T \in SUBSET RP!Ids, NEW s \in RP!Selectors
        PROVE  LET found == RP!Through(RP!InOrder(RP!Named(T, s[1].tag)), s)
               IN  /\ found \in Seq(RP!Ids) /\ Vals(found) = RP!Css(T, s)
                   /\ (\A i, j \in RP!Named(T, s[1].tag) : ~RP!Encloses(i, j)) => Once(found)
                   /\ Len(s) = 1 \/ s[2].by = "descendant" => Leads(found)
    <3> DEFINE N == RP!Named(T, s[1].tag)
               first == RP!InOrder(N)
               found == RP!Through(first, s)
    <3>1. N \in SUBSET RP!Ids
      BY DEF RP!Named
    <3>2. /\ first \in Seq(RP!Ids) /\ Vals(first) = N
          /\ Rising(first) /\ Once(first) /\ Leads(first)
      BY <2>3, <3>1
    <3> HIDE DEF first
    <3>3. /\ Len(s) \in 1..2
          /\ found = IF Len(s) = 1 THEN first ELSE RP!After(first, s[2])
      BY SelectorIs, ThroughIs
    <3>4. RP!Css(T, s) = IF Len(s) = 1 THEN N
                         ELSE {j \in RP!Named(RP!Ids, s[2].tag) :
                                   \E i \in N : RP!Holds(s[2].by, i, j)}
      BY <3>3, CssIs
    <3> HIDE DEF found, N
    <3>5. CASE Len(s) = 1
      BY <3>2, <3>3, <3>4, <3>5 DEF found, first, N
    <3>6. CASE Len(s) # 1
      <4>1. s[2] \in RP!Step
        BY <3>6, SelectorIs
      <4>2. /\ RP!After(first, s[2]) \in Seq(RP!Ids)
            /\ Vals(RP!After(first, s[2])) = {j \in RP!Named(RP!Ids, s[2].tag) :
                                                  \E i \in N : RP!Holds(s[2].by, i, j)}
            /\ (\A i, k \in N : ~RP!Encloses(i, k)) => Once(RP!After(first, s[2]))
            /\ s[2].by = "descendant" => Leads(RP!After(first, s[2]))
        BY <2>1, <3>2, <4>1, AfterIs
      <4> QED
        BY <3>3, <3>4, <3>6, <4>2 DEF found, first, N
    <3> QED
      BY <3>5, <3>6
  <2>5. RP!SelectsLikeCss
    <3> SUFFICES ASSUME NEW s \in RP!Selectors
                 PROVE  /\ RP!ToSet(RP!SelectAll(s)) = RP!Css(RP!Ids, s)
                        /\ (\A i, j \in RP!Named(RP!Ids, s[1].tag) : ~RP!Encloses(i, j))
                           => Len(RP!SelectAll(s)) = RP!Cardinality(RP!Css(RP!Ids, s))
      BY DEF RP!SelectsLikeCss
    <3> DEFINE found == RP!SelectAll(s)
    <3>1. /\ found \in Seq(RP!Ids) /\ Vals(found) = RP!Css(RP!Ids, s)
          /\ (\A i, j \in RP!Named(RP!Ids, s[1].tag) : ~RP!Encloses(i, j)) => Once(found)
      BY <2>4 DEF RP!SelectAll
    <3> HIDE DEF found
    <3>2. RP!ToSet(found) = Vals(found)
      BY <3>1, ValsOf
    <3>3. Once(found) => Len(found) = RP!Cardinality(Vals(found))
      BY <3>1, OnceCounts, PageCounted
    <3> QED
      BY <3>1, <3>2, <3>3 DEF found
  <2>6. RP!FirstWithin
    <3> SUFFICES ASSUME NEW root \in RP!Ids, NEW s \in RP!Selectors
                 PROVE  LET found == RP!SelectWithin(root, s)
                            css == RP!Css({i \in RP!Ids : i = root \/ RP!Encloses(root, i)}, s)
                        IN  /\ RP!ToSet(found) = css
                            /\ css # {} /\ (Len(s) = 1 \/ s[2].by = "descendant")
                               => \A i \in css : found[1] <= i
      BY DEF RP!FirstWithin
    <3> DEFINE T == {i \in RP!Ids : i = root \/ RP!Encloses(root, i)}
               found == RP!SelectWithin(root, s)
               css == RP!Css(T, s)
    <3>1. {root} \cup RP!Below(root) = T
      BY <2>1, BelowIs
    <3>2. found = RP!Through(RP!InOrder(RP!Named(T, s[1].tag)), s)
      BY <3>1, SelectorIs DEF RP!SelectWithin
    <3>3. T \in SUBSET RP!Ids
      OBVIOUS
    <3> HIDE DEF T, found
    <3>4. /\ found \in Seq(RP!Ids) /\ Vals(found) = css
          /\ Len(s) = 1 \/ s[2].by = "descendant" => Leads(found)
      BY <2>4, <3>2, <3>3
    <3> HIDE DEF css
    <3>5. RP!ToSet(found) = css /\ (css # {} => found # <<>>)
      BY <3>4, ValsOf
    <3>6. css # {} /\ (Len(s) = 1 \/ s[2].by = "descendant") => \A i \in css : found[1] <= i
      BY <3>4, <3>5 DEF Leads
    <3> QED
      BY <3>5, <3>6 DEF T, found, css
  <2> QED
    BY <2>2, <2>5, <2>6
<1> QED
  BY <1>1, <1>2 DEF ParserInv

LEMMA StepOfParser ==
    ASSUME [SumNext]_sumVars
    PROVE  part' = part /\ (part = "parser" => [RP!Next]_(RP!vars))
  BY DEF SumNext, sumVars, IoStep, KvStep, BrStep, PgStep, LfStep, ApiStep, HsStep,
         RpStep, RaStep, RhStep, UpStep, JcStep, rpVars, RP!vars

LEMMA ParserInvariant == SumSpec => [](part = "parser" => ParserInv)
<1>1. SumInit => (part = "parser" => ParserInv)
  BY InitParser DEF SumInit
<1>2. (part = "parser" => ParserInv) /\ [SumNext]_sumVars
      => (part = "parser" => ParserInv)'
  BY ParserInductive, StepOfParser
<1> QED
  BY <1>1, <1>2, PTL DEF SumSpec

\* RawParser: the elements of a page that was read are a tree, whatever tags
\* are missing or closed twice, and a selector of one or two steps finds in it
\* what CSS does, by the places of the tags (raw_parser.rs).
THEOREM ParserSelectsLikeCss == SumSpec => []SelectsLikeCss
<1>1. (part = "parser" => ParserInv) => SelectsLikeCss
  BY ParserHolds DEF SelectsLikeCss
<1> QED
  BY <1>1, ParserInvariant, PTL

-----------------------------------------------------------------------------
(***************************************************************************)
(* The types of all parts.  A client's cursor is a number, however it      *)
(* rounds it.                                                              *)
(***************************************************************************)
LEMMA BoundedCursor == SumSpec => [](part = "parser" => cursor \in 0..MaxTags)
<1>1. SumInit => (part = "parser" => cursor \in 0..MaxTags)
  BY ParserAssumption DEF SumInit, RP!Init, RP!BoundAssumption
<1>2. ASSUME cursor \in 0..MaxTags, [RP!Next]_(RP!vars) PROVE cursor' \in 0..MaxTags
  <2>1. cursor' = cursor \/ (cursor' = cursor + 1 /\ cursor < MaxTags)
    BY <1>2 DEF RP!Next, RP!Open, RP!Close, RP!Finish, RP!vars
  <2> QED
    BY <1>2, <2>1, ParserAssumption DEF RP!BoundAssumption
<1>3. (part = "parser" => cursor \in 0..MaxTags) /\ [SumNext]_sumVars
      => (part = "parser" => cursor \in 0..MaxTags)'
  BY <1>2, StepOfParser
<1> QED
  BY <1>1, <1>3, PTL DEF SumSpec

LEMMA ParserTyped == ASSUME ParserInv, cursor \in 0..MaxTags PROVE RP!TypeOK
<1> DEFINE m == Len(nodes)
<1>1. m \in Nat /\ RP!Ids = 1..m /\ nodes \in Seq(Node)
  BY DEF ParserInv, RP!Ids
<1>2. \A i \in RP!Ids : nodes[i].tag \in Tags
  <2>1. \A i \in RP!Ids : nodes[i] \in Node
    BY <1>1, SeqElements
  <2> QED
    BY <2>1 DEF Node
<1>3. Opened \subseteq 1..m /\ Numbered(nodes, m)
      /\ \A i \in 1..m : nodes[i].start < nodes[i].end
  BY DEF ParserInv, Tree, Ends
<1>4. RP!ToSet(stack) \subseteq RP!Ids
  <2>1. DOMAIN stack = 1..Len(stack)
    BY DEF ParserInv
  <2>2. RP!ToSet(stack) = Opened
    BY <2>1 DEF RP!ToSet, Opened
  <2> QED
    BY <1>1, <1>3, <2>2
<1> HIDE DEF m
<1> QED
  BY <1>1, <1>2, <1>3, <1>4 DEF Numbered, RP!TypeOK

Client ==
    /\ walk.on \in BOOLEAN
    /\ walk.on => /\ walk.job \in ReadJobs /\ walk.limit \in 0..MaxLimit
                  /\ walk.after \in Nat \cup {None}

RecordsTyped ==
    /\ engine \in {"redb", "sqlite"}
    /\ rows \subseteq RA!Row /\ IsFiniteSet(rows) /\ OneTime
    /\ got \in Seq(RA!Clock)
    /\ Client

LEMMA InitRecords == RA!Init => RecordsTyped
<1>1. <<>> \in Seq(RA!Clock)
  OBVIOUS
<1> QED
  BY <1>1, FS_EmptySet DEF RA!Init, RecordsTyped, Client, OneTime

LEMMA ServedTyped ==
    ASSUME RecordsTyped, NEW j \in ReadJobs, NEW limit \in 0..MaxLimit,
           NEW after \in Nat \cup {None}, RA!Served(j, limit, after),
           UNCHANGED <<engine, rows>>
    PROVE  RecordsTyped'
<1> DEFINE s == RA!Page(j, limit, after)
           g == IF after = None THEN <<>> ELSE got
           next == RA!Answer(s, limit).after
<1>1. /\ walk' = [on |-> TRUE, job |-> j, limit |-> limit, after |-> next]
      /\ got' = g \o s
  BY DEF RA!Served
<1>2. Timed(RA!RowsOf(j))
  <2>1. RA!RowsOf(j) \in SUBSET rows /\ \A r \in RA!RowsOf(j) : r.job = j
    BY DEF RA!RowsOf
  <2> QED
    BY <2>1, FS_Subset DEF RecordsTyped, RA!Row, OneTime, Timed
<1>3. s \in Seq(RA!Clock)
  <2>1. limit \in Nat
    BY RecordsAssumption DEF RA!ParamAssumption
  <2> QED
    BY <1>2, <2>1, PageIs
<1>4. g \in Seq(RA!Clock)
  <2>1. <<>> \in Seq(RA!Clock)
    OBVIOUS
  <2> QED
    BY <2>1 DEF RecordsTyped
<1>5. next \in Nat \cup {None}
  <2>1. ASSUME s # <<>> PROVE RA!Last(s) \in Nat
    BY <1>3, <2>1, SeqElements, ClockIs DEF RA!Last
  <2>2. s # <<>> => RA!Rounded(RA!Last(s)) \in Nat
    BY <2>1, RoundedKeeps
  <2> HIDE DEF s
  <2> QED
    BY <2>2 DEF RA!Answer
<1> HIDE DEF s, g, next
<1>6. got' \in Seq(RA!Clock)
  BY <1>1, <1>3, <1>4, Joined
<1>7. Client'
  BY <1>1, <1>5 DEF Client
<1> QED
  BY <1>6, <1>7 DEF RecordsTyped, OneTime, RA!Row, RA!Clock

LEMMA InsertTyped ==
    ASSUME RecordsTyped, NEW j \in ReadJobs, NEW ts \in RA!Clock, NEW good \in BOOLEAN,
           RA!Insert(j, ts, good)
    PROVE  RecordsTyped'
<1> DEFINE record == [job |-> j, ts |-> ts, good |-> good]
<1>1. /\ rows' = rows \cup {record} /\ UNCHANGED <<engine, walk, got, since>>
      /\ \A r \in rows : r.job = j => r.ts # ts
  BY DEF RA!Insert, RA!RowsOf
<1>2. record \in RA!Row /\ record.job = j /\ record.ts = ts
  BY DEF RA!Row
<1> HIDE DEF record
<1>3. rows' \subseteq RA!Row' /\ IsFiniteSet(rows')
  BY <1>1, <1>2, FS_AddElement DEF RecordsTyped, RA!Row, RA!Clock
<1>4. OneTime'
  BY <1>1, <1>2 DEF RecordsTyped, OneTime
<1> QED
  BY <1>1, <1>3, <1>4 DEF RecordsTyped, Client

LEMMA RecordsInductive == ASSUME RecordsTyped, [RA!Next]_(RA!vars) PROVE RecordsTyped'
<1>1. ASSUME NEW j \in ReadJobs, NEW p \in Limits, RA!FirstPage(j, p) PROVE RecordsTyped'
  <2> DEFINE limit == RA!QueryLimit(p)
  <2>1. limit \in 0..MaxLimit
    <3>1. (IF p = None THEN DefaultLimit ELSE p) \in Nat /\ MaxLimit \in Nat
      BY RecordsAssumption DEF RA!ParamAssumption
    <3> QED
      BY <3>1 DEF RA!QueryLimit, RA!Least
  <2>2. RA!Served(j, limit, None) /\ UNCHANGED <<engine, rows>>
    BY <1>1 DEF RA!FirstPage
  <2> HIDE DEF limit
  <2> QED
    BY <2>1, <2>2, ServedTyped
<1>2. CASE RA!NextPage
  <2>1. /\ walk.job \in ReadJobs /\ walk.limit \in 0..MaxLimit
        /\ walk.after \in Nat \cup {None}
        /\ RA!Served(walk.job, walk.limit, walk.after) /\ UNCHANGED <<engine, rows>>
    BY <1>2 DEF RA!NextPage, RecordsTyped, Client
  <2> QED
    BY <2>1, ServedTyped
<1>3. CASE UNCHANGED RA!vars
  BY <1>3 DEF RA!vars, RecordsTyped, Client, OneTime, RA!Row, RA!Clock
<1> QED
  BY <1>1, <1>2, <1>3, InsertTyped DEF RA!Next

LEMMA RecordsTypes == SumSpec => [](part = "records" => RA!TypeOK)
<1>1. SumInit => (part = "records" => RecordsTyped)
  BY InitRecords DEF SumInit
<1>2. (part = "records" => RecordsTyped) /\ [SumNext]_sumVars
      => (part = "records" => RecordsTyped)'
  BY RecordsInductive, StepOfRecords
<1>3. ASSUME RecordsTyped PROVE RA!TypeOK
  <2>1. \A i \in DOMAIN got : got[i] \in RA!Clock
    <3>1. got \in Seq(RA!Clock)
      BY <1>3 DEF RecordsTyped
    <3> QED
      BY <3>1, PlacesOf, SeqElements
  <2> QED
    BY <1>3, <2>1 DEF RecordsTyped, Client, RA!TypeOK
<1>4. (part = "records" => RecordsTyped) => (part = "records" => RA!TypeOK)
  BY <1>3
<1> QED
  BY <1>1, <1>2, <1>4, PTL DEF SumSpec

LEMMA PartsInvariant == SumSpec => [](part \in Parts)
<1>1. SumInit => part \in Parts
  BY DEF SumInit
<1>2. part \in Parts /\ [SumNext]_sumVars => (part \in Parts)'
  BY StepOfParser DEF Parts
<1> QED
  BY <1>1, <1>2, PTL DEF SumSpec

(***************************************************************************)
(* All services keep their types, for any numbers of callers, browsers,    *)
(* workers and requests and any bounds: the lists keep to their lengths,   *)
(* the counters to their ranges, a call is with a hook exactly while it is *)
(* queued or runs, and an answer is sent exactly when a request is done.   *)
(***************************************************************************)
THEOREM TypesAreKept == SumSpec => []TypesHold
<1>1. (part = "parser" => ParserInv) /\ (part = "parser" => cursor \in 0..MaxTags)
      => (part = "parser" => RP!TypeOK)
  BY ParserTyped
<1>2. SumSpec => [](part = "parser" => RP!TypeOK)
  BY <1>1, ParserInvariant, BoundedCursor, PTL
<1>3. /\ part \in Parts
      /\ /\ part = "io" => TypeOK
         /\ part = "kv" => KV!TypeOK
         /\ part = "browsers" => BR!TypeOK
         /\ part = "updater" => UP!TypeOK
         /\ part = "pages" => PG!TypeOK
         /\ part = "config" => JC!TypeOK
      /\ /\ part = "api" => API!TypeOK
         /\ part = "logs" => LF!TypeOK
         /\ part = "stages" => HS!TypeOK
         /\ part = "requests" => RH!TypeOK
      /\ part = "parser" => RP!TypeOK
      /\ part = "records" => RA!TypeOK
      => TypesHold
  BY DEF Parts, TypesHold
<1> QED
  BY <1>2, <1>3, PartsInvariant, ServiceTypes, DataTypes, RecordsTypes, PTL
=============================================================================
