----------------------------- MODULE MCServices -----------------------------
(***************************************************************************)
(* Services on small instances, for TLC.                                   *)
(***************************************************************************)
EXTENDS Services, TLC

CONSTANTS a, b

TwoCallers == {a, b}

-----------------------------------------------------------------------------
\* KeyValue: two workers of a job and one of another, whose id begins with the
\* first's.
WorkersJob == [w \in {"w1", "w2", "w3"} |-> IF w = "w3" THEN "j2" ELSE "j1"]
PrefixIds == [j \in {"j1", "j2"} |-> IF j = "j1" THEN <<"a">> ELSE <<"a", "b">>]
OwnNames == {<<"k">>, <<"b", "k">>}
SpelledNames == {<<"a", ":", "k">>}

\* RequestHandler: two workers of a job that rotates two proxies; the counter
\* wraps.
FetchersJob == [w \in {"w1", "w2"} |-> "j"]
TwoProxies == [j \in {"j"} |->
                  [enabled |-> TRUE, urls |-> <<"p1", "p2">>, rotate |-> "RoundRobin"]]

\* RecordsApi: beyond the largest limit, none, and none to serve.
SomeLimits == {0, 9, None}

-----------------------------------------------------------------------------
(* JobConfig                                                               *)

Word(w) == [word |-> w, padded |-> FALSE]
Padded(w) == [word |-> w, padded |-> TRUE]
Short(name, rest) == [short |-> TRUE, name |-> name, rest |-> rest]
Full(name, rest) == [short |-> FALSE, name |-> name, rest |-> rest]
Config(name, scalars, fields, search, hash) ==
    [name |-> name, scalars |-> scalars, fields |-> fields, search |-> search, hash |-> hash]

GoodFields == {Short(Word("x"), "selector"), Full(Word("y"), "selector")}
FieldSets == {GoodFields, {Short(Padded("x"), "none")}, {Short(Word("x"), "colon")},
              {Short(Word("x"), "selector"), Full(Padded("x"), "selector")}}

\* search_fields and hash_fields
Lists == {<<None, None>>, <<{Padded("y"), Word("")}, {Word("x")}>>,
          <<None, {Padded("y"), Word("")}>>, <<None, {Word("x"), Word("z")}>>}

SomeTomls ==
    [at : {"missing", "bad"}, jobs : {{}}]
    \cup [at : {"read"},
          jobs : {{Config("n1", TRUE, f, l[1], l[2])} : f \in FieldSets, l \in Lists}
                 \cup {{Config("n1", FALSE, GoodFields, None, None)}}]

SomeDirs ==
    [bad : BOOLEAN,
     jobs : {{}} \cup {{Config(n, TRUE, GoodFields, None, None)} : n \in {"n2", "n3"}}]

\* Two names have one id.
IdOfName == [n \in {"n1", "n2", "n3"} |-> IF n = "n3" THEN "i3" ELSE "i1"]
=============================================================================
