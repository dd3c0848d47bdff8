----------------------------- MODULE RawParser -----------------------------
(***************************************************************************)
(* The fast HTML parser and its selectors (scraper/extractor/              *)
(* raw_parser.rs), which the extractor asks before the DOM parser.  A page *)
(* is read tag by tag; a position in it is the number of a tag.  Text,     *)
(* attributes, ids and classes are left out: a simple selector is the tag  *)
(* it names, a class or an id would be one more.                           *)
(***************************************************************************)
EXTENDS Naturals, Sequences, FiniteSets, SequencesExt

CONSTANTS
    Tags,
    MaxTags      \* bound on the length of a page

BoundAssumption == MaxTags \in Nat

VARIABLES
    nodes,       \* the elements, in the order of their start tags
    stack,       \* those open
    cursor,      \* tags read so far
    done

vars == <<nodes, stack, cursor, done>>

Ids == DOMAIN nodes

TypeOK ==
    /\ cursor \in 0..MaxTags
    /\ \A i \in Ids :
           /\ nodes[i].tag \in Tags
           /\ nodes[i].parent \in 0..(i - 1)
           /\ nodes[i].start < nodes[i].end
    /\ ToSet(stack) \subseteq Ids

Init ==
    /\ nodes = <<>> /\ stack = <<>>
    /\ cursor = 0
    /\ done = FALSE

\* A start tag: void and self-closing elements are not pushed.
Open(tag, void) ==
    LET parent == IF stack = <<>> THEN 0 ELSE Last(stack)
    IN  /\ ~done /\ cursor < MaxTags
        /\ cursor' = cursor + 1
        /\ nodes' = Append(nodes, [tag |-> tag, parent |-> parent,
                                   start |-> cursor, close |-> cursor + 1,
                                   end |-> cursor + 1])
        /\ stack' = IF void THEN stack ELSE Append(stack, Len(nodes) + 1)
        /\ UNCHANGED done

\* What an end tag closes begins at the innermost element of its name.
Position(tag) ==
    LET named == {k \in DOMAIN stack : nodes[stack[k]].tag = tag}
    IN  IF named = {} THEN Len(stack) + 1
                      ELSE CHOOSE k \in named : \A m \in named : m <= k

\* close_until_match: all of them end with the tag; without one it is ignored.
Close(tag) ==
    LET closed == {stack[k] : k \in Position(tag)..Len(stack)}
    IN  /\ ~done /\ cursor < MaxTags
        /\ cursor' = cursor + 1
        /\ nodes' = [i \in Ids |-> IF i \in closed
                                   THEN [nodes[i] EXCEPT !.close = cursor, !.end = cursor + 1]
                                   ELSE nodes[i]]
        /\ stack' = SubSeq(stack, 1, Position(tag) - 1)
        /\ UNCHANGED done

\* The end of the page closes what is open.
Finish ==
    /\ ~done
    /\ done' = TRUE
    /\ nodes' = [i \in Ids |-> IF i \in ToSet(stack)
                               THEN [nodes[i] EXCEPT !.close = cursor + 1, !.end = cursor + 1]
                               ELSE nodes[i]]
    /\ stack' = <<>>
    /\ UNCHANGED cursor

Next ==
    \/ \E tag \in Tags : Close(tag) \/ \E void \in BOOLEAN : Open(tag, void)
    \/ Finish

Spec == Init /\ [][Next]_vars

-----------------------------------------------------------------------------
(* Selectors: steps of a combinator and a tag.                             *)

Combinators == {"descendant", "child"}
Step == [by : Combinators, tag : Tags]

\* Those below a node through its children, and below them.
Below(i) ==
    LET up[j \in Ids] == nodes[j].parent = i
                         \/ (nodes[j].parent # 0 /\ up[nodes[j].parent])
    IN  {j \in Ids : up[j]}

\* In the order of the page: the k-th of a set has k elements up to it.
InOrder(set) ==
    [k \in 1..Cardinality(set) |->
        CHOOSE j \in set : Cardinality({i \in set : i <= j}) = k]

Named(set, tag) == {j \in set : nodes[j].tag = tag}

Children(i) == {j \in Ids : nodes[j].parent = i}

\* Mutant: a child step goes all the way down.
FoundBelow(i, step) == InOrder(Named(Below(i), step.tag))

\* collect_matches, or the children only.
FoundFrom(i, step) ==
    InOrder(Named(IF step.by = "descendant" THEN Below(i) ELSE Children(i), step.tag))

\* One step of a selector from all that matched so far, one after the other.
After(matches, step) ==
    FlattenSeq([k \in DOMAIN matches |-> FoundFrom(matches[k], step)])

\* All steps of a selector but the first, whose matches are known.
Through(first, steps) ==
    LET at[k \in 1..Len(steps)] == IF k = 1 THEN first ELSE After(at[k - 1], steps[k])
    IN  at[Len(steps)]

\* select_all: the first combinator does not matter.
SelectAll(steps) == Through(InOrder(Named(Ids, steps[1].tag)), steps)

\* select_first_within: the item itself may be the first step's match.
SelectWithin(root, steps) ==
    LET self == IF steps[1].by = "descendant" THEN {root} ELSE {}
    IN  Through(InOrder(Named(self \cup Below(root), steps[1].tag)), steps)

-----------------------------------------------------------------------------
(* What CSS has it select, by the places of the tags in the page alone.    *)

Encloses(i, j) == nodes[i].start < nodes[j].start /\ nodes[j].end <= nodes[i].end

Holds(by, i, j) ==
    /\ Encloses(i, j)
    /\ by = "child" => \A k \in Ids : ~(Encloses(i, k) /\ Encloses(k, j))

Css(scope, steps) ==
    LET at[k \in 1..Len(steps)] ==
            IF k = 1 THEN Named(scope, steps[1].tag)
            ELSE {j \in Named(Ids, steps[k].tag) :
                      \E i \in at[k - 1] : Holds(steps[k].by, i, j)}
    IN  at[Len(steps)]

\* Selectors of one and of two steps.
Selectors == {<<s>> : s \in {t \in Step : t.by = "descendant"}}
             \cup {<<s, t>> : s \in {u \in Step : u.by = "descendant"}, t \in Step}

\* Elements nest: two of them either do not overlap, or one lies within the
\* other, whatever tags are missing or closed twice.
Nested ==
    done => \A i, j \in Ids : i < j =>
        \/ nodes[i].end <= nodes[j].start
        \/ nodes[j].end <= nodes[i].end /\ nodes[j].start < nodes[i].close

\* An item selector selects what CSS does, and an element twice only when an
\* element with the first step's tag lies within another.
SelectsLikeCss ==
    done => \A s \in Selectors :
        /\ ToSet(SelectAll(s)) = Css(Ids, s)
        /\ (\A i, j \in Named(Ids, s[1].tag) : ~Encloses(i, j))
           => Len(SelectAll(s)) = Cardinality(Css(Ids, s))

\* A field gets the first match within its item in the order of the page, but
\* for a child step, which goes by the order of the parents.
FirstWithin ==
    done => \A root \in Ids, s \in Selectors :
        LET found == SelectWithin(root, s)
            css == Css({i \in Ids : i = root \/ Encloses(root, i)}, s)
        IN  /\ ToSet(found) = css
            /\ css # {} /\ (Len(s) = 1 \/ s[2].by = "descendant")
               => \A i \in css : found[1] <= i
=============================================================================
