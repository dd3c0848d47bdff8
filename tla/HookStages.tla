----------------------------- MODULE HookStages -----------------------------
(***************************************************************************)
(* What the hooks of one cycle do to its data (lua/hooks/stages.rs, in the *)
(* order of run_once_inner): a hook that is absent, that fails, or that    *)
(* returns something else than a table or nil leaves it as it is, nil ends *)
(* the cycle or empties the list, a table replaces it.                     *)
(*                                                                         *)
(* Items cross to Lua as tables that carry their index, and back with the  *)
(* metadata (matches, parent_html) of the item at that index, since Lua    *)
(* has the fields only (lua/conversions.rs).  An item here is the element  *)
(* its fields are from and the element its metadata is from.               *)
(***************************************************************************)
EXTENDS Naturals, Sequences, SequencesExt

CONSTANTS
    None,
    MaxItems    \* bound on the items of a list

BoundAssumption == MaxItems \in Nat

Behaviours == {"absent", "fails", "other", "nil", "table"}

\* The elements the selector matches, in the order of the page.
Elements == 1..MaxItems

VARIABLES
    stage,      \* the next step of the cycle
    items,      \* the items of the cycle
    new,        \* those the store has returned
    told,       \* those a notification was shown for
    response,   \* none, error, or ok
    tables,     \* the item tables a script has seen and may have kept
    kept,       \* history: it has returned one of an earlier stage
    outcome     \* running, skipped, failed, done

vars == <<stage, items, new, told, response, tables, kept, outcome>>

ItemSet == [of : Elements \cup {None}, meta : Elements \cup {None}]
TableSet == [of : Elements \cup {None}, idx : 0..MaxItems]    \* 0: without _meta_idx

TypeOK ==
    /\ stage \in {"before_fetch", "fetch", "after_fetch", "extract", "after_extract",
                  "filter", "before_store", "store", "before_notify",
                  "before_webhook", "end"}
    /\ items \in Seq(ItemSet) /\ Len(items) <= MaxItems
    /\ new \in Seq(ItemSet) /\ told \in Seq(ItemSet)
    /\ tables \subseteq TableSet
    /\ response \in {"none", "error", "ok"}
    /\ outcome \in {"running", "skipped", "failed", "done"}
    /\ outcome = "running" <=> stage # "end"

Init ==
    /\ stage = "before_fetch"
    /\ items = <<>> /\ new = <<>> /\ told = <<>>
    /\ response = "none"
    /\ tables = {} /\ kept = FALSE
    /\ outcome = "running"

\* The cycle goes on with the next stage, or ends.
Goes(to) == stage' = to /\ outcome' = "running"
Ends(how) == stage' = "end" /\ outcome' = how

-----------------------------------------------------------------------------
\* items_to_lua: an index counts from 0 there.
ToTables(list) == {[of |-> list[i].of, idx |-> i] : i \in DOMAIN list}

\* Mutant: the metadata is that of the item at the same place.
ToItemsByPlace(list, originals) ==
    [i \in DOMAIN list |->
        [of |-> list[i].of,
         meta |-> IF i \in DOMAIN originals THEN originals[i].meta ELSE None]]

\* lua_to_items.
ToItems(list, originals) ==
    [i \in DOMAIN list |->
        [of |-> list[i].of,
         meta |-> IF list[i].idx \in DOMAIN originals
                  THEN originals[list[i].idx].meta ELSE None]]

\* The script's own table, with or without an item's fields.
Own == [of |-> None, idx |-> 0]

\* The lists a script may return: tables it was given, now or earlier, edited,
\* reordered, repeated or dropped, and tables of its own.
Returned(list) == SeqOf(ToTables(list) \cup tables \cup {Own}, MaxItems)

\* What a list is after a hook on it, nil standing for what nil makes of it.
AfterHook(b, list, nil, result) ==
    \/ b \in {"absent", "fails", "other"} /\ result = list /\ UNCHANGED kept
    \/ b = "nil" /\ result = nil /\ UNCHANGED kept
    \/ /\ b = "table"
       /\ \E t \in Returned(list) :
              /\ result = ToItems(t, list)
              /\ kept' = (kept \/ ~ToSet(t) \subseteq ToTables(list) \cup {Own})

\* The script sees the tables of the list, and may keep them.
Shows(b, list) ==
    tables' = IF b = "absent" THEN tables ELSE tables \cup ToTables(list)

-----------------------------------------------------------------------------
BeforeFetch(b) ==
    /\ stage = "before_fetch"
    /\ IF b = "nil" THEN Ends("skipped") ELSE Goes("fetch")
    /\ UNCHANGED <<items, new, told, response, tables, kept>>

\* override_fetch, or the runner: a hook that returns no table has failed.
Fetch(b, ok) ==
    /\ stage = "fetch"
    /\ b \in {"fails", "other", "nil"} => ~ok
    /\ response' = IF ok THEN "ok" ELSE "error"
    /\ Goes("after_fetch")
    /\ UNCHANGED <<items, new, told, tables, kept>>

\* A table makes a response even of a failed fetch.
AfterFetch(b) ==
    /\ stage = "after_fetch"
    /\ CASE b = "nil" -> Ends("skipped")
         [] b = "table" -> Goes("extract")
         [] OTHER -> IF response = "ok" THEN Goes("extract") ELSE Ends("failed")
    /\ response' = IF b = "table" THEN "ok" ELSE response
    /\ UNCHANGED <<items, new, told, tables, kept>>

\* override_extract has no originals to take metadata from; whatever is not a
\* table is an empty list.  The extractor itself may fail.
Extract(b) ==
    /\ stage = "extract"
    /\ \/ b = "absent" /\ Ends("failed") /\ UNCHANGED items
       \/ /\ Goes("after_extract")
          /\ \E n \in 0..MaxItems :
                 CASE b = "absent" -> items' = [e \in 1..n |-> [of |-> e, meta |-> e]]
                   [] b = "table" -> items' = [e \in 1..n |-> [of |-> e, meta |-> None]]
                   [] OTHER -> items' = <<>>
    /\ UNCHANGED <<new, told, response, tables, kept>>

AfterExtract(b) ==
    /\ stage = "after_extract"
    /\ AfterHook(b, items, <<>>, items')
    /\ Shows(b, items)
    /\ IF items' = <<>> THEN Ends("skipped") ELSE Goes("filter")
    /\ UNCHANGED <<new, told, response>>

\* Some of the places of a list, in their order.
PlacesOf(list) ==
    UNION {{p \in [1..n -> DOMAIN list] : \A i, k \in 1..n : i < k => p[i] < p[k]} :
              n \in 0..Len(list)}

Those(list, places) == [k \in DOMAIN places |-> list[places[k]]]

\* filter_item, item by item, or the job's keywords when there is no such hook;
\* an error keeps the item.  A table gives it other fields, and it keeps its
\* metadata but for the keywords, which are looked for again.
Filter(b) ==
    /\ stage = "filter"
    /\ \E keep \in PlacesOf(items), edit \in SUBSET DOMAIN items :
           /\ b \in {"fails", "other"} => Len(keep) = Len(items)
           /\ b # "table" => edit = {}
           /\ items' = Those([i \in DOMAIN items |->
                                 IF i \in edit THEN [items[i] EXCEPT !.of = None] ELSE items[i]],
                             keep)
    /\ Goes("before_store")
    /\ UNCHANGED <<new, told, response, tables, kept>>

BeforeStore(b) ==
    /\ stage = "before_store"
    /\ AfterHook(b, items, <<>>, items')
    /\ Shows(b, items)
    /\ IF b = "nil" THEN Ends("skipped") ELSE Goes("store")
    /\ UNCHANGED <<new, told, response>>

\* batch_check_and_insert returns those not seen before (see RecordStore).
Store ==
    /\ stage = "store"
    /\ \/ Ends("failed") /\ UNCHANGED new
       \/ \E unseen \in PlacesOf(items) :
              /\ new' = Those(items, unseen)
              /\ IF unseen = <<>> THEN Ends("skipped") ELSE Goes("before_notify")
    /\ UNCHANGED <<items, told, response, tables, kept>>

\* nil shows nothing; a notification that cannot be shown ends the cycle.
BeforeNotify(b) ==
    /\ stage = "before_notify"
    /\ AfterHook(b, new, <<>>, told')
    /\ Shows(b, new)
    /\ Goes("before_webhook") \/ (b # "nil" /\ Ends("failed"))
    /\ UNCHANGED <<items, new, response>>

\* The payload is made of the new items, whatever before_notify returned.
BeforeWebhook(b) ==
    /\ stage = "before_webhook"
    /\ Ends(IF b = "nil" THEN "skipped" ELSE "done")
    /\ UNCHANGED <<items, new, told, response, tables, kept>>

Next ==
    \/ Store
    \/ \E b \in Behaviours :
           \/ BeforeFetch(b) \/ AfterFetch(b) \/ Extract(b) \/ AfterExtract(b)
           \/ Filter(b) \/ BeforeStore(b) \/ BeforeNotify(b) \/ BeforeWebhook(b)
           \/ \E ok \in BOOLEAN : Fetch(b, ok)

Spec == Init /\ [][Next]_vars

-----------------------------------------------------------------------------
(***************************************************************************)
(* What a script reorders, repeats, drops or edits keeps its own metadata: *)
(* no item is stored or told with the matches or the HTML of another, but  *)
(* for a script that returns a table it was given in an earlier stage,     *)
(* whose index then means another list.                                    *)
(***************************************************************************)
MetadataFits ==
    ~kept => \A x \in ToSet(items) \cup ToSet(new) \cup ToSet(told) :
                 x.of # None /\ x.meta # None => x.meta = x.of
=============================================================================
