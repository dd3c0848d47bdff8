------------------------------- MODULE Pages -------------------------------
(***************************************************************************)
(* The tabs of one browser as Lua sees them (lua/bindings/cdp.rs):         *)
(* browser:attach, with its reuse of a blank tab, new_context and          *)
(* context:attach, page:close and the Drop of a PageHandle.  Closing a tab *)
(* or a context is a detached call: it reaches the browser later, or never *)
(* when the connection is closed first.                                    *)
(***************************************************************************)
EXTENDS Naturals, FiniteSets

CONSTANTS
    Tabs,        \* ids of tabs
    Handles,     \* attach calls, and the PageHandles they make
    Contexts,    \* browser contexts besides the default one
    DefaultCtx,
    NoTab

TabAssumption == NoTab \notin Tabs /\ DefaultCtx \notin Contexts

VARIABLES
    connected,   \* the browser's transport is up
    tab,         \* per tab: unused, blank, loaded or gone
    ctxOf,       \* its browser context
    step,        \* per handle: new, listed, created, open, closed or failed
    page,        \* the tab of a handle
    wants,       \* the context its attach names, and whether opts.reuse is set
    context,     \* per context: unused, live or disposed (as Lua sees it)
    sent,        \* Target.closeTarget calls that the browser has not handled
    reused,      \* history: tabs attached to a second time
    stray        \* history: tabs made for an attach that then failed

vars == <<connected, tab, ctxOf, step, page, wants, context, sent, reused, stray>>

Up(t) == tab[t] \in {"blank", "loaded"}

TypeOK ==
    /\ connected \in BOOLEAN
    /\ tab \in [Tabs -> {"unused", "blank", "loaded", "gone"}]
    /\ ctxOf \in [Tabs -> Contexts \cup {DefaultCtx}]
    /\ step \in [Handles -> {"new", "listed", "created", "open", "closed", "failed"}]
    /\ page \in [Handles -> Tabs \cup {NoTab}]
    /\ wants \in [Handles -> [ctx : Contexts \cup {DefaultCtx}, asked : BOOLEAN]]
    /\ context \in [Contexts -> {"unused", "live", "disposed"}]
    /\ sent \subseteq Tabs
    /\ reused \subseteq Tabs
    /\ stray \subseteq Tabs

\* The browser starts with one blank tab, or a remote one with any set.
Init ==
    /\ connected = TRUE
    /\ tab \in [Tabs -> {"unused", "blank"}]
    /\ Cardinality({t \in Tabs : tab[t] = "blank"}) <= 1
    /\ ctxOf = [t \in Tabs |-> DefaultCtx]
    /\ step = [h \in Handles |-> "new"]
    /\ page = [h \in Handles |-> NoTab]
    /\ wants = [h \in Handles |-> [ctx |-> DefaultCtx, asked |-> FALSE]]
    /\ context = [c \in Contexts |-> "unused"]
    /\ sent = {}
    /\ reused = {}
    /\ stray = {t \in Tabs : tab[t] = "blank"}

Moves(h, from, to) == step[h] = from /\ step' = [step EXCEPT ![h] = to]

\* The script has the id of a context, closed or not.
Made(ctx) == ctx \in Contexts => context[ctx] # "unused"

\* A tab that some attach has been given.
Taken(t) == \E h \in Handles : page[h] = t

\* Mutant: the default does not look at the context.
ReuseDefaultTrue(ctx) == TRUE

\* What opts.reuse is when the script does not set it.
ReuseDefault(ctx) == ctx = DefaultCtx

\* browser:attach, with opts.reuse set to true or not set: Target.getTargets,
\* and the first blank one of the list is the page, whatever its context.
Reuse(h, ctx, asked) ==
    /\ connected
    /\ asked \/ ReuseDefault(ctx)
    /\ Made(ctx)
    /\ Moves(h, "new", "created")
    /\ wants' = [wants EXCEPT ![h] = [ctx |-> ctx, asked |-> asked]]
    /\ \E t \in Tabs :
           /\ tab[t] = "blank"
           /\ page' = [page EXCEPT ![h] = t]
           /\ reused' = IF Taken(t) THEN reused \cup {t} ELSE reused
    /\ UNCHANGED <<connected, tab, ctxOf, context, sent, stray>>

\* An attach that finds no blank tab, or wants none (context:attach never
\* does), goes on to make one.
WantNew(h, ctx) ==
    /\ connected /\ Made(ctx)
    /\ Moves(h, "new", "listed")
    /\ wants' = [wants EXCEPT ![h] = [ctx |-> ctx, asked |-> FALSE]]
    /\ UNCHANGED <<connected, tab, ctxOf, page, context, sent, reused, stray>>

\* Target.createTarget, about:blank unless the script names a url.
Create(h, url) ==
    /\ connected
    /\ Moves(h, "listed", "created")
    /\ wants[h].ctx \in Contexts => context[wants[h].ctx] = "live"
    /\ \E t \in Tabs :
           /\ tab[t] = "unused"
           /\ tab' = [tab EXCEPT ![t] = url]
           /\ ctxOf' = [ctxOf EXCEPT ![t] = wants[h].ctx]
           /\ page' = [page EXCEPT ![h] = t]
    /\ UNCHANGED <<connected, wants, context, sent, reused, stray>>

\* The page's own WebSocket (or session), on a tab that is still there.
Connect(h) ==
    /\ connected
    /\ Moves(h, "created", "open")
    /\ Up(page[h])
    /\ UNCHANGED <<connected, tab, ctxOf, page, wants, context, sent, reused, stray>>

\* Any await of an attach may fail, or be dropped: its tab is nobody's then.
AttachFails(h) ==
    /\ step[h] \in {"listed", "created"}
    /\ step' = [step EXCEPT ![h] = "failed"]
    /\ stray' = stray \cup ({page[h]} \ {NoTab})
    /\ UNCHANGED <<connected, tab, ctxOf, page, wants, context, sent, reused>>

Navigate(h) ==
    /\ step[h] = "open" /\ tab[page[h]] = "blank"
    /\ tab' = [tab EXCEPT ![page[h]] = "loaded"]
    /\ UNCHANGED <<connected, ctxOf, step, page, wants, context, sent, reused, stray>>

\* Mutant: closing a page tells the browser nothing.
CloseQuietly(h) ==
    /\ Moves(h, "open", "closed")
    /\ UNCHANGED <<connected, tab, ctxOf, page, wants, context, sent, reused, stray>>

\* close_best_effort, by page:close() or by the collector: once per handle.
Close(h) ==
    /\ Moves(h, "open", "closed")
    /\ sent' = IF connected THEN sent \cup {page[h]} ELSE sent
    /\ UNCHANGED <<connected, tab, ctxOf, page, wants, context, reused, stray>>

\* The browser handles a closeTarget.
TabCloses(t) ==
    /\ t \in sent
    /\ sent' = sent \ {t}
    /\ tab' = [tab EXCEPT ![t] = "gone"]
    /\ UNCHANGED <<connected, ctxOf, step, page, wants, context, reused, stray>>

NewContext(c) ==
    /\ connected /\ context[c] = "unused"
    /\ context' = [context EXCEPT ![c] = "live"]
    /\ UNCHANGED <<connected, tab, ctxOf, step, page, wants, sent, reused, stray>>

\* Mutant: the context is not named to the browser, which drops all of them.
DisposeAll(c) ==
    /\ connected /\ context[c] = "live"
    /\ context' = [context EXCEPT ![c] = "disposed"]
    /\ tab' = [t \in Tabs |-> IF Up(t) THEN "gone" ELSE tab[t]]
    /\ UNCHANGED <<connected, ctxOf, step, page, wants, sent, reused, stray>>

\* context:close() is detached too; all tabs of the context go with it.
Dispose(c) ==
    /\ connected /\ context[c] = "live"
    /\ context' = [context EXCEPT ![c] = "disposed"]
    /\ tab' = [t \in Tabs |-> IF Up(t) /\ ctxOf[t] = c THEN "gone" ELSE tab[t]]
    /\ UNCHANGED <<connected, ctxOf, step, page, wants, sent, reused, stray>>

\* browser:close(), or the end of the browser: calls not sent yet fail.
Disconnect ==
    /\ connected
    /\ connected' = FALSE
    /\ sent' \in SUBSET sent
    /\ UNCHANGED <<tab, ctxOf, step, page, wants, context, reused, stray>>

Next ==
    \/ \E h \in Handles :
           \/ \E ctx \in Contexts \cup {DefaultCtx} :
                  \/ \E asked \in BOOLEAN : Reuse(h, ctx, asked)
                  \/ WantNew(h, ctx)
           \/ \E url \in {"blank", "loaded"} : Create(h, url)
           \/ Connect(h) \/ AttachFails(h) \/ Navigate(h) \/ Close(h)
    \/ \E t \in Tabs : TabCloses(t)
    \/ \E c \in Contexts : NewContext(c) \/ Dispose(c)
    \/ Disconnect

Spec == Init /\ [][Next]_vars

-----------------------------------------------------------------------------
\* While the connection stands, an open page keeps its tab, but for a tab that
\* a second attach has reused (the first handle's close closes it, even a
\* close that was called before the attach) and for the end of its context.
PageKeepsTab ==
    \A h \in Handles :
        /\ connected /\ step[h] = "open"
        /\ page[h] \notin reused
        /\ wants[h].ctx \in Contexts => context[wants[h].ctx] = "live"
        => Up(page[h])

\* A page attached in a context is a tab of that context, unless the script
\* has asked for the reuse of a blank tab: by default the reuse never gives it
\* one of the default context or of another.
PageInContext ==
    \A h \in Handles :
        step[h] = "open" /\ wants[h].ctx \in Contexts /\ ~wants[h].asked
        => ctxOf[page[h]] = wants[h].ctx

\* "Reuse existing blank page tab only for the default browser context"
\* (lua/bindings/cdp.rs): a page attached without naming a context is a tab of
\* the default context.  The list of targets is that of all contexts.
DefaultIsDefault ==
    \A h \in Handles :
        step[h] = "open" /\ wants[h].ctx = DefaultCtx
        => ctxOf[page[h]] = DefaultCtx

\* While the connection stands, no tab is left behind: each has a handle, an
\* attach under way or a close under way, but for those of a failed attach.
NoTabIsLeft ==
    connected => \A t \in Tabs :
        Up(t) => \/ t \in sent \cup stray
                 \/ \E h \in Handles : page[h] = t /\ step[h] \in {"created", "open"}
=============================================================================
