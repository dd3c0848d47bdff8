\* Calls, waiters, the two loops, close() and a disconnect in any order.
\* When all of them have ended nothing is left to do.
SPECIFICATION FairSpec
CONSTANTS
    c1 = c1
    c2 = c2
    w1 = w1
    s1 = s1
    Keys <- OneSession
    Calls <- TwoCalls
    Waiters <- OneWaiter
    Sessions <- OneSession
    Key <- KeyOf
    Timed <- OneWaiter
    MaxEvents = 2
INVARIANTS
    AnswersMatch
    CloseAnswersAll
    EventsInOrder
PROPERTIES
    CallsEnd
CHECK_DEADLOCK FALSE
