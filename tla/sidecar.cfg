\* Two calls and a close on one admission slot and one thread; deadlines
\* pass, and the dispatcher may hang or it returns.
SPECIFICATION CallSpec
CONSTANTS
    Requests = {r1, r2}
    Closers = {c1}
    MaxConcurrency = 1
    MaxQueue = 0
INVARIANTS SlotsAreSound WorkEndsWithItsOwner
PROPERTIES  NothingStaysTaken
\* The calls of a run are finitely many.
CHECK_DEADLOCK FALSE
