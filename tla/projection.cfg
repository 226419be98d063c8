\* Two threads and one stream, as in production; the worker may hang in the projector.
SPECIFICATION TimedSpec
CONSTANTS
    Sources = {s1}
    Clients = {c1, c2}
    QueueCapacity = 1
    MaxRecords = 2
    Sentinel = Sentinel
    NoItem = NoItem
    NoCall = NoCall
INVARIANTS
    FlushIsServed
    SubmittedIsNotForgotten
PROPERTIES TimedCallsReturn EnqueuedIsProjected
\* Threads may all wait in flush for deferred work nobody resubmits.
CHECK_DEADLOCK FALSE
