\* Two streams, two lines and one: a failed transaction or a crash, and an
\* edit or a rebuild in place.
SPECIFICATION FairSpec
CONSTANTS
    s1 = s1
    s2 = s2
    e1 = e1
    e2 = e2
    d1 = d1
    h1 = h1
    h2 = h2
    t1 = t1
    t2 = t2
    Sources = {s1, s2}
    Events = {e1, e2, d1}
    Hashes = {h1, h2}
    Traces = {t1, t2}
    NoEvent = NoEvent
    Garbage = Garbage
    Vocabulary <- ValidOrNot
    Failing <- Valid
    MaxLines <- TwoAndOne
    MaxFaults = 1
    MaxRewrites = 1
    MaxRebuilds = 1
    MaxUpheavals = 1
INVARIANTS ResumeIsExact DeletionHolds 
PROPERTIES EveryLineIsConsumed
