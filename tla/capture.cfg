\* Two processes, two identities, two contents.
CONSTANTS
    Procs = {p1, p2}
    EventIds = {e1, e2}
    Hashes = {h1, h2}
    NoProc = NoProc
    NoEvent = NoEvent
    NoAnswer = NoAnswer
    Malformed = Malformed
SPECIFICATION FairSpec
INVARIANTS LogIsSound
PROPERTIES ImplementsCanonicalLog LockIsReleased
