\* Up to three threads that wait, and one that signals or broadcasts.
SPECIFICATION Spec
CONSTANTS
    Waiters = {a, b, c}
    Signalers = {s}
    Null = Null
    Starts <- MCStarts
    MaxBreaks = 1
SYMMETRY Symmetry
INVARIANTS
    TypeOK
    NoDangling
    NoLostWakeup
    WaitersBalanced
PROPERTY
    ImplementsQueue
CHECK_DEADLOCK FALSE
