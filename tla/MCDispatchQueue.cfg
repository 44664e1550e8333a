\* Two workers, two outside callers, four operations.
SPECIFICATION FairSpec
CONSTANTS
    w1 = w1
    w2 = w2
    c1 = c1
    c2 = c2
    None = None
    Worker <- MCWorker
    Caller <- MCCaller
    MaxOps = 4
INVARIANTS
    TypeOK
    WorkConserving
PROPERTIES
    DestructorReturns
    ImplementsExecutor
