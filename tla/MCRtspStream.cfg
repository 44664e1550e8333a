\* Three starts, four samples, a capture that may fail, with fairness.  The
\* source may fall silent.
SPECIFICATION FairSpec
CONSTANTS
    MaxStarts = 3
    MaxSamples = 4
    Faults <- MCFaults
INVARIANTS
    NoneLostInQueue
    SleepsOnlyWithoutData
    NoFlowAfterStop
PROPERTIES
    StopWaitsOnlyForData
    FirstStartCaptures
CHECK_DEADLOCK FALSE
