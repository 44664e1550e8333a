\* One start, one sample.
SPECIFICATION Spec
CONSTANTS
    MaxStarts = 1
    MaxSamples = 1
    Faults <- MCNoFaults
INVARIANT
    NoUseAfterRelease
CHECK_DEADLOCK FALSE
