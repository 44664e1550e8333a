\* Both inputs, up to three operations that wait, with fairness.
SPECIFICATION FairSpec
CONSTANTS
    InputTypes <- MCBoth
    MaxOps = 3
INVARIANTS
    StreamUsesLivingObjects
    NoThreadLeft
    QuietExitUsesLivingObjects
PROPERTIES
    ExitReturns
CHECK_DEADLOCK FALSE
