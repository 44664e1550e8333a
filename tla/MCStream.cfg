\* Two callers, three samples.  The state space is finite without a bound.
SPECIFICATION FairSpec
CONSTANTS
    main = main
    exit = exit
    Caller <- MCCaller
    NumSamples = 3
INVARIANTS
    TypeOK
    ChainsBounded
    ChainAlive
PROPERTIES
    StarvesOnlyByTurns
    ImplementsPlayer
    UsesSource
