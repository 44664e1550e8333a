\* Two key frames, each followed by another sample, 30 samples per second, a
\* counter that wraps at 7, times that wrap after 31 samples.
SPECIFICATION H264Spec
CONSTANTS
    Units <- MCUnits
    NumFiles = 4
    SamplesPerSecond = 30
    Loop = TRUE
    MaxCounter = 6
    TimeModulus = 1033323
INVARIANTS
    TypeOK
    CacheIsKeyFrame
    WholeWhenStopped
PROPERTY
    ImplementsSource
