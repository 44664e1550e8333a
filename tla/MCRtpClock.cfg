\* Every start of a time stamp of six bits, samples of three ticks, seconds of
\* twelve, so that a sample falls on a second; the viewer joins before or after
\* the time has wrapped.
SPECIFICATION ClockSpec
CONSTANTS
    Modulus = 64
    Rate = 12
    Frame = 3
    MaxLate = 21
INVARIANTS
    ReportedInTime
    KeyFrameIsOlder
