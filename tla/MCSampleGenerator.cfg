\* Every stream of up to ten bytes: two start codes with units around them fit.
SPECIFICATION GenSpec
CONSTANTS
    Byte <- MCByte
    MaxSize = 10
INVARIANTS
    OnlyTheLastUnitTwice
    UnitsKept
    OneSlicePerFile
    ParsesBack
