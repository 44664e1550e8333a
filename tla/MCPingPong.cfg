\* A page that connects three times and may be gone for good then.
SPECIFICATION PingSpec
CONSTANTS
    NumChannels = 3
INVARIANT
    TokensBounded
CHECK_DEADLOCK FALSE
