\* Two pages, two requests, both inputs.  The program may be idle for good.
\* The pages are alike; the constraint leaves out half of the states for that.
SPECIFICATION FairSpec
CONSTANTS
    alice = alice
    bob = bob
    Id <- MCId
    MaxRequests = 2
    InputTypes <- MCBoth
INVARIANTS
    TypeOK
    ReadyIsServed
    RtpConfigOwned
    SendsToOpenTracks
    EraseScheduled
PROPERTIES
    EndsOnlyWhen
    ErasesLiveOnlyByReuse
    OpenedIsAdmitted
    StreamStopsAtLast
ACTION_CONSTRAINT
    MCAliceFirst
CHECK_DEADLOCK FALSE
