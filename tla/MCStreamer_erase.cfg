\* One page, two requests.
SPECIFICATION Spec
CONSTANTS
    alice = alice
    bob = bob
    Id <- MCOneId
    MaxRequests = 2
    InputTypes <- MCFile
PROPERTY
    ErasesOnlyGoneClients
CHECK_DEADLOCK FALSE
