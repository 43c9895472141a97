\* Limits of 2 and 3 bytes, bodies of up to 4, chunks of up to 2.
SPECIFICATION Spec
CONSTANTS
    MaxRequestBody = 2
    MaxResponseBody = 3
    LongestBody = 4
    LargestChunk = 2
    NoLength = NoLength
    HopByHop <- MCHopByHop
    Own <- MCOwn
    EndToEnd <- MCEndToEnd
    Connections <- MCConnections
CHECK_DEADLOCK FALSE
INVARIANTS
    TypeOK
    LimitsHold
    EndedMeansWhole
    RefusedOnlyOverLimit
    FailuresCountedOnce
    ClientFaultsStayOut
    HeadIsProxys
PROPERTIES
    ImplementsExchange
