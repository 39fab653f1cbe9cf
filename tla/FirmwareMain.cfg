CONSTANTS
    Kinds = {"read", "params", "name", "bad"}
    MaxRequests = 2
    MaxSessions = 2
    ReadFragments = 2
    NoConfig = none
    Half = 2
    Faults = {"write"}
    SetterFaults = TRUE
    Impatient = TRUE
SPECIFICATION FairSpec
INVARIANTS
    TypeOK
    ParametersMatchStore
    AcknowledgedIsKept
    RefusedIsForgotten
    OnlySecuredSessionsWrite
    AnsweredOnce
    ReadsSeeWrites
PROPERTIES
    EveryRequestMovesOn
    LostToAnotherOnly
