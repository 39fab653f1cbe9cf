CONSTANTS
    Kinds = {"params"}
    MaxRequests = 1
    MaxSessions = 1
    ReadFragments = 2
    NoConfig = none
    Half = 2
    Faults = {}
    SetterFaults = FALSE
    Impatient = FALSE
SPECIFICATION Spec
INVARIANT AcknowledgedIsDurable
