CONSTANTS
    Commands = {"read", "write"}
    LongPayload = 5
    FragmentSize = 4
    MaxRequests = 4
    MaxSessions = 2
    MaxLosses = 1
CHECK_DEADLOCK FALSE
SPECIFICATION Spec
INVARIANTS
    TypeOK
    HandledWhole
    
    
    AnswerIsOwn
