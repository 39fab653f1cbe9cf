CONSTANTS
    Total = 5
    Page = 3
    Pairs <- MCPairs
    Range <- MCRange
    Defaults <- MCDefaults
    Capacity = 4
    EventPage = 2
    Writes <- MCWrites
    Protections = {0, 1}
    SocValues = {0, 500}
    MaxEvents = 7
SPECIFICATION Spec
INVARIANTS
    TypeOK
    ReadPairsConsistent
    GapsAreBounded
PROPERTIES
    ImplementsBoundedLog
