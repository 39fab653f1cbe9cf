CONSTANTS
    Rules = {"charge_oc", "discharge_oc", "afe_fault"}
    Topologies = {TRUE, FALSE}
    Delays = {0, 2}
    MaxDelay = 2
    MaxAge = 2
SPECIFICATION Spec
INVARIANTS
    TypeOK
    ReportsTheHardware
    ProtectedPathIsOpen
PROPERTIES
    ReleasedInBand
    ActsInTime
