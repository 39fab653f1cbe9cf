CONSTANTS
    Rules = {"cell_ov", "discharge_temp", "afe_fault"}
    Topologies = {TRUE}
    Delays = {0, 2}
    MaxDelay = 2
    MaxAge = 2
SPECIFICATION Spec
PROPERTY FaultChangesAreLogged
