CONSTANTS
    Configs = {c1, c2}
    BadConfigs = {bad}
    NoConfig = none
    Half = 3
    Faults = {"erase", "write", "program", "late", "boot"}
SPECIFICATION Spec
INVARIANT ConfirmedRecordIntact
