CONSTANTS
    Configs = {c1, c2}
    BadConfigs = {bad}
    NoConfig = none
    Half = 3
    Faults = {"erase", "write", "program"}
SPECIFICATION Spec
INVARIANTS
    TypeOK
    Recoverable
PROPERTIES
    NewestIsPreserved
    ImplementsRegister
