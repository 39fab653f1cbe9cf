CONSTANTS
    Configs = {c1, c2}
    BadConfigs = {bad}
    NoConfig = none
    Half = 3
    Faults = {"late"}
SPECIFICATION Spec
INVARIANT RefusedIsNotStored
