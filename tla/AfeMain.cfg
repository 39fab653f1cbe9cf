CONSTANTS
    Cells <- MCCells
    Connected <- MCConnected
    RegisterOf <- MCRegisterOf
    Commands <- MCCommands
    Flag1 = {"sc", "ov"}
    Flag2 = {"wdt"}
    AllowPower = TRUE
    AllowBalance = TRUE
SPECIFICATION Spec
INVARIANT TypeOK
PROPERTIES
    ImplementsContract
    NoFaultIsLost
    ClearIsEffective
    SharedRegistersKept
