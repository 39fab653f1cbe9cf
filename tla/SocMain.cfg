CONSTANTS
    Full = 6
    Capacities = {1, 2}
    Unit = 4
    Currents <- MCCurrents
    MaxElapsed = 2
    Rest = 1
    Divisor = 2
    MaxInt = 15
    Limit = 3
SPECIFICATION Spec
INVARIANTS TypeOK ChargeIsConserved NumeratorFits
