---- MODULE BmsSoc ----
(* core/bms_soc.c: the state of charge counts the current in whole permille  *)
(* and carries what is left over, saturates at empty and full, and moves     *)
(* towards the open-circuit voltage at rest. All of it in the integers of C. *)
EXTENDS Integers

CONSTANTS Full,         \* BMS_SOC_PERMIL_MAX
          Capacities,   \* nominal_capacity_mah: the range of the parameter
          Unit,         \* mA ms in a permille of 1 mAh
          Currents,     \* current_ma, positive when discharging
          MaxElapsed,   \* ms that count at most between two steps
          Rest,         \* BMS_SOC_REST_CURRENT_MA
          Divisor,      \* the share of the difference a correction takes
          MaxInt,       \* the largest int32_t
          Limit         \* a current that leaves room for the residual

ASSUME BmsSocAssumption ==
    /\ {Full, Unit, MaxElapsed, Divisor} \subseteq Nat \ {0}
    /\ Capacities \subseteq Nat \ {0} /\ Capacities # {}
    /\ Currents \subseteq Int /\ Rest \in Nat /\ MaxInt \in Nat

(* Limit is no bound of the code, which takes any current: it is how far the *)
(* arithmetic reaches. 386 A does for the real numbers (RealCurrentsFit).    *)
ASSUME LimitAssumption ==
    Limit \in Nat /\ \A capacity \in Capacities : capacity * Unit + Limit * MaxElapsed <= MaxInt

VARIABLES soc, residual, capacity,
          owed,       \* history: the charge that flowed and did not move the SOC
          wrapped,    \* history: a sum has wrapped since the SOC was anchored
          numerator,  \* history: the sum of the last step, before it wrapped
          last        \* history: the current of the last step

history == <<owed, wrapped, numerator, last>>
vars == <<soc, residual, capacity, history>>

BugClamp(value) == IF value <= 0 THEN 0 ELSE value
Clamp(value) == IF value <= 0 THEN 0 ELSE IF value >= Full THEN Full ELSE value

(* / and % of C, which round towards 0.                                      *)
Quotient(a, b) == IF a >= 0 THEN a \div b ELSE - ((- a) \div b)
BugRemainder(a, b) == 0
Remainder(a, b) == a - b * Quotient(a, b)

(* A sum beyond an int32_t is undefined in C; the processor wraps it.        *)
Fits(value) == - MaxInt - 1 <= value /\ value <= MaxInt
Wrapped(value) == IF Fits(value) THEN value
                  ELSE ((value + MaxInt + 1) % (2 * (MaxInt + 1))) - (MaxInt + 1)

(* bms_soc_init, with what is stored as the initial SOC.                     *)
Init == /\ soc \in 0 .. Full /\ capacity \in Capacities
        /\ residual = 0
        /\ owed = 0 /\ wrapped = FALSE /\ numerator = 0 /\ last = 0

(* bms_soc_set.                                                              *)
Set(permil) == /\ permil \in 0 .. Full
               /\ soc' = permil /\ residual' = 0
               /\ owed' = 0 /\ wrapped' = FALSE
               /\ UNCHANGED <<capacity, numerator, last>>

(* A parameter write leaves the residual as it is: an amount of charge.      *)
SetCapacity(value) == /\ capacity' = value
                      /\ UNCHANGED <<soc, residual, history>>

BugCounted(elapsed) == elapsed
Counted(elapsed) == IF elapsed > MaxElapsed THEN MaxElapsed ELSE elapsed
Resting(current) == - Rest <= current /\ current <= Rest
Corrected(value, ocv) == Clamp(value + Quotient(ocv - value, Divisor))

(* bms_soc_update with a valid current and some time elapsed: without either *)
(* it changes nothing. ocv is the clamped permille of the lowest cell. The   *)
(* account starts anew where the SOC is not what was counted, saturated or   *)
(* corrected, and is not kept after a sum that wrapped.                      *)
Update(current, elapsed, ocv, cellsValid) ==
    LET flow == current * Counted(elapsed)
        dividend == Wrapped(residual + flow)
        exact == soc - Quotient(dividend, capacity * Unit)
        counted == Clamp(exact)
        final == IF cellsValid /\ Resting(current) THEN Corrected(counted, ocv) ELSE counted
    IN  /\ numerator' = residual + flow /\ last' = current
        /\ residual' = Remainder(dividend, capacity * Unit)
        /\ soc' = final
        /\ wrapped' = (final = exact /\ (wrapped \/ ~ Fits(numerator')))
        /\ owed' = IF wrapped' THEN 0
                   ELSE IF final = exact THEN owed + flow - (soc - final) * (capacity * Unit)
                   ELSE residual'
        /\ UNCHANGED capacity

Next == \/ \E permil \in 0 .. Full : Set(permil)
        \/ \E value \in Capacities : SetCapacity(value)
        \/ \E current \in Currents, elapsed \in 1 .. MaxElapsed + 1, ocv \in 0 .. Full, cellsValid \in BOOLEAN :
              Update(current, elapsed, ocv, cellsValid)

Spec == Init /\ [][Next]_vars

------------------------------------------------------------------------------
TypeOK == /\ soc \in 0 .. Full
          /\ capacity \in Capacities
          /\ {residual, owed, numerator, last} \subseteq Int
          /\ wrapped \in BOOLEAN

(* No charge is lost to rounding: of the charge that flowed since the SOC    *)
(* was last set, saturated or corrected, what has not moved the SOC, each    *)
(* permille at the capacity of its step, is the residual, also when the      *)
(* capacity has changed since (bms_soc_update, any sequence of currents).    *)
ChargeIsConserved == ~ wrapped => owed = residual

(* What is carried over is less than one permille of some capacity that was  *)
(* in force, and the sum formed with it leaves int32_t only under a current  *)
(* beyond Limit (bms_soc_update, charge_residual_ma_ms).                     *)
NumeratorFits == /\ \E value \in Capacities : - (value * Unit) < residual /\ residual < value * Unit
                 /\ - Limit <= last /\ last <= Limit => Fits(numerator)
====
