---- MODULE BmsSocProofs ----
(* The properties of BmsSoc for every capacity, current and width.           *)
EXTENDS BmsSoc, TLAPS

(* C division: what is taken out and what is left add up, and what is left   *)
(* is smaller than the divisor.                                              *)
LEMMA Division ==
    ASSUME NEW a \in Int, NEW b \in Nat \ {0}
    PROVE  /\ Quotient(a, b) \in Int /\ Remainder(a, b) \in Int
           /\ a = b * Quotient(a, b) + Remainder(a, b)
           /\ - b < Remainder(a, b) /\ Remainder(a, b) < b
<1>1. CASE a >= 0
  <2>1. PICK q \in Int : q = a \div b
    BY <1>1
  <2>2. b * q <= a /\ a < b * q + b
    BY <1>1, <2>1
  <2>3. b * q \in Int
    BY <2>1
  <2> QED
    BY <1>1, <2>1, <2>2, <2>3 DEF Quotient, Remainder
<1>2. CASE a < 0
  <2>1. PICK q \in Int : q = (- a) \div b
    BY <1>2
  <2>2. b * q <= - a /\ - a < b * q + b
    BY <1>2, <2>1
  <2>3. b * q \in Int /\ b * (- q) = - (b * q)
    BY <2>1
  <2> QED
    BY <1>2, <2>1, <2>2, <2>3 DEF Quotient, Remainder
<1> QED
  BY <1>1, <1>2

(* A permille of a capacity is a positive amount of charge.                  *)
LEMMA UnitsArePositive ==
    ASSUME NEW value \in Capacities
    PROVE  value * Unit \in Nat \ {0}
<1>1. PICK v \in Nat \ {0} : v = value
  BY BmsSocAssumption
<1>2. PICK u \in Nat \ {0} : u = Unit
  BY BmsSocAssumption
<1>3. v * u \in Nat \ {0}
  OBVIOUS
<1> QED
  BY <1>1, <1>2, <1>3

LEMMA CountedIsBounded ==
    ASSUME NEW elapsed \in 1 .. MaxElapsed + 1
    PROVE  Counted(elapsed) \in 1 .. MaxElapsed
BY BmsSocAssumption DEF Counted

LEMMA ClampIsBounded ==
    ASSUME NEW value \in Int
    PROVE  Clamp(value) \in 0 .. Full
BY BmsSocAssumption DEF Clamp

(* A sum as the processor leaves it is an integer of the width.              *)
LEMMA WrappedIsInt ==
    ASSUME NEW value \in Int
    PROVE  Wrapped(value) \in Int
<1>1. PICK width \in Nat \ {0} : width = 2 * (MaxInt + 1)
  BY BmsSocAssumption
<1>2. PICK shifted \in Int : shifted = value + MaxInt + 1
  BY BmsSocAssumption
<1>3. shifted % width \in Int
  OBVIOUS
<1> QED
  BY <1>1, <1>2, <1>3, BmsSocAssumption DEF Wrapped

(* A current within Limit moves no more than Limit does in the longest step. *)
LEMMA FlowIsBounded ==
    ASSUME NEW current \in Int, - Limit <= current, current <= Limit, NEW ms \in 1 .. MaxElapsed
    PROVE  /\ current * ms <= Limit * MaxElapsed
           /\ - (Limit * MaxElapsed) <= current * ms
<1>1. PICK top \in Nat : top = Limit
  BY LimitAssumption
<1>2. PICK longest \in Nat : longest = MaxElapsed
  BY BmsSocAssumption
<1>3. ms \in Nat /\ ms <= longest
  BY <1>2
<1>4. (top - current) * ms >= 0 /\ (top + current) * ms >= 0
  BY <1>1, <1>3
<1>5. top * (longest - ms) >= 0
  BY <1>3
<1>6. /\ (top - current) * ms = top * ms - current * ms
      /\ (top + current) * ms = top * ms + current * ms
      /\ top * (longest - ms) = top * longest - top * ms
  BY <1>3
<1>7. PICK a \in Int, b \in Int, c \in Int : a = top * ms /\ b = current * ms /\ c = top * longest
  BY <1>3
<1> QED
  BY <1>1, <1>2, <1>4, <1>5, <1>6, <1>7

------------------------------------------------------------------------------
IInv == TypeOK /\ ChargeIsConserved /\ NumeratorFits

LEMMA InitEstablishes == Init => IInv
<1> SUFFICES ASSUME Init PROVE IInv
  OBVIOUS
<1>1. TypeOK
  <2>1. wrapped \in BOOLEAN
    BY DEF Init
  <2>2. soc \in 0 .. Full /\ capacity \in Capacities /\ {residual, owed, numerator, last} \subseteq Int
    BY DEF Init
  <2> QED
    BY <2>1, <2>2 DEF TypeOK
<1>2. PICK v \in Capacities : TRUE
  BY BmsSocAssumption
<1>3. v * Unit \in Nat \ {0} /\ capacity * Unit \in Nat \ {0}
  BY UnitsArePositive DEF Init
<1>4. ChargeIsConserved
  BY DEF Init, ChargeIsConserved
<1>5. NumeratorFits
  BY <1>2, <1>3, BmsSocAssumption DEF Init, NumeratorFits, Fits
<1> QED
  BY <1>1, <1>4, <1>5 DEF IInv

(* One step of the counter: everything its result is made of.                *)
LEMMA UpdateCounts ==
    ASSUME IInv,
           NEW current \in Currents, NEW elapsed \in 1 .. MaxElapsed + 1,
           NEW ocv \in 0 .. Full, NEW cellsValid \in BOOLEAN,
           Update(current, elapsed, ocv, cellsValid)
    PROVE  IInv'
<1>1. PICK d \in Nat \ {0} : d = capacity * Unit
  BY UnitsArePositive DEF IInv, TypeOK
<1>2. PICK flow \in Int : flow = current * Counted(elapsed)
  BY CountedIsBounded, BmsSocAssumption
<1>3. PICK total \in Int : total = residual + flow
  BY DEF IInv, TypeOK
<1>15. PICK dividend \in Int : dividend = Wrapped(total)
  BY WrappedIsInt
<1>4. PICK q \in Int : q = Quotient(dividend, d)
  BY Division
<1>5. PICK r \in Int : r = Remainder(dividend, d)
  BY Division
<1>6. dividend = d * q + r /\ - d < r /\ r < d
  BY <1>4, <1>5, Division
<1>7. PICK exact \in Int : exact = soc - q
  BY DEF IInv, TypeOK
<1>8. Clamp(exact) \in 0 .. Full
  BY ClampIsBounded
<1>9. Corrected(Clamp(exact), ocv) \in 0 .. Full
  <2>1. ocv - Clamp(exact) \in Int
    BY <1>8
  <2>2. Quotient(ocv - Clamp(exact), Divisor) \in Int
    BY <2>1, Division, BmsSocAssumption
  <2>3. Clamp(exact) + Quotient(ocv - Clamp(exact), Divisor) \in Int
    BY <1>8, <2>2
  <2> QED
    BY <2>3, ClampIsBounded DEF Corrected
<1>10. PICK final \in 0 .. Full :
          final = IF cellsValid /\ Resting(current) THEN Corrected(Clamp(exact), ocv) ELSE Clamp(exact)
  BY <1>8, <1>9
<1>11. /\ soc' = final /\ residual' = r /\ capacity' = capacity
       /\ numerator' = total /\ last' = current
       /\ wrapped' = (final = exact /\ (wrapped \/ ~ Fits(total)))
       /\ owed' = IF wrapped' THEN 0
                  ELSE IF final = exact THEN owed + flow - (soc - final) * d ELSE r
  BY <1>1, <1>2, <1>3, <1>15, <1>4, <1>5, <1>7, <1>10 DEF Update
<1>12. TypeOK'
  <2>1. current \in Int
    BY BmsSocAssumption
  <2>2. owed' \in Int
    <3>1. owed \in Int /\ soc - final \in Int
      BY DEF IInv, TypeOK
    <3>2. (soc - final) * d \in Int
      BY <3>1
    <3> QED
      BY <1>11, <3>1, <3>2
  <2> QED
    BY <1>11, <2>1, <2>2 DEF IInv, TypeOK
<1>13. ChargeIsConserved'
  <2> SUFFICES ASSUME ~ wrapped' PROVE owed' = residual'
    BY DEF ChargeIsConserved
  <2>1. CASE final # exact
    BY <1>11, <2>1
  <2>2. CASE final = exact
    <3>1. ~ wrapped /\ Fits(total)
      BY <1>11, <2>2
    <3>2. dividend = total /\ owed = residual
      BY <1>15, <3>1 DEF Wrapped, IInv, ChargeIsConserved
    <3>3. soc - final = q
      BY <1>7, <2>2 DEF IInv, TypeOK
    <3>4. PICK moved \in Int : moved = d * q
      OBVIOUS
    <3>5. (soc - final) * d = moved
      BY <3>3, <3>4
    <3>6. total = moved + r
      BY <1>6, <3>2, <3>4
    <3>7. owed \in Int
      BY DEF IInv, TypeOK
    <3>8. owed' = owed + flow - moved
      BY <1>11, <2>2, <3>5
    <3> QED
      BY <1>3, <1>11, <3>2, <3>6, <3>7, <3>8
  <2> QED
    BY <2>1, <2>2
<1>14. NumeratorFits'
  <2>1. capacity \in Capacities
    BY DEF IInv, TypeOK
  <2>2. - d < residual' /\ residual' < d
    BY <1>6, <1>11
  <2>3. PICK v \in Capacities : - (v * Unit) < residual /\ residual < v * Unit
    BY DEF IInv, NumeratorFits
  <2>4. ASSUME - Limit <= current, current <= Limit
        PROVE  Fits(total)
    <3>1. PICK most \in Int : most = Limit * MaxElapsed
      BY LimitAssumption, BmsSocAssumption
    <3>2. - most <= flow /\ flow <= most
      BY <1>2, <2>4, <3>1, CountedIsBounded, FlowIsBounded, BmsSocAssumption
    <3>3. PICK w \in Nat : w = v * Unit
      BY UnitsArePositive
    <3>4. w + most <= MaxInt
      BY <3>1, <3>3, LimitAssumption
    <3>5. residual \in Int /\ MaxInt \in Int
      BY BmsSocAssumption DEF IInv, TypeOK
    <3> QED
      BY <1>3, <2>3, <3>2, <3>3, <3>4, <3>5 DEF Fits
  <2> QED
    BY <1>1, <1>11, <2>1, <2>2, <2>4 DEF NumeratorFits
<1> QED
  BY <1>12, <1>13, <1>14 DEF IInv

LEMMA SetPreserves ==
    ASSUME IInv, NEW permil \in 0 .. Full, Set(permil)
    PROVE  IInv'
<1>1. PICK d \in Nat \ {0} : d = capacity * Unit
  BY UnitsArePositive DEF IInv, TypeOK
<1>2. TypeOK'
  <2>1. wrapped' \in BOOLEAN
    BY DEF Set
  <2>2. /\ soc' \in 0 .. Full /\ residual' = 0 /\ owed' = 0
        /\ capacity' = capacity /\ numerator' = numerator /\ last' = last
    BY DEF Set
  <2>3. capacity \in Capacities /\ {residual, owed, numerator, last} \subseteq Int
    BY DEF IInv, TypeOK
  <2>4. {residual', owed', numerator', last'} \subseteq Int
    BY <2>2, <2>3
  <2> QED
    BY <2>1, <2>2, <2>3, <2>4 DEF TypeOK
<1>3. ChargeIsConserved'
  BY DEF Set, ChargeIsConserved
<1>4. NumeratorFits'
  BY <1>1 DEF IInv, TypeOK, Set, NumeratorFits, Fits
<1> QED
  BY <1>2, <1>3, <1>4 DEF IInv

LEMMA SetCapacityPreserves ==
    ASSUME IInv, NEW value \in Capacities, SetCapacity(value)
    PROVE  IInv'
<1>1. TypeOK'
  BY DEF IInv, TypeOK, SetCapacity, history
<1>2. ChargeIsConserved'
  BY DEF IInv, SetCapacity, ChargeIsConserved, history
<1>3. NumeratorFits'
  BY DEF IInv, SetCapacity, NumeratorFits, Fits, history
<1> QED
  BY <1>1, <1>2, <1>3 DEF IInv

LEMMA NextPreserves == IInv /\ [Next]_vars => IInv'
<1> SUFFICES ASSUME IInv, [Next]_vars PROVE IInv'
  OBVIOUS
<1>1. CASE UNCHANGED vars
  BY <1>1 DEF IInv, TypeOK, ChargeIsConserved, NumeratorFits, Fits, history, vars
<1>2. ASSUME NEW permil \in 0 .. Full, Set(permil) PROVE IInv'
  BY <1>2, SetPreserves
<1>3. ASSUME NEW value \in Capacities, SetCapacity(value) PROVE IInv'
  BY <1>3, SetCapacityPreserves
<1>4. ASSUME NEW current \in Currents, NEW elapsed \in 1 .. MaxElapsed + 1, NEW ocv \in 0 .. Full,
             NEW cellsValid \in BOOLEAN, Update(current, elapsed, ocv, cellsValid)
      PROVE  IInv'
  BY <1>4, UpdateCounts
<1> QED
  BY <1>1, <1>2, <1>3, <1>4 DEF Next

LEMMA Invariance == Spec => []IInv
<1> QED
  BY InitEstablishes, NextPreserves, PTL DEF Spec

(* The real numbers: with up to 60 Ah and 5 s between samples, 386 A in      *)
(* either direction leave an int32_t room for the residual (LimitAssumption).*)
LEMMA RealCurrentsFit ==
    ASSUME NEW mah \in 1 .. 60000, NEW ms \in 1 .. 5000,
           NEW ma \in Int, ma <= 386000, - ma <= 386000
    PROVE  mah * 3600 + ma * ms <= 2147483647 /\ mah * 3600 - ma * ms <= 2147483647
<1>1. PICK units \in Int : units = mah * 3600 /\ units <= 216000000
  OBVIOUS
<1>2. PICK flow \in Int : flow = ma * ms
  OBVIOUS
<1>3. PICK most \in Int : most = 386000 * ms /\ most <= 1930000000
  OBVIOUS
<1>4. flow <= most /\ - flow <= most
  <2>1. (386000 - ma) * ms >= 0 /\ (386000 + ma) * ms >= 0
    OBVIOUS
  <2>2. (386000 - ma) * ms = 386000 * ms - ma * ms /\ (386000 + ma) * ms = 386000 * ms + ma * ms
    OBVIOUS
  <2> QED
    BY <1>2, <1>3, <2>1, <2>2
<1>5. most + units <= 2146000000
  BY <1>1, <1>3
<1>6. units + flow <= most + units /\ units - flow <= most + units
  BY <1>1, <1>2, <1>3, <1>4
<1> QED
  BY <1>1, <1>2, <1>5, <1>6

------------------------------------------------------------------------------
(* The SOC stays between empty and full, for all parameters.                 *)
THEOREM SocTypeCorrect == Spec => []TypeOK
<1>1. IInv => TypeOK
  BY DEF IInv
<1> QED
  BY <1>1, Invariance, PTL

(* No rounding of any sequence of steps creates or loses charge, as long as  *)
(* no sum has wrapped, and a change of the capacity does not either.         *)
THEOREM CountingIsExact == Spec => []ChargeIsConserved
<1>1. IInv => ChargeIsConserved
  BY DEF IInv
<1> QED
  BY <1>1, Invariance, PTL

(* The sum of bms_soc_update leaves an int32_t only under a current beyond   *)
(* Limit, whatever the residual and the capacity it comes from. The code     *)
(* does not bound the current: beyond Limit the sum may wrap.                *)
THEOREM OverflowTakesOverload == Spec => []NumeratorFits
<1>1. IInv => NumeratorFits
  BY DEF IInv
<1> QED
  BY <1>1, Invariance, PTL
====
