---- MODULE BmsPlatformProofs ----
(* For every set of rules that has "afe_fault" in it, every set of delays    *)
(* and either power topology: a reported power path or balance state is the  *)
(* hardware's, an accepted power command keeps protected paths open, and a   *)
(* condition evaluated for the delay has tripped its rule, which no shorter  *)
(* one does.                                                                 *)
EXTENDS BmsPlatform, TLAPS

(* The time a rule has been asserted stays a time within the longest delay.  *)
LEMMA AssertedBound ==
    ASSUME NEW before \in 0 .. MaxDelay, NEW zone, NEW d \in 0 .. MaxDelay, NEW elapsed \in Nat
    PROVE  Asserted(before, zone, d, elapsed) \in 0 .. MaxDelay
BY BmsPlatformAssumption DEF Asserted

LEMMA DelayBound ==
    ASSUME TypeOK, NEW q
    PROVE  DelayOf(q, delay) \in 0 .. MaxDelay
BY BmsPlatformAssumption DEF TypeOK, DelayOf

LEMMA PowerCommandType ==
    ASSUME NEW a, NEW s
    PROVE  PowerCommand(s, a) \in Paths
BY DEF PowerCommand, SharedPort, Paths

LEMMA ElapsedNat == TypeOK => Elapsed \in Nat
BY BmsPlatformAssumption DEF TypeOK, Elapsed

LEMMA EvaluateType ==
    ASSUME TypeOK, NEW r, NEW f, Evaluate(r, f)
    PROVE  asserted' \in [Rules -> 0 .. MaxDelay] /\ active' \subseteq Rules
<1>1. \A q \in Rules : asserted[q] \in 0 .. MaxDelay BY DEF TypeOK
<1>2. \A q \in Rules : Asserted(asserted[q], ZoneOf(q, r, f), DelayOf(q, delay), Elapsed) \in 0 .. MaxDelay
  BY <1>1, DelayBound, ElapsedNat, AssertedBound
<1>3. QED BY <1>2 DEF Evaluate

LEMMA LongerType ==
    ASSUME TypeOK, NEW time \in Nat
    PROVE  Longer(time) \in 0 .. MaxDelay
BY ElapsedNat, BmsPlatformAssumption DEF Longer

LEMMA SinceLonger == TypeOK => \A q \in Sensed : Longer(since[q]) \in 0 .. MaxDelay
<1> SUFFICES ASSUME TypeOK, NEW q \in Sensed PROVE Longer(since[q]) \in 0 .. MaxDelay OBVIOUS
<1>1. since[q] \in Nat BY BmsPlatformAssumption DEF TypeOK
<1>2. QED BY <1>1, LongerType

LEMMA ObserveType ==
    ASSUME TypeOK, NEW r, Observe(r)
    PROVE  observed' \in [Sensed -> -1 .. MaxDelay] /\ since' \in [Sensed -> 0 .. MaxDelay]
<1>1. \A q \in Sensed : observed[q] # -1 => Longer(observed[q]) \in 0 .. MaxDelay
  <2> SUFFICES ASSUME NEW q \in Sensed, observed[q] # -1 PROVE Longer(observed[q]) \in 0 .. MaxDelay OBVIOUS
  <2>1. observed[q] \in Nat BY BmsPlatformAssumption DEF TypeOK
  <2>2. QED BY <2>1, LongerType
<1>2. observed' \in [Sensed -> -1 .. MaxDelay] BY <1>1, BmsPlatformAssumption DEF Observe
<1>3. since' \in [Sensed -> 0 .. MaxDelay] BY SinceLonger, BmsPlatformAssumption DEF Observe
<1>4. QED BY <1>2, <1>3

(* Whatever the AFE answers, power paths stay power paths and flags Boolean. *)
LEMMA DrivePowerType ==
    ASSUME TypeOK, NEW status, DrivePower(status)
    PROVE  power' \in Paths /\ hwPower' \subseteq Paths /\ driven' \in BOOLEAN
BY PowerCommandType DEF TypeOK, DrivePower, Reported, Driven

LEMMA DriveBalanceType ==
    ASSUME TypeOK, NEW r, NEW status, DriveBalance(r, status)
    PROVE  balancing' \in BOOLEAN /\ hwBalancing' \subseteq BOOLEAN
BY DEF TypeOK, DriveBalance, BalanceRequests, Reported, BalanceDriven, Driven

LEMMA StepEventsType ==
    ASSUME NEW f
    PROVE  StepEvents(f) \subseteq Events
BY DEF StepEvents, Change, Events

(* The state is a state of the types given, whatever the AFE answers.        *)
THEOREM PlatformTypeCorrect == Spec => []TypeOK
<1>1. Init => TypeOK
  <2> SUFFICES ASSUME Init PROVE TypeOK OBVIOUS
  <2>1. reading \in [Sensed -> Zones] /\ faults \in FaultFlags BY DEF Init, Zones, FaultFlags
  <2>2. asserted \in [Rules -> 0 .. MaxDelay] /\ observed \in [Sensed -> -1 .. MaxDelay]
        /\ since \in [Sensed -> 0 .. MaxDelay]
    BY BmsPlatformAssumption DEF Init
  <2>3. power \in Paths /\ hwPower \subseteq Paths BY DEF Init, NoPath, Paths
  <2>4. age \in 0 .. MaxAge BY BmsPlatformAssumption DEF Init
  <2>5. QED BY <2>1, <2>2, <2>3, <2>4 DEF Init, TypeOK
<1>2. TypeOK /\ [Next]_vars => TypeOK'
  <2> SUFFICES ASSUME TypeOK, [Next]_vars PROVE TypeOK' OBVIOUS
  <2>0. shared' = shared BY DEF Next, vars
  <2>1. CASE Start
    BY <2>0, <2>1 DEF TypeOK, Start, NoPoll, realtime, hw, history
  <2>2. CASE Tick
    BY <2>0, <2>2, BmsPlatformAssumption DEF TypeOK, Tick, NoPoll, realtime, hw, history
  <2>3. ASSUME NEW d \in Delays, SetParameters(d) PROVE TypeOK'
    BY <2>0, <2>3 DEF TypeOK, SetParameters, NoPoll, realtime, hw, history, Events
  <2>4. CASE PollRefused
    BY <2>0, <2>4 DEF TypeOK, PollRefused, realtime, hw, history
  <2>5. ASSUME NEW status \in Failures, MeasurementFails(status) PROVE TypeOK'
    BY <2>0, <2>5 DEF TypeOK, MeasurementFails, AfterFailure, realtime, hw, history
  <2>6. ASSUME NEW r \in Readings, NEW status \in Failures, FaultReadFails(r, status) PROVE TypeOK'
    BY <2>0, <2>6, BmsPlatformAssumption DEF TypeOK, FaultReadFails, AfterFailure, Readings, hw, history
  <2>7. ASSUME NEW r \in Readings, NEW f \in FaultFlags, Evaluated(r, f) PROVE TypeOK'
    <3>1. asserted' \in [Rules -> 0 .. MaxDelay] /\ active' \subseteq Rules
      BY <2>7, EvaluateType DEF Evaluated
    <3>2. observed' \in [Sensed -> -1 .. MaxDelay] /\ since' \in [Sensed -> 0 .. MaxDelay]
      BY <2>7, ObserveType DEF Evaluated
    <3>3. logged' \subseteq Events BY <2>7, StepEventsType DEF Evaluated
    <3>4. power' \in Paths /\ hwPower' \subseteq Paths /\ driven' \in BOOLEAN
      BY <2>7, DrivePowerType DEF Evaluated
    <3>5. balancing' \in BOOLEAN /\ hwBalancing' \subseteq BOOLEAN
      BY <2>7, DriveBalanceType DEF Evaluated, TypeOK
    <3>6. /\ state' \in {"reset", "ready", "afe_error"}
          /\ result' \in {"none", "ok", "state", "measurement", "faults", "power", "balance"}
      BY <2>7 DEF Evaluated
    <3>7. sampled' \in BOOLEAN /\ age' \in 0 .. MaxAge /\ faults' \in FaultFlags /\ delay' \in Delays
      BY <2>7, BmsPlatformAssumption DEF Evaluated, TypeOK
    <3>8. reading' \in [Sensed -> Zones] BY <2>7 DEF Evaluated, Readings
    <3>9. QED BY <2>0, <3>1, <3>2, <3>3, <3>4, <3>5, <3>6, <3>7, <3>8 DEF TypeOK
  <2>8. CASE UNCHANGED vars
    BY <2>0, <2>8 DEF TypeOK, vars, realtime, hw, history
  <2>9. QED BY <2>1, <2>2, <2>3, <2>4, <2>5, <2>6, <2>7, <2>8 DEF Next, Poll
<1>3. QED BY <1>1, <1>2, PTL DEF Spec
------------------------------------------------------------------------------
(* A drive that is not an error leaves what is reported and what is driven   *)
(* in agreement if they agreed before, or nothing was known.                 *)
LEMMA AgreementKept ==
    ASSUME NEW status \in {"ok", "refused"}, NEW new, NEW old, NEW any, NEW drives \in {any, {old}}
    PROVE  Driven(status, new, drives) \in {any, {Reported(status, new, old)}}
BY DEF Driven, Reported

(* While the platform is ready and once a command was accepted, realtime     *)
(* reports the power path and the balance switches as the AFE drives them.   *)
THEOREM ReportIsTrue == Spec => []ReportsTheHardware
<1>. DEFINE Agrees == state \in {"reset", "ready"} => /\ hwPower \in {Paths, {power}}
                                                      /\ hwBalancing \in {BOOLEAN, {balancing}}
<1>1. Init => Agrees BY DEF Init
<1>2. Agrees /\ [Next]_vars => Agrees'
  <2> SUFFICES ASSUME Agrees, [Next]_vars PROVE Agrees' OBVIOUS
  <2>1. CASE Start BY <2>1 DEF Start, realtime, hw, history
  <2>2. CASE Tick BY <2>2 DEF Tick, realtime, hw, history
  <2>3. ASSUME NEW d \in Delays, SetParameters(d) PROVE Agrees'
    BY <2>3 DEF SetParameters, realtime, hw, history
  <2>4. CASE PollRefused BY <2>4 DEF PollRefused, realtime, hw, history
  <2>5. ASSUME NEW status \in Failures, MeasurementFails(status) PROVE Agrees'
    BY <2>5 DEF MeasurementFails, AfterFailure, realtime, hw, history
  <2>6. ASSUME NEW r \in Readings, NEW status \in Failures, FaultReadFails(r, status) PROVE Agrees'
    BY <2>6 DEF FaultReadFails, AfterFailure, hw
  <2>7. ASSUME NEW r \in Readings, NEW f \in FaultFlags, Evaluated(r, f), state' = "ready" PROVE Agrees'
    <3>1. PICK p \in {"ok", "refused"}, b \in {"ok", "refused"} : DrivePower(p) /\ DriveBalance(r, b)
      BY <2>7 DEF Evaluated
    <3>2. hwPower \in {Paths, {power}} /\ hwBalancing \in {BOOLEAN, {balancing}}
      BY <2>7 DEF Evaluated
    <3>3. hwPower' \in {Paths, {power'}} BY <3>1, <3>2, AgreementKept DEF DrivePower
    <3>4. hwBalancing' \in {BOOLEAN, {balancing'}}
      <4>1. PICK request \in BOOLEAN : /\ balancing' = Reported(b, request, balancing)
                                       /\ hwBalancing' = BalanceDriven(b, request, hwBalancing)
        BY <3>1 DEF DriveBalance, BalanceRequests
      <4>2. BalanceDriven(b, request, hwBalancing) = Driven(b, request, hwBalancing)
        BY DEF BalanceDriven
      <4>3. CASE b = "ok"
        <5>1. balancing' = request /\ hwBalancing' = {request}
          BY <4>1, <4>2, <4>3 DEF Reported, Driven
        <5>2. QED BY <5>1
      <4>4. CASE b = "refused"
        <5>1. balancing' = balancing /\ hwBalancing' = hwBalancing
          BY <4>1, <4>2, <4>4 DEF Reported, Driven
        <5>2. QED BY <3>2, <5>1
      <4>5. QED BY <4>3, <4>4
    <3>5. QED BY <3>3, <3>4
  <2>8. ASSUME NEW r \in Readings, NEW f \in FaultFlags, Evaluated(r, f) PROVE state' \in {"ready", "afe_error"}
    BY <2>8 DEF Evaluated
  <2>9. CASE UNCHANGED vars BY <2>9 DEF vars, realtime, hw, history
  <2>10. QED BY <2>1, <2>2, <2>3, <2>4, <2>5, <2>6, <2>7, <2>8, <2>9 DEF Next, Poll
<1>3. Agrees => ReportsTheHardware BY DEF ReportsTheHardware
<1>4. QED BY <1>1, <1>2, <1>3, PTL DEF Spec

(* A power command closes no path an active rule blocks, and closes both     *)
(* paths of a shared port or neither.                                        *)
LEMMA CommandIsSafe ==
    ASSUME NEW a, NEW s
    PROVE  LET c == PowerCommand(s, a)
           IN  /\ c.charge => a \cap BlocksCharge = {}
               /\ c.discharge => a \cap BlocksDischarge = {}
               /\ s => c.charge = c.discharge
BY DEF PowerCommand, SharedPort

(* While the last power command was accepted, no path an active rule blocks  *)
(* is closed, and a shared port is closed in both directions or in neither.  *)
THEOREM ProtectionOpensThePath == Spec => []ProtectedPathIsOpen
<1>. DEFINE Safe == driven =>
        \A path \in hwPower : /\ path.charge => active \cap BlocksCharge = {}
                              /\ path.discharge => active \cap BlocksDischarge = {}
                              /\ shared => path.charge = path.discharge
<1>1. Init => Safe BY DEF Init
<1>2. Safe /\ [Next]_vars => Safe'
  <2> SUFFICES ASSUME Safe, [Next]_vars PROVE Safe' OBVIOUS
  <2>. shared' = shared BY DEF Next, vars
  <2>1. CASE UNCHANGED <<active, hwPower, driven>> BY <2>1
  <2>2. ASSUME NEW r \in Readings, NEW f \in FaultFlags, Evaluated(r, f) PROVE Safe'
    <3>1. PICK p \in {"ok", "refused", "error"} : DrivePower(p) BY <2>2 DEF Evaluated
    <3>2. CASE p = "ok"
      <4>1. hwPower' = {PowerCommand(shared, active')} BY <3>1, <3>2 DEF DrivePower, Driven
      <4>2. QED BY <4>1, CommandIsSafe
    <3>3. CASE p # "ok" BY <3>1, <3>3 DEF DrivePower
    <3>4. QED BY <3>2, <3>3
  <2>3. QED
    BY <2>1, <2>2 DEF Next, Poll, Start, Tick, SetParameters, PollRefused, MeasurementFails, FaultReadFails,
                      vars, realtime, hw, history
<1>3. Safe => ProtectedPathIsOpen BY DEF ProtectedPathIsOpen
<1>4. QED BY <1>1, <1>2, <1>3, PTL DEF Spec

------------------------------------------------------------------------------
(* A condition evaluated without a break has either tripped its rule or been *)
(* counted by the rule for at least as long: a delay lowered in the meantime *)
(* trips the rule, one raised later does not take that back.                 *)
Counted == \A q \in Sensed : observed[q] # -1 => q \in active \/ asserted[q] >= observed[q]

(* The rule keeps up with the observation over one evaluation.               *)
LEMMA CountKeepsUp ==
    ASSUME NEW a \in Nat, NEW o \in Nat \union {-1}, NEW d \in 0 .. MaxDelay, NEW e \in Nat, NEW now,
           now = IF o = -1 THEN 0 ELSE IF o + e > MaxDelay THEN MaxDelay ELSE o + e,
           o # -1 => a >= o
    PROVE  Asserted(a, "trip", d, e) >= now \/ Asserted(a, "trip", d, e) >= d
BY BmsPlatformAssumption DEF Asserted, Trips

(* What one evaluation does to a rule that is tripping: it is active, or it  *)
(* has been counted for as long as observed says, which is not the delay.    *)
LEMMA EvaluationCounts ==
    ASSUME TypeOK, Counted, NEW r \in Readings, NEW f, Evaluate(r, f), Observe(r),
           NEW q \in Sensed, observed'[q] # -1
    PROVE  q \in active' \/ (asserted'[q] >= observed'[q] /\ asserted'[q] < delay)
<1>1. r[q] = "trip" BY DEF Observe
<1>2. q \in Rules /\ q # "afe_fault" BY DEF Sensed
<1>3. ZoneOf(q, r, f) = "trip" /\ DelayOf(q, delay) = delay BY <1>1, <1>2 DEF ZoneOf, DelayOf
<1>4. asserted'[q] = Asserted(asserted[q], "trip", delay, Elapsed) BY <1>2, <1>3 DEF Evaluate
<1>5. q \in active' <=> q \in active \/ asserted'[q] >= delay
  BY <1>2, <1>3 DEF Evaluate, IsActive, Trips
<1>6. observed'[q] = IF observed[q] = -1 THEN 0
                     ELSE IF observed[q] + Elapsed > MaxDelay THEN MaxDelay ELSE observed[q] + Elapsed
  BY <1>1 DEF Observe, Longer
<1>7. asserted[q] \in Nat /\ observed[q] \in Nat \union {-1} /\ delay \in 0 .. MaxDelay /\ asserted'[q] \in Nat
  <2>1. asserted[q] \in 0 .. MaxDelay /\ observed[q] \in -1 .. MaxDelay BY <1>2 DEF TypeOK
  <2>2. asserted'[q] \in 0 .. MaxDelay BY <1>2, EvaluateType
  <2>3. delay \in 0 .. MaxDelay BY BmsPlatformAssumption DEF TypeOK
  <2>4. QED BY <2>1, <2>2, <2>3, BmsPlatformAssumption
<1>8. CASE q \in active BY <1>5, <1>8
<1>9. CASE q \notin active
  <2>1. observed[q] # -1 => asserted[q] >= observed[q] BY <1>9 DEF Counted
  <2>2. asserted'[q] >= observed'[q] \/ asserted'[q] >= delay
    BY <2>1, <1>4, <1>6, <1>7, ElapsedNat, CountKeepsUp
  <2>3. delay \in Nat BY <1>7, BmsPlatformAssumption
  <2>4. QED BY <2>2, <2>3, <1>5, <1>7
<1>10. QED BY <1>8, <1>9

LEMMA CountedInitially == Init => Counted
BY DEF Init, Counted

LEMMA CountedPreserved == TypeOK /\ Counted /\ [Next]_vars => Counted'
<1> SUFFICES ASSUME TypeOK, Counted, [Next]_vars PROVE Counted' OBVIOUS
<1>1. CASE UNCHANGED <<observed, active, asserted>> BY <1>1 DEF Counted
<1>2. ASSUME NEW r \in Readings, NEW f \in FaultFlags, Evaluated(r, f) PROVE Counted'
  BY <1>2, EvaluationCounts DEF Evaluated, Counted
<1>3. QED
  BY <1>1, <1>2 DEF Next, Poll, Start, Tick, SetParameters, PollRefused, MeasurementFails, FaultReadFails,
                    vars, realtime, hw, history

(* A rule never counts more than the evaluated time since it was last        *)
(* without its condition.                                                    *)
NeverAhead == \A q \in Sensed : asserted[q] <= since[q]

LEMMA NotAheadInitially == Init => NeverAhead
BY DEF Init, NeverAhead, Sensed

LEMMA CountNotAhead ==
    ASSUME NEW a \in 0 .. MaxDelay, NEW s \in 0 .. MaxDelay, NEW d \in 0 .. MaxDelay, NEW e \in Nat, a <= s
    PROVE  Asserted(a, "trip", d, e) <= IF s + e > MaxDelay THEN MaxDelay ELSE s + e
BY BmsPlatformAssumption DEF Asserted, Trips

LEMMA EvaluationNotAhead ==
    ASSUME TypeOK, NeverAhead, NEW r \in Readings, NEW f, Evaluate(r, f), Observe(r)
    PROVE  NeverAhead'
<1> SUFFICES ASSUME NEW q \in Sensed PROVE asserted'[q] <= since'[q] BY DEF NeverAhead
<1>1. q \in Rules /\ q # "afe_fault" BY DEF Sensed
<1>2. ZoneOf(q, r, f) = r[q] /\ DelayOf(q, delay) = delay BY <1>1 DEF ZoneOf, DelayOf
<1>3. asserted'[q] = Asserted(asserted[q], r[q], delay, Elapsed) BY <1>1, <1>2 DEF Evaluate
<1>4. CASE r[q] = "trip"
  <2>1. since'[q] = IF since[q] + Elapsed > MaxDelay THEN MaxDelay ELSE since[q] + Elapsed
    BY <1>4 DEF Observe, Longer
  <2>2. asserted[q] \in 0 .. MaxDelay /\ since[q] \in 0 .. MaxDelay BY <1>1 DEF TypeOK
  <2>3. delay \in 0 .. MaxDelay BY BmsPlatformAssumption DEF TypeOK
  <2>4. asserted[q] <= since[q] BY DEF NeverAhead
  <2>5. QED BY <2>1, <2>2, <2>3, <2>4, <1>3, <1>4, ElapsedNat, CountNotAhead
<1>5. CASE r[q] # "trip"
  <2>1. asserted'[q] = 0 BY <1>3, <1>5 DEF Asserted, Trips
  <2>2. since'[q] = 0 BY <1>5 DEF Observe
  <2>3. QED BY <2>1, <2>2
<1>6. QED BY <1>4, <1>5

LEMMA NotAheadPreserved == TypeOK /\ NeverAhead /\ [Next]_vars => NeverAhead'
<1> SUFFICES ASSUME TypeOK, NeverAhead, [Next]_vars PROVE NeverAhead' OBVIOUS
<1>1. CASE UNCHANGED <<asserted, since>> BY <1>1 DEF NeverAhead
<1>2. ASSUME NEW r \in Readings, NEW f \in FaultFlags, Evaluated(r, f) PROVE NeverAhead'
  BY <1>2, EvaluationNotAhead DEF Evaluated
<1>3. QED
  BY <1>1, <1>2 DEF Next, Poll, Start, Tick, SetParameters, PollRefused, MeasurementFails, FaultReadFails,
                    vars, realtime, hw, history

(* Whenever a poll runs the rules, every condition they were evaluated on    *)
(* without a break for the delay in force has tripped its rule, an AFE fault *)
(* has at once, and no rule trips on less evaluated time than the delay.     *)
(* Time that ends in a failed fault read is not evaluated and not counted.   *)
THEOREM ProtectionActsInTime == Spec => ActsInTime
<1>1. ASSUME TypeOK, TypeOK', Counted, NeverAhead', [Next]_vars, result' = "ok", ~ UNCHANGED vars
      PROVE  /\ \A q \in Sensed : /\ observed'[q] >= delay => q \in active'
                                  /\ q \in active' \ active => since'[q] >= delay
             /\ faults' # 0 => "afe_fault" \in active'
  <2>1. PICK r \in Readings, f \in FaultFlags : Evaluated(r, f)
    BY <1>1 DEF Next, Poll, Start, Tick, SetParameters, PollRefused, MeasurementFails, FaultReadFails, NoPoll
  <2>2. ASSUME NEW q \in Sensed, observed'[q] >= delay PROVE q \in active'
    <3>1. delay \in 0 .. MaxDelay BY <1>1, BmsPlatformAssumption DEF TypeOK
    <3>2. observed'[q] \in -1 .. MaxDelay BY <1>1 DEF TypeOK
    <3>3. asserted'[q] \in 0 .. MaxDelay BY <1>1 DEF TypeOK, Sensed
    <3>4. observed'[q] # -1 BY <2>2, <3>1, <3>2, BmsPlatformAssumption
    <3>5. q \in active' \/ (asserted'[q] >= observed'[q] /\ asserted'[q] < delay)
      BY <1>1, <2>1, <3>4, EvaluationCounts DEF Evaluated
    <3>6. QED BY <2>2, <3>1, <3>2, <3>3, <3>5, BmsPlatformAssumption
  <2>3. ASSUME faults' # 0 PROVE "afe_fault" \in active'
    <3>1. f # 0 /\ "afe_fault" \in Rules BY <2>1, <2>3, BmsPlatformAssumption DEF Evaluated
    <3>2. asserted'["afe_fault"] \in 0 .. MaxDelay BY <1>1, <3>1 DEF TypeOK
    <3>3. IsActive("afe_fault", "afe_fault" \in active, asserted'["afe_fault"], "trip", 0)
      BY <3>2, BmsPlatformAssumption DEF IsActive, Trips
    <3>4. QED BY <2>1, <3>1, <3>3 DEF Evaluated, Evaluate, ZoneOf, DelayOf
  <2>4. ASSUME NEW q \in Sensed, q \in active' \ active PROVE since'[q] >= delay
    <3>1. q \in Rules /\ q # "afe_fault" BY DEF Sensed
    <3>2. IsActive(q, q \in active, asserted'[q], ZoneOf(q, r, f), DelayOf(q, delay))
      BY <2>1, <2>4, <3>1 DEF Evaluated, Evaluate
    <3>3. asserted'[q] >= delay BY <2>4, <3>1, <3>2 DEF IsActive, DelayOf
    <3>4. asserted'[q] <= since'[q] BY <1>1 DEF NeverAhead
    <3>5. asserted'[q] \in 0 .. MaxDelay /\ since'[q] \in 0 .. MaxDelay BY <1>1, <3>1 DEF TypeOK
    <3>6. delay \in 0 .. MaxDelay BY <1>1, BmsPlatformAssumption DEF TypeOK
    <3>7. QED BY <3>3, <3>4, <3>5, <3>6, BmsPlatformAssumption
  <2>5. QED BY <2>2, <2>3, <2>4
<1>2. QED
  BY <1>1, PlatformTypeCorrect, CountedInitially, CountedPreserved, NotAheadInitially, NotAheadPreserved,
     PTL DEF Spec, ActsInTime

(* An active cell or current rule leaves the active set only in a poll whose *)
(* reading lies beyond its release threshold.                                *)
THEOREM ReleaseNeedsTheBand == Spec => ReleasedInBand
<1>1. ASSUME [Next]_vars, NEW q \in Sensed \ TemperatureRules, q \in active, q \notin active'
      PROVE  reading'[q] = "release"
  <2>1. PICK r \in Readings, f \in FaultFlags : Evaluated(r, f)
    BY <1>1 DEF Next, Poll, Start, Tick, SetParameters, PollRefused, MeasurementFails, FaultReadFails,
                vars, realtime, hw, history
  <2>2. q \in Rules /\ q # "afe_fault" BY <1>1 DEF Sensed
  <2>3. ZoneOf(q, r, f) = r[q] /\ reading' = r BY <2>1, <2>2 DEF Evaluated, ZoneOf
  <2>4. ~ IsActive(q, TRUE, asserted'[q], r[q], DelayOf(q, delay))
    BY <1>1, <2>1, <2>2, <2>3 DEF Evaluated, Evaluate
  <2>5. Releases(q, r[q]) BY <2>4 DEF IsActive
  <2>6. QED BY <1>1, <2>3, <2>5 DEF Releases
<1>2. [Next]_vars =>
        [\A q \in Sensed \ TemperatureRules : q \in active /\ q \notin active' => reading'[q] = "release"]_vars
  BY <1>1
<1>3. QED BY <1>2, PTL DEF Spec, ReleasedInBand
====
