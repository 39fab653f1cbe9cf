---- MODULE BmsPlatform ----
(* core/bms_platform.c and core/bms_application.c: one poll reads the AFE,   *)
(* publishes the measurement, evaluates protection and balancing, and drives *)
(* the power path and the balance switches. Every AFE call may fail. The     *)
(* state of charge, the heating request and the pack arithmetic are left out.*)
EXTENDS Protection

CONSTANTS Rules,      \* the rules of this instance, with "afe_fault" among them
          Topologies, \* of the products: TRUE is BMS_POWER_TOPOLOGY_SHARED_PORT
          Delays,     \* values of protect.delay.ms
          MaxDelay,   \* bound: the longest of them
          MaxAge      \* bound: time between two samples

ASSUME BmsPlatformAssumption ==
    /\ Rules \subseteq AllRules /\ "afe_fault" \in Rules
    /\ Topologies \subseteq BOOLEAN
    /\ MaxDelay \in Nat /\ MaxAge \in Nat
    /\ Delays \subseteq 0 .. MaxDelay

VARIABLES
    shared,       \* product->power_topology
    state,        \* BmsPlatformState
    sampled,      \* realtime.sample_sequence is not 0
    age,          \* now - realtime.timestamp_ms
    reading,      \* realtime: the published measurement, by rule
    faults,       \* realtime.fault_flags, 0 if none
    active,       \* monitor.active_flags, realtime.protection_flags
    asserted,     \* monitor.asserted_ms
    delay,        \* parameters.protection_delay_ms
    power,        \* realtime.power_state
    balancing,    \* realtime.balance_cells_mask is not 0
    result,       \* of the last step if a poll: ok, or the call that failed
    logged,       \* the events the last step appended to the log
    hwPower,      \* the power paths the AFE may be driving: one, once it is known
    hwBalancing,  \* whether it may be balancing
    driven,       \* history: the last set_power was accepted
    observed,     \* history: how long each rule was evaluated to be tripping
    since         \* history: how long since it was last evaluated not to be

realtime == <<sampled, reading, faults, active, power, balancing>>
hw == <<hwPower, hwBalancing, driven>>
history == <<observed, since>>
vars == <<shared, state, age, realtime, asserted, delay, result, logged, hw, history>>

Sensed == Rules \ {"afe_fault"}
Paths == [charge : BOOLEAN, discharge : BOOLEAN]
NoPath == [charge |-> FALSE, discharge |-> FALSE]
FaultFlags == {0, 1}
Failures == {"not_ready", "error"}
Events == {"protection", "fault", "parameters"}

(* Cell voltages, currents and temperatures are valid or not as a group, and *)
(* a current that approaches one limit has released the other.               *)
Groups == {{"cell_ov", "cell_uv"}, {"charge_oc", "discharge_oc"}, TemperatureRules}
Readings == {r \in [Sensed -> Zones] :
               /\ \A g \in Groups : \A a, b \in g \cap Sensed : r[a] = "invalid" => r[b] = "invalid"
               /\ \E c \in {"charge_oc", "discharge_oc"} :
                     c \in Sensed => r[c] \in {"release", "invalid"}}

TypeOK == /\ shared \in Topologies
          /\ state \in {"reset", "ready", "afe_error"}
          /\ sampled \in BOOLEAN /\ age \in 0 .. MaxAge
          /\ reading \in [Sensed -> Zones]
          /\ faults \in FaultFlags
          /\ active \subseteq Rules
          /\ asserted \in [Rules -> 0 .. MaxDelay]
          /\ delay \in Delays
          /\ balancing \in BOOLEAN /\ hwBalancing \subseteq BOOLEAN /\ driven \in BOOLEAN
          /\ power \in Paths /\ hwPower \subseteq Paths
          /\ result \in {"none", "ok", "state", "measurement", "faults", "power", "balance"}
          /\ logged \subseteq Events
          /\ observed \in [Sensed -> -1 .. MaxDelay]
          /\ since \in [Sensed -> 0 .. MaxDelay]

(* Before bms_platform_init; realtime and application as their init functions*)
(* leave them. The AFE may have gone on while the program started over, and  *)
(* afe_init leaves its switches alone: they may be any way.                  *)
Init == /\ shared \in Topologies
        /\ state = "reset"
        /\ sampled = FALSE /\ age = 0
        /\ reading = [r \in Sensed |-> "invalid"]
        /\ faults = 0 /\ active = {}
        /\ asserted = [r \in Rules |-> 0]
        /\ delay \in Delays
        /\ balancing = FALSE /\ power = NoPath
        /\ result = "none" /\ logged = {}
        /\ hwPower = Paths /\ hwBalancing = BOOLEAN /\ driven = FALSE
        /\ observed = [r \in Sensed |-> -1] /\ since = [r \in Sensed |-> 0]

NoPoll == result' = "none"

(* bms_platform_init, once the product has been validated: afe_init decides. *)
Start == /\ state = "reset"
         /\ state' \in {"ready", "afe_error"}
         /\ NoPoll /\ logged' = {}
         /\ UNCHANGED <<age, realtime, asserted, delay, hw, history>>

(* Time passes. Only a poll that has a sample to compare with reads the time. *)
Tick == /\ state = "ready" /\ sampled /\ age < MaxAge
        /\ age' = age + 1
        /\ NoPoll /\ logged' = {}
        /\ UNCHANGED <<state, realtime, asserted, delay, hw, history>>

(* bms_platform_set_parameters, for the one parameter this module has.       *)
SetParameters(d) == /\ state # "reset"
                    /\ delay' = d
                    /\ NoPoll /\ logged' = {"parameters"}
                    /\ UNCHANGED <<state, age, realtime, asserted, hw, history>>

------------------------------------------------------------------------------
(* bms_platform_poll and its ways out, in the order of the code.             *)
PollRefused == /\ state # "ready"
               /\ result' = "state" /\ logged' = {}
               /\ UNCHANGED <<state, age, realtime, asserted, delay, hw, history>>

(* bms_platform_record_afe_failure: not ready is not a hardware failure.     *)
AfterFailure(status) == IF status = "not_ready" THEN state ELSE "afe_error"

(* Also a measurement whose cell or temperature count is not the product's.  *)
MeasurementFails(status) ==
    /\ state = "ready"
    /\ state' = AfterFailure(status)
    /\ result' = "measurement" /\ logged' = {}
    /\ UNCHANGED <<age, realtime, asserted, delay, hw, history>>

Elapsed == IF sampled THEN age ELSE 0

(* The measurement is published before the faults are read, and so restarts  *)
(* the clock of the next poll: the rules never count the time before it.     *)
FaultReadFails(r, status) ==
    /\ state = "ready"
    /\ reading' = r /\ sampled' = TRUE /\ age' = 0
    /\ state' = AfterFailure(status)
    /\ result' = "faults" /\ logged' = {}
    /\ UNCHANGED <<faults, active, power, balancing, asserted, delay, hw, history>>

ZoneOf(rule, r, f) == IF rule # "afe_fault" THEN r[rule]
                      ELSE IF f # 0 THEN "trip" ELSE "release"

(* bms_protection_evaluate over all rules.                                   *)
Evaluate(r, f) ==
    /\ asserted' = [q \in Rules |-> Asserted(asserted[q], ZoneOf(q, r, f), DelayOf(q, delay), Elapsed)]
    /\ active' = {q \in Rules : IsActive(q, q \in active, asserted'[q], ZoneOf(q, r, f), DelayOf(q, delay))}

(* bms_balance_update: no cell is balanced under any protection or without   *)
(* valid readings; otherwise voltages, current and temperatures decide.      *)
BalanceRequests(r) == IF active' = {} /\ \A q \in Sensed : r[q] # "invalid" THEN BOOLEAN ELSE {FALSE}

(* bms_application_log_change, twice: no event when before equals after. By  *)
(* then bms_platform_poll has stored the new fault flags in realtime, so the *)
(* flags compared are f and f.                                               *)
Change(event, before, after) == IF before = after THEN {} ELSE {event}
StepEvents(f) == Change("protection", active, active') \union Change("fault", f, f)

(* afe_set_power and afe_set_balance: refused without effect when not ready  *)
(* or not supported; an error may leave the power path either way, and each  *)
(* balance switch as it was or as asked (AfeContract).                       *)
BugReported(status, new, old) == new
Reported(status, new, old) == IF status = "ok" THEN new ELSE old
Driven(status, new, old) == CASE status = "ok" -> {new}
                              [] status = "error" -> old \union {new}
                              [] OTHER -> old
BalanceDriven(status, new, old) == IF status = "error" /\ TRUE \in old \union {new} THEN BOOLEAN
                                   ELSE Driven(status, new, old)

Longer(time) == IF time + Elapsed > MaxDelay THEN MaxDelay ELSE time + Elapsed
Observe(r) ==
    /\ observed' = [q \in Sensed |-> IF r[q] # "trip" THEN -1
                                      ELSE IF observed[q] = -1 THEN 0 ELSE Longer(observed[q])]
    /\ since' = [q \in Sensed |-> IF r[q] # "trip" THEN 0 ELSE Longer(since[q])]

DrivePower(status) ==
    LET command == PowerCommand(shared, active')
    IN  /\ power' = Reported(status, command, power)
        /\ hwPower' = Driven(status, command, hwPower)
        /\ driven' = (status = "ok")

DriveBalance(r, status) ==
    \E request \in BalanceRequests(r) :
        /\ balancing' = Reported(status, request, balancing)
        /\ hwBalancing' = BalanceDriven(status, request, hwBalancing)

(* A poll that gets as far as the protection rules. An error from set_power  *)
(* ends it before set_balance.                                               *)
Evaluated(r, f) ==
    /\ state = "ready"
    /\ reading' = r /\ sampled' = TRUE /\ age' = 0
    /\ faults' = f
    /\ Evaluate(r, f)
    /\ Observe(r)
    /\ logged' = StepEvents(f)
    /\ \/ /\ DrivePower("error")
          /\ state' = "afe_error" /\ result' = "power"
          /\ UNCHANGED <<balancing, hwBalancing>>
       \/ \E p \in {"ok", "refused"} :
            /\ DrivePower(p)
            /\ \/ /\ DriveBalance(r, "error")
                  /\ state' = "afe_error" /\ result' = "balance"
               \/ /\ \E b \in {"ok", "refused"} : DriveBalance(r, b)
                  /\ state' = state /\ result' = "ok"
    /\ UNCHANGED delay

Poll == \/ PollRefused
        \/ \E status \in Failures : MeasurementFails(status)
        \/ \E r \in Readings, status \in Failures : FaultReadFails(r, status)
        \/ \E r \in Readings, f \in FaultFlags : Evaluated(r, f)

Next == /\ shared' = shared
        /\ Start \/ Tick \/ (\E d \in Delays : SetParameters(d)) \/ Poll

Spec == Init /\ [][Next]_vars

------------------------------------------------------------------------------
(* From the first accepted command on, what realtime reports of the power    *)
(* path and of balancing is what the AFE drives, whichever later command is  *)
(* refused (docs/parameters.md: only a successful set_power or set_balance   *)
(* is reported as done).                                                     *)
ReportsTheHardware == state = "ready" => /\ hwPower \in {Paths, {power}}
                                         /\ hwBalancing \in {BOOLEAN, {balancing}}

(* While an accepted power command stands, no path an active rule blocks is  *)
(* closed, and on a shared port the other path is open too.                  *)
ProtectedPathIsOpen ==
    state = "ready" /\ driven =>
        \A path \in hwPower : /\ path.charge => active \cap BlocksCharge = {}
                              /\ path.discharge => active \cap BlocksDischarge = {}
                              /\ shared => path.charge = path.discharge

(* A condition the rules were evaluated on without a break for at least the  *)
(* delay has tripped its rule, whatever happened to the delay meanwhile, and *)
(* so has an AFE fault; and no rule trips before a delay of evaluated time   *)
(* has gone by since it was last without its condition. The interval ending  *)
(* in a poll whose fault read fails is no evaluated time, although the poll  *)
(* has published its sample: the code loses it, but no more than it.         *)
(* (bms_protection_update_rule over samples of uneven distance.)             *)
ActsInTime ==
    [][result' = "ok" =>
         /\ \A q \in Sensed : /\ observed'[q] >= delay => q \in active'
                              /\ q \in active' \ active => since'[q] >= delay
         /\ faults' # 0 => "afe_fault" \in active']_vars

(* An active cell or current rule is released only by a valid reading beyond *)
(* its release threshold, not by lost data or one between the thresholds.    *)
ReleasedInBand ==
    [][\A q \in Sensed \ TemperatureRules : q \in active /\ q \notin active' => reading'[q] = "release"]_vars

(* Each change of the AFE fault flags is logged (docs/parameters.md lists    *)
(* AFE faults among what BmsEventLog records).                               *)
FaultChangesAreLogged ==
    [][faults' # faults => "fault" \in logged']_vars
====
