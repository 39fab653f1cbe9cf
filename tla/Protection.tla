---- MODULE Protection ----
(* core/bms_protection.c: protection rules with a delay before they act and  *)
(* a separate condition under which they release. A reading is reduced to    *)
(* where it stands for each rule: beyond the trip threshold, beyond the      *)
(* release threshold, between the two, or not valid.                         *)
EXTENDS Integers

AllRules == {"cell_ov", "cell_uv", "charge_oc", "discharge_oc", "charge_temp", "discharge_temp", "afe_fault"}

TemperatureRules == {"charge_temp", "discharge_temp"}
BlocksCharge == {"cell_ov", "charge_oc", "charge_temp", "afe_fault"}
BlocksDischarge == {"cell_uv", "discharge_oc", "discharge_temp", "afe_fault"}

Zones == {"trip", "between", "release", "invalid"}

(* The trip and release conditions bms_protection_evaluate hands to a rule.  *)
(* A temperature that is not valid is not outside any range, so it does not  *)
(* trip a temperature rule and it releases it; an AFE fault trips and its    *)
(* absence releases.                                                         *)
Trips(zone) == zone = "trip"

BugReleases(rule, zone) == zone \in {"release", "between"}
Releases(rule, zone) == \/ zone = "release"
                        \/ zone = "invalid" /\ rule \in TemperatureRules

DelayOf(rule, delay) == IF rule = "afe_fault" THEN 0 ELSE delay

(* bms_protection_update_rule: the time a rule has been asserted, and        *)
(* whether it is active afterwards.                                          *)
BugAsserted(before, zone, delay, elapsed) == IF ~ Trips(zone) THEN 0 ELSE before + elapsed
BugKept(before, zone, delay, elapsed) ==
    IF ~ Trips(zone) \/ before >= delay THEN before
    ELSE IF before + elapsed > delay THEN delay ELSE before + elapsed
Asserted(before, zone, delay, elapsed) ==
    IF ~ Trips(zone) THEN 0
    ELSE IF before >= delay THEN before
    ELSE IF before + elapsed > delay THEN delay ELSE before + elapsed

IsActive(rule, wasActive, asserted, zone, delay) ==
    IF Trips(zone) THEN wasActive \/ asserted >= delay
    ELSE wasActive /\ ~ Releases(rule, zone)

(* The power command for a set of active rules.                              *)
BugSharedPort(shared, path) == path
SharedPort(shared, path) ==
    IF shared /\ ~ (path.charge /\ path.discharge)
    THEN [charge |-> FALSE, discharge |-> FALSE] ELSE path

PowerCommand(shared, active) ==
    SharedPort(shared, [charge |-> active \cap BlocksCharge = {},
                        discharge |-> active \cap BlocksDischarge = {}])
====
