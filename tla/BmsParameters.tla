---- MODULE BmsParameters ----
(* core/bms_parameters.c: a batch of writes takes effect as a whole or not   *)
(* at all, and the clients read the parameters page by page. Parameters are  *)
(* numbered in the order of their ids. A value is an integer of a small      *)
(* range; type and descriptor flags, which allow every access, are left out. *)
EXTENDS Integers, Sequences

CONSTANTS Total,    \* BMS_PARAMETER_COUNT
          Range,    \* the values between minimum and maximum of each
          Pairs,    \* <<a, b>>: the value of a must be below the value of b
          Defaults, \* bms_parameters_set_defaults
          Page      \* parameters in one answer

Ids == 1 .. Total

ASSUME BmsParametersAssumption ==
    /\ Total \in Nat \ {0} /\ Page \in Nat \ {0}
    /\ Range \in [Ids -> SUBSET Int]
    /\ Pairs \subseteq Ids \X Ids

(* The table is laid out so that no pair is split over two pages.            *)
ASSUME PairsAssumption ==
    \A pair \in Pairs : \E k \in 0 .. Total : {pair[1], pair[2]} \subseteq k * Page + 1 .. k * Page + Page

Assignments == {values \in [Ids -> Int] : \A id \in Ids : values[id] \in Range[id]}

(* bms_parameters_validate.                                                  *)
Valid(values) == \A pair \in Pairs : values[pair[1]] < values[pair[2]]

ASSUME DefaultsAssumption == Defaults \in Assignments /\ Valid(Defaults)

VARIABLES
    parameters,  \* those in force
    got          \* client: what its pages so far hold

(* The candidate of bms_parameters_set_many: a later write to a parameter    *)
(* overrides an earlier one.                                                 *)
WritesTo(writes, id) == {i \in DOMAIN writes : writes[i].id = id}
Candidate(writes) ==
    [id \in Ids |-> IF WritesTo(writes, id) = {} THEN parameters[id]
                    ELSE writes[CHOOSE i \in WritesTo(writes, id) : \A j \in WritesTo(writes, id) : j <= i].value]

BugRange(writes) ==
    /\ writes # <<>> /\ \A i \in DOMAIN writes : writes[i].id \in Ids
    /\ Valid(Candidate(writes))
Acceptable(writes) ==
    /\ writes # <<>>
    /\ \A i \in DOMAIN writes : writes[i].id \in Ids /\ writes[i].value \in Range[writes[i].id]
    /\ Valid(Candidate(writes))

(* One answer of bms_firmware_write_parameters to all_parameters, which asks *)
(* for the ids behind the last one it has, and stops at a page that is not   *)
(* full.                                                                     *)
BugPageEnd == IF Len(got) + Page - 1 < Total THEN Len(got) + Page - 1 ELSE Total
PageEnd == IF Len(got) + Page < Total THEN Len(got) + Page ELSE Total

NextId == Len(got) + 1

ReadParameters ==
    /\ Len(got) < Total
    /\ got' = got \o [i \in 1 .. PageEnd - Len(got) |->
                        [id |-> NextId + i - 1, value |-> parameters[NextId + i - 1]]]

StartOverParameters == got # <<>> /\ got' = <<>>
====
