---- MODULE BmsApplication ----
(* core/bms_application.c with the requests of bms_firmware.c that read and  *)
(* write it: parameters take effect and are logged at once and are saved     *)
(* later, the step logs protection changes, clients read parameters and      *)
(* events in pages with anything happening between two of them.              *)
EXTENDS BmsParameters, EventLog

CONSTANTS Writes,     \* the batches clients send
          Protections, SocValues,
          MaxEvents   \* bound

ASSUME BmsApplicationAssumption ==
    /\ Writes \subseteq Seq([id : Nat, value : Int])
    /\ MaxEvents \in Nat

VARIABLES
    pending,    \* parameters in force are not saved yet
    previous,   \* pending_previous_parameters
    protection  \* realtime.protection_flags

vars == <<parameters, got, ring, seen, pending, previous, protection>>

Init == /\ parameters = Defaults /\ previous = Defaults /\ pending = FALSE
        /\ protection \in Protections
        /\ got = <<>>
        /\ LogInit

(* bms_application_step. The flags before and after are compared, so only a  *)
(* change is logged; the AFE faults never differ (see BmsPlatform).          *)
Step(flags) == /\ appended < MaxEvents
               /\ protection' = flags
               /\ IF flags # protection THEN LogAppend ELSE UNCHANGED ring
               /\ UNCHANGED <<parameters, got, seen, pending, previous>>

(* bms_firmware_set_parameters, authorised and with a store.                 *)
SetParameters(writes) ==
    /\ ~ pending /\ appended < MaxEvents
    /\ previous' = parameters
    /\ \/ /\ Acceptable(writes)
          /\ parameters' = Candidate(writes) /\ pending' = TRUE
          /\ LogAppend
       \/ /\ ~ Acceptable(writes)
          /\ UNCHANGED <<parameters, pending, ring>>
    /\ UNCHANGED <<got, seen, protection>>

(* bms_firmware_process: a failed save takes the parameters back, and leaves *)
(* the log as it is.                                                         *)
Process(saved) == /\ pending
                  /\ pending' = FALSE
                  /\ parameters' = IF saved THEN parameters ELSE previous
                  /\ UNCHANGED <<got, ring, seen, previous, protection>>

(* bms_firmware_control. The change is logged as one from 0.                 *)
SetSoc(permil) == /\ appended < MaxEvents
                  /\ IF permil # 0 THEN LogAppend ELSE UNCHANGED ring
                  /\ UNCHANGED <<parameters, got, seen, pending, previous, protection>>

Client == \/ /\ ReadParameters \/ StartOverParameters
             /\ UNCHANGED <<parameters, ring, seen, pending, previous, protection>>
          \/ /\ ReadEvents \/ StartOverEvents
             /\ UNCHANGED <<parameters, got, pending, previous, protection>>

Next == \/ \E flags \in Protections : Step(flags)
        \/ \E writes \in Writes : SetParameters(writes)
        \/ \E saved \in BOOLEAN : Process(saved)
        \/ \E permil \in SocValues : SetSoc(permil)
        \/ Client

Spec == Init /\ [][Next]_vars

------------------------------------------------------------------------------
TypeOK == /\ {parameters, previous} \subseteq Assignments
          /\ got \in Seq([id : Ids, value : Int])
          /\ pending \in BOOLEAN /\ protection \in Protections
          /\ LogTypeOK

(* Two parameters of which one must be below the other are so in what a      *)
(* client has read, although writes, and rollbacks of writes it has already  *)
(* seen, come between its pages (all_parameters).                            *)
ReadPairsConsistent ==
    \A pair \in Pairs : \A i, j \in DOMAIN got :
        got[i].id = pair[1] /\ got[j].id = pair[2] => got[i].value < got[j].value

(* The ring is a bounded log: the newest events, oldest first, at any time   *)
(* (bms_event_log_append, bms_event_log_get).                                *)
ImplementsBoundedLog == Log!Spec

(* A client that reads the log page by page sees no event twice and none out *)
(* of order, and the events it misses are no more in number than those       *)
(* overwritten since its first page. They need not be the same ones: an      *)
(* overwritten entry moves all later ones down, so that the reader may pass  *)
(* over an event still in the ring (bms_firmware_write_event_log).           *)
GapsAreBounded ==
    /\ \A i \in 1 .. Len(seen) - 1 : seen[i] < seen[i + 1]
    /\ seen # <<>> => (seen[Len(seen)] - seen[1] + 1) - Len(seen) <= (appended - count) - (seen[1] - 1)
====
