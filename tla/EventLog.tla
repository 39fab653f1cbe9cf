---- MODULE EventLog ----
(* core/bms_event.c: a ring of events, and its reading page by page through  *)
(* GET_EVENT_LOG. An event is the number it was appended with; its content   *)
(* is left out.                                                              *)
EXTENDS Integers, Sequences

CONSTANTS Capacity,   \* BMS_EVENT_LOG_CAPACITY
          EventPage   \* events in one answer

ASSUME EventLogAssumption == Capacity \in Nat \ {0} /\ EventPage \in Nat \ {0}

VARIABLES
    entries, first, count,  \* BmsEventLog
    appended,               \* history: events appended so far
    seen                    \* client: the events of the pages it has read

ring == <<entries, first, count, appended>>

Unset == 0
Slots == 0 .. Capacity - 1

LogInit == /\ entries = [slot \in Slots |-> Unset]
           /\ first = 0 /\ count = 0
           /\ appended = 0 /\ seen = <<>>

BugSlot(index) == index % Capacity
Slot(index) == (first + index) % Capacity

(* bms_event_log_append.                                                     *)
BugOverwrite == first' = first
Overwrite == first' = (first + 1) % Capacity

LogAppend == /\ appended' = appended + 1
             /\ \/ /\ count < Capacity
                   /\ entries' = [entries EXCEPT ![Slot(count)] = appended + 1]
                   /\ count' = count + 1 /\ UNCHANGED first
                \/ /\ count = Capacity
                   /\ entries' = [entries EXCEPT ![first] = appended + 1]
                   /\ Overwrite /\ UNCHANGED count

(* bms_event_log_get, for every index below count.                           *)
Content == [i \in 1 .. count |-> entries[Slot(i - 1)]]

(* One answer of bms_firmware_write_event_log, for a client that asks for    *)
(* the page behind what it has read.                                         *)
ReadEvents == /\ seen' = seen \o SubSeq(Content, Len(seen) + 1,
                                        IF Len(seen) + EventPage < count THEN Len(seen) + EventPage ELSE count)
              /\ UNCHANGED ring

StartOverEvents == seen # <<>> /\ seen' = <<>> /\ UNCHANGED ring

LogTypeOK == /\ entries \in [Slots -> Nat] /\ first \in Slots /\ count \in 0 .. Capacity
             /\ appended \in Nat /\ seen \in Seq(Nat)

Log == INSTANCE BoundedLog WITH log <- Content, added <- appended
====
