---- MODULE BoundedLog ----
(* What the event log promises: the last Capacity events, oldest first. An   *)
(* event is the number it was added with.                                    *)
EXTENDS Naturals, Sequences

CONSTANT Capacity

VARIABLES log, added

Init == log = <<>> /\ added = 0

Add == /\ added' = added + 1
       /\ log' = Append(IF Len(log) < Capacity THEN log ELSE Tail(log), added + 1)

Spec == Init /\ [][Add]_<<log, added>>
====
