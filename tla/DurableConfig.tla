---- MODULE DurableConfig ----
(* What bms_config_store promises its caller: one durable register. A save   *)
(* either confirms the new configuration or leaves the old one, and a power  *)
(* failure in the middle of a save leaves one of the two, never a third.     *)
CONSTANTS Configs,   \* the configurations a caller may save
          NoConfig   \* "nothing stored yet"

VARIABLES stored,     \* what a reboot would load
          confirmed,  \* what the caller works with: loaded, or saved with OK
          request,    \* the configuration being saved, NoConfig if none
          phase       \* "off", "ready" or "saving"

vars == <<stored, confirmed, request, phase>>

Init == /\ stored = NoConfig
        /\ confirmed = NoConfig
        /\ request = NoConfig
        /\ phase = "off"

Boot == /\ phase = "off"
        /\ phase' = "ready"
        /\ confirmed' = stored
        /\ request' = NoConfig
        /\ UNCHANGED stored

Begin(c) == /\ phase = "ready"
            /\ phase' = "saving"
            /\ request' = c
            /\ UNCHANGED <<stored, confirmed>>

(* The instant from which a reboot finds the new configuration. *)
Store == /\ phase = "saving"
         /\ stored' = request
         /\ UNCHANGED <<confirmed, request, phase>>

Confirm == /\ phase = "saving"
           /\ stored = request
           /\ confirmed' = request
           /\ request' = NoConfig
           /\ phase' = "ready"
           /\ UNCHANGED stored

(* A refused save must not have stored anything. *)
Refuse == /\ phase = "saving"
          /\ stored = confirmed
          /\ request' = NoConfig
          /\ phase' = "ready"
          /\ UNCHANGED <<stored, confirmed>>

PowerLoss == /\ phase # "off"
             /\ phase' = "off"
             /\ UNCHANGED <<stored, confirmed, request>>

Next == \/ Boot
        \/ \E c \in Configs : Begin(c)
        \/ Store
        \/ Confirm
        \/ Refuse
        \/ PowerLoss

Spec == Init /\ [][Next]_vars
====
