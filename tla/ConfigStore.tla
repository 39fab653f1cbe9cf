---- MODULE ConfigStore ----
(* core/bms_config_store.c: the two-slot configuration record, saved by      *)
(* erase - program - read back, loaded by picking the newest valid slot. The *)
(* storage behind the callbacks may fail, and power may go between any two   *)
(* flash operations. A record is reduced to whether it decodes (magic,       *)
(* version, length, CRC, ranges), its generation and its configuration.      *)
EXTENDS Integers

CONSTANTS Configs,     \* configurations that pass bms_parameters_validate and the name rules
          BadConfigs,  \* configurations that do not
          NoConfig,    \* "none"
          Half,        \* generations are uint32_t: 2 * Half of them (Half = 2^31 in the code)
          Faults       \* which storage faults may happen, a subset of FaultKinds

(* erase: erase reports an error, the slot untouched or blank.               *)
(* write: write reports an error, leaving a torn record.                     *)
(* program: write reports success but the record does not decode.            *)
(* late: the record is good, yet write or the verifying read reports an error.*)
(* boot: a slot cannot be read while loading.                                *)
FaultKinds == {"erase", "write", "program", "late", "boot"}

ASSUME ConfigStoreAssumption ==
    /\ NoConfig \notin Configs
    /\ BadConfigs \cap Configs = {}
    /\ Half \in Nat /\ Half >= 2
    /\ Faults \subseteq FaultKinds

VARIABLES slots,       \* the two flash slots
          generation,  \* RAM: the caller's generation counter
          phase,       \* where the code is: off, ready, or inside a save
          request,     \* the configuration being saved
          confirmed,   \* the last configuration loaded, or saved with BMS_STATUS_OK
          status       \* what the last save returned: none, ok, error

vars == <<slots, generation, phase, request, confirmed, status>>

Slots == {0, 1}
Generations == 0 .. 2 * Half - 1
Records == [readable : BOOLEAN, gen : Generations, cfg : Configs \cup {NoConfig}]
Saving == {"erase", "program", "verify"}

(* Anything bms_config_decode_image rejects: erased, torn, corrupt. *)
Unreadable == [readable |-> FALSE, gen |-> 0, cfg |-> NoConfig]
Record(g, c) == [readable |-> TRUE, gen |-> g, cfg |-> c]

(* The next generation, and the slot its lowest bit selects. *)
BugSucc(g) == g + 1
Succ(g) == IF g = 2 * Half - 1 THEN 0 ELSE g + 1
SlotOf(g) == g % 2
BugTargetSlot(g) == 0
TargetSlot(g) == SlotOf(Succ(g))

(* (int32_t)(a - b) > 0 on uint32_t. *)
BugNewer(a, b) == a > b
Newer(a, b) == LET d == IF a >= b THEN a - b ELSE a - b + 2 * Half
               IN  d \in 1 .. Half - 1

(* The record bms_config_store_load picks from what it can read: slot 0,     *)
(* unless slot 1 is the only one or the newer one.                           *)
Newest(view) ==
    IF view[1].readable /\ (view[0].readable => Newer(view[1].gen, view[0].gen))
    THEN view[1] ELSE view[0]

(* What a power cycle right now would bring back. *)
Stored == Newest(slots).cfg

TypeOK == /\ slots \in [Slots -> Records]
          /\ generation \in Generations
          /\ phase \in {"off", "ready"} \cup Saving
          /\ request \in Configs \cup {NoConfig}
          /\ confirmed \in Configs \cup {NoConfig}
          /\ status \in {"none", "ok", "error"}

Init == /\ slots = [s \in Slots |-> Unreadable]
        /\ generation = 0
        /\ phase = "off"
        /\ request = NoConfig
        /\ confirmed = NoConfig
        /\ status = "none"

------------------------------------------------------------------------------
(* bms_config_store_load, at start-up: *generation = 0u when nothing is found. *)
UnreadSets == IF "boot" \in Faults THEN SUBSET Slots ELSE {{}}

Load == /\ phase = "off"
        /\ \E unread \in UnreadSets :
             LET found == Newest([s \in Slots |-> IF s \in unread THEN Unreadable ELSE slots[s]])
             IN  /\ generation' = found.gen
                 /\ confirmed' = found.cfg
        /\ phase' = "ready"
        /\ request' = NoConfig
        /\ status' = "none"
        /\ UNCHANGED slots

(* bms_config_store_save, its parts in order. A configuration that does not  *)
(* validate or encode is refused before the flash is touched.                *)
RejectInvalid(c) == /\ phase = "ready"
                    /\ c \in BadConfigs
                    /\ status' = "error"
                    /\ UNCHANGED <<slots, generation, phase, request, confirmed>>

SaveBegin(c) == /\ phase = "ready"
                /\ c \in Configs
                /\ phase' = "erase"
                /\ request' = c
                /\ status' = "none"
                /\ UNCHANGED <<slots, generation, confirmed>>

Return(result) == /\ phase' = "ready"
                  /\ request' = NoConfig
                  /\ status' = result

EraseOK == /\ phase = "erase"
           /\ slots' = [slots EXCEPT ![TargetSlot(generation)] = Unreadable]
           /\ phase' = "program"
           /\ UNCHANGED <<generation, request, confirmed, status>>

EraseFails == /\ phase = "erase"
              /\ "erase" \in Faults
              /\ \/ slots' = [slots EXCEPT ![TargetSlot(generation)] = Unreadable]
                 \/ UNCHANGED slots
              /\ Return("error")
              /\ UNCHANGED <<generation, confirmed>>

Programmed == [slots EXCEPT ![TargetSlot(generation)] = Record(Succ(generation), request)]

ProgramOK == /\ phase = "program"
             /\ slots' = Programmed
             /\ phase' = "verify"
             /\ UNCHANGED <<generation, request, confirmed, status>>

ProgramCorrupts == /\ phase = "program"
                   /\ "program" \in Faults
                   /\ phase' = "verify"
                   /\ UNCHANGED <<slots, generation, request, confirmed, status>>

ProgramFails == /\ phase = "program"
                /\ \/ "write" \in Faults /\ UNCHANGED slots
                   \/ "late" \in Faults /\ slots' = Programmed
                /\ Return("error")
                /\ UNCHANGED <<generation, confirmed>>

(* The read-back decodes to the generation just written. *)
BugVerified(r, g) == TRUE
Verified(r, g) == r.readable /\ r.gen = g

VerifyOK == /\ phase = "verify"
            /\ Verified(slots[TargetSlot(generation)], Succ(generation))
            /\ generation' = Succ(generation)
            /\ confirmed' = request
            /\ Return("ok")
            /\ UNCHANGED slots

VerifyFails == /\ phase = "verify"
               /\ \/ ~ Verified(slots[TargetSlot(generation)], Succ(generation))
                  \/ "late" \in Faults
               /\ Return("error")
               /\ UNCHANGED <<slots, generation, confirmed>>

(* A torn erase or program is EraseOK, or a program that never happened,     *)
(* followed by the power loss. RAM is lost; confirmed and request stay as a  *)
(* record of what the caller was last told.                                  *)
RamGone == /\ phase # "off"
           /\ phase' = "off"
           /\ generation' = 0
           /\ status' = "none"
           /\ UNCHANGED <<request, confirmed>>

PowerLoss == RamGone /\ UNCHANGED slots

Flash == EraseOK \/ EraseFails \/ ProgramOK \/ ProgramCorrupts \/ ProgramFails
         \/ VerifyOK \/ VerifyFails

Next == \/ Load
        \/ \E c \in BadConfigs : RejectInvalid(c)
        \/ \E c \in Configs : SaveBegin(c)
        \/ Flash
        \/ PowerLoss

Spec == Init /\ [][Next]_vars

------------------------------------------------------------------------------
(* The record behind the RAM generation is intact while the program runs,    *)
(* whatever a save in progress or a refused save has done: the function      *)
(* bms_config_store_save only ever touches the other slot.                   *)
ConfirmedRecordIntact ==
    (phase # "off" /\ confirmed # NoConfig)
        => slots[SlotOf(generation)] = Record(generation, confirmed)

(* A power cycle at any instant brings back the confirmed configuration, or  *)
(* the one whose save was cut short: never an older one, never nothing.      *)
Recoverable == \/ Stored = confirmed
               \/ /\ phase \in {"off", "verify"}
                  /\ request # NoConfig
                  /\ Stored = request

(* The valid record a reboot would choose is never erased or overwritten     *)
(* before a newer valid one exists (the order erase, program, verify on the  *)
(* non-current slot).                                                        *)
NewestIsPreserved ==
    [][\A s \in Slots : slots[s].readable /\ Newest(slots) = slots[s] => slots'[s] = slots[s]]_vars

(* A save the caller is told has failed leaves nothing a reboot would load   *)
(* (docs/flash_persistence.md: only a verified record commits a generation). *)
RefusedIsNotStored == phase = "ready" /\ status = "error" => Stored = confirmed

(* Two slots, a generation counter and a read-back implement one durable     *)
(* register (DurableConfig).                                                 *)
Register == INSTANCE DurableConfig
    WITH stored <- Stored,
         phase <- IF phase \in Saving THEN "saving" ELSE phase

ImplementsRegister == Register!Spec
====
