---- MODULE ConfigStoreProofs ----
(* Proofs about ConfigStore, for every set of configurations and every width *)
(* of the generation counter. The first theorem allows every storage fault;  *)
(* the others exclude two: an error reported for a record that was stored    *)
(* (TLC refutes RefusedIsNotStored with it), and a slot that cannot be read  *)
(* at start-up.                                                              *)
EXTENDS ConfigStore, TLAPS

(* The slot a save writes is never the slot of the current generation, also  *)
(* when the counter wraps.                                                   *)
LEMMA SlotFacts ==
    \A g \in Generations :
        /\ Succ(g) \in Generations
        /\ SlotOf(g) \in Slots
        /\ TargetSlot(g) \in Slots
        /\ SlotOf(g) # TargetSlot(g)
        /\ TargetSlot(g) = SlotOf(Succ(g))
        /\ Slots = {SlotOf(g), TargetSlot(g)}
BY ConfigStoreAssumption, SMTT(30) DEF Generations, Succ, SlotOf, TargetSlot, Slots

(* The successor of a generation is newer, the generation is not newer than  *)
(* its successor: the signed 32-bit difference, wrap-around included.        *)
LEMMA NewerFacts ==
    \A g \in Generations : Newer(Succ(g), g) /\ ~ Newer(g, Succ(g))
BY ConfigStoreAssumption, SMTT(30) DEF Generations, Succ, Newer

------------------------------------------------------------------------------
(* Every record sits in the slot of its generation's parity.                 *)
SlotParity == \A s \in Slots :
                 \/ slots[s] = Unreadable
                 \/ /\ slots[s].readable
                    /\ SlotOf(slots[s].gen) = s
                    /\ slots[s].cfg \in Configs

(* What a save in progress has done to its slot so far.                      *)
SaveProgress ==
    /\ phase \in Saving => request \in Configs
    /\ phase = "ready" => request = NoConfig
    /\ phase = "program" => slots[TargetSlot(generation)] = Unreadable
    /\ phase = "verify" => slots[TargetSlot(generation)] \in {Unreadable, Record(Succ(generation), request)}

Basic == TypeOK /\ SlotParity /\ SaveProgress /\ ConfirmedRecordIntact

LEMMA UnreadableFacts == /\ Unreadable \in Records
                         /\ ~ Unreadable.readable
                         /\ Unreadable.cfg = NoConfig
                         /\ Unreadable.gen = 0
BY ConfigStoreAssumption DEF Unreadable, Records, Generations

LEMMA RecordFacts == \A g \in Generations, c \in Configs :
    /\ Record(g, c) \in Records
    /\ Record(g, c).readable
    /\ Record(g, c).gen = g
    /\ Record(g, c).cfg = c
    /\ Record(g, c) # Unreadable
BY DEF Record, Records, Unreadable

LEMMA InitBasic == Init => Basic
BY ConfigStoreAssumption, UnreadableFacts
   DEF Init, Basic, TypeOK, SlotParity, SaveProgress, ConfirmedRecordIntact, Generations, Saving

(* One lemma per kind of step. *)
LEMMA LoadBasic == Basic /\ Load => Basic'
<1> SUFFICES ASSUME Basic, Load PROVE Basic'
    OBVIOUS
<1> USE DEF Basic
<1>1. PICK unread \in UnreadSets :
          LET found == Newest([s \in Slots |-> IF s \in unread THEN Unreadable ELSE slots[s]])
          IN  generation' = found.gen /\ confirmed' = found.cfg
    BY DEF Load
<1> DEFINE view == [s \in Slots |-> IF s \in unread THEN Unreadable ELSE slots[s]]
           found == Newest(view)
<1>2. PICK t \in Slots : found = view[t]
    BY DEF Newest, Slots
<1>3. found = Unreadable \/ (found = slots[t] /\ found.readable /\ SlotOf(found.gen) = t /\ found.cfg \in Configs)
    BY <1>2 DEF SlotParity
<1>4. found \in Records
    BY <1>2, <1>3, UnreadableFacts DEF TypeOK
<1>5. TypeOK'
    BY <1>1, <1>4, ConfigStoreAssumption DEF TypeOK, Load, Records
<1>6. SlotParity' /\ SaveProgress'
    BY DEF SlotParity, SaveProgress, Load, Saving
<1>7. ConfirmedRecordIntact'
    <2>1. CASE found = Unreadable
        BY <1>1, <2>1, UnreadableFacts DEF ConfirmedRecordIntact
    <2>2. CASE found # Unreadable
        <3>1. found = Record(found.gen, found.cfg)
            BY <1>3, <1>4, <2>2 DEF Record, Records
        <3>2. slots'[SlotOf(generation')] = found
            BY <1>1, <1>3, <2>2 DEF Load
        <3> QED
            BY <1>1, <3>1, <3>2 DEF ConfirmedRecordIntact
    <2> QED
        BY <2>1, <2>2
<1> QED
    BY <1>5, <1>6, <1>7

(* Only the slot that does not hold the current generation is ever written.  *)
OtherSlotOnly == slots' = slots \/ \E r \in Records : slots' = [slots EXCEPT ![TargetSlot(generation)] = r]

LEMMA FlashBasic == Basic /\ Flash => Basic'
<1> SUFFICES ASSUME Basic, Flash PROVE Basic'
    OBVIOUS
<1> USE DEF Basic
<1> DEFINE t == TargetSlot(generation)
<1>0. /\ generation \in Generations /\ Succ(generation) \in Generations
      /\ t \in Slots /\ SlotOf(generation) \in Slots /\ SlotOf(generation) # t /\ SlotOf(Succ(generation)) = t
    BY SlotFacts DEF TypeOK
<1>1. phase \in Saving /\ request \in Configs
    BY DEF Flash, EraseOK, EraseFails, ProgramOK, ProgramCorrupts, ProgramFails, VerifyOK, VerifyFails, Saving, SaveProgress
<1> DEFINE new == Record(Succ(generation), request)
<1>2. new \in Records /\ new.readable /\ new.gen = Succ(generation) /\ new.cfg = request
    BY <1>0, <1>1, RecordFacts
<1>3. slots' \in {slots, [slots EXCEPT ![t] = Unreadable], [slots EXCEPT ![t] = new]}
    BY DEF Flash, EraseOK, EraseFails, ProgramOK, ProgramCorrupts, ProgramFails, VerifyOK, VerifyFails, Programmed
<1>4. TypeOK'
    <2>1. slots' \in [Slots -> Records]
        BY <1>2, <1>3, UnreadableFacts DEF TypeOK
    <2>2. /\ generation' \in Generations
          /\ phase' \in {"off", "ready"} \cup Saving
          /\ request' \in Configs \cup {NoConfig}
          /\ confirmed' \in Configs \cup {NoConfig}
          /\ status' \in {"none", "ok", "error"}
        BY <1>0, <1>1 DEF Flash, EraseOK, EraseFails, ProgramOK, ProgramCorrupts, ProgramFails, VerifyOK, VerifyFails,
            Return, TypeOK, Saving
    <2> QED BY <2>1, <2>2 DEF TypeOK
<1>5. SlotParity'
    <2> SUFFICES ASSUME NEW s \in Slots
                 PROVE  \/ slots'[s] = Unreadable
                        \/ slots'[s].readable /\ SlotOf(slots'[s].gen) = s /\ slots'[s].cfg \in Configs
        BY DEF SlotParity
    <2>1. CASE s = t
        BY <1>0, <1>1, <1>2, <1>3, <2>1 DEF SlotParity, TypeOK
    <2>2. CASE s # t
        BY <1>3, <2>2 DEF SlotParity, TypeOK
    <2> QED BY <2>1, <2>2
<1>6. SaveProgress'
    <2>1. CASE EraseOK
        BY <1>0, <1>1, <2>1 DEF EraseOK, SaveProgress, Saving, TypeOK
    <2>2. CASE ProgramOK
        BY <1>0, <1>1, <2>2 DEF ProgramOK, Programmed, SaveProgress, Saving, TypeOK
    <2>3. CASE ProgramCorrupts
        BY <1>1, <2>3 DEF ProgramCorrupts, SaveProgress, Saving
    <2>4. CASE EraseFails \/ ProgramFails \/ VerifyOK \/ VerifyFails
        BY <2>4 DEF EraseFails, ProgramFails, VerifyOK, VerifyFails, Return, SaveProgress, Saving
    <2> QED BY <2>1, <2>2, <2>3, <2>4 DEF Flash
<1>7. ConfirmedRecordIntact'
    <2>1. CASE VerifyOK
        <3>1. slots[t] = new
            BY <2>1, UnreadableFacts DEF VerifyOK, Verified, SaveProgress
        <3> QED
            BY <1>0, <2>1, <3>1 DEF VerifyOK, ConfirmedRecordIntact, Return
    <2>2. CASE ~ VerifyOK
        <3>1. generation' = generation /\ confirmed' = confirmed
            BY <2>2 DEF Flash, EraseOK, EraseFails, ProgramOK, ProgramCorrupts, ProgramFails, VerifyFails
        <3>2. slots'[SlotOf(generation)] = slots[SlotOf(generation)]
            BY <1>0, <1>3 DEF TypeOK
        <3>3. phase # "off"
            BY <1>1 DEF Saving
        <3> QED
            BY <3>1, <3>2, <3>3 DEF ConfirmedRecordIntact
    <2> QED BY <2>1, <2>2
<1> QED BY <1>4, <1>5, <1>6, <1>7

LEMMA StepBasic == Basic /\ [Next]_vars => Basic'
<1> SUFFICES ASSUME Basic, [Next]_vars PROVE Basic'
    OBVIOUS
<1>1. CASE Load
    BY <1>1, LoadBasic
<1>2. CASE \E c \in BadConfigs : RejectInvalid(c)
    BY <1>2 DEF RejectInvalid, Basic, TypeOK, SlotParity, SaveProgress, ConfirmedRecordIntact, Saving
<1>3. CASE \E c \in Configs : SaveBegin(c)
    BY <1>3 DEF SaveBegin, Basic, TypeOK, SlotParity, SaveProgress, ConfirmedRecordIntact, Saving
<1>4. CASE Flash
    BY <1>4, FlashBasic
<1>5. CASE PowerLoss
    BY <1>5, ConfigStoreAssumption
       DEF PowerLoss, RamGone, Basic, TypeOK, SlotParity, SaveProgress, ConfirmedRecordIntact, Saving, Generations
<1>6. CASE UNCHANGED vars
    BY <1>6 DEF vars, Basic, TypeOK, SlotParity, SaveProgress, ConfirmedRecordIntact
<1> QED
    BY <1>1, <1>2, <1>3, <1>4, <1>5, <1>6 DEF Next

(* The state of the store is well typed, whatever the storage does. *)
THEOREM TypeCorrect == Spec => []TypeOK
<1>1. Basic => TypeOK
    BY DEF Basic
<1> QED
    BY <1>1, InitBasic, StepBasic, PTL DEF Spec

(* While the program runs, the record of the configuration it was last told  *)
(* is saved stays intact, with every storage fault allowed.                  *)
THEOREM ConfirmedRecordNeverTouched == Spec => []ConfirmedRecordIntact
<1>1. Basic => ConfirmedRecordIntact
    BY DEF Basic
<1> QED
    BY <1>1, InitBasic, StepBasic, PTL DEF Spec

------------------------------------------------------------------------------
(* From here on the storage may fail, tear and corrupt, but it does not      *)
(* report an error for a record it has stored, nor hide a record at start-up.*)
Honest == "late" \notin Faults /\ "boot" \notin Faults

(* The slot a save goes to: empty, or one generation behind, or holding the  *)
(* new record that is about to be verified.                                  *)
OtherSlot == LET o == slots[TargetSlot(generation)]
             IN  \/ o = Unreadable
                 \/ confirmed # NoConfig /\ Succ(o.gen) = generation
                 \/ phase = "verify" /\ o = Record(Succ(generation), request)

(* Without a configuration there is no record, and the counter starts at 0.  *)
NothingStored == confirmed = NoConfig => generation = 0 /\ slots[0] = Unreadable

(* Two valid records always have consecutive generations, so that the signed *)
(* difference orders them.                                                   *)
Adjacent == slots[0] # Unreadable /\ slots[1] # Unreadable
                => \/ slots[1].gen = Succ(slots[0].gen)
                   \/ slots[0].gen = Succ(slots[1].gen)

Strict == /\ Basic
          /\ Adjacent
          /\ Recoverable
          /\ phase # "off" => OtherSlot /\ NothingStored

(* What bms_config_store_load selects, by the shape of the two slots around  *)
(* generation g: the other slot empty or one behind, or one ahead.           *)
LEMMA NewestFacts ==
    ASSUME NEW view \in [Slots -> Records], NEW g \in Generations
    PROVE  LET cur == view[SlotOf(g)]
               oth == view[TargetSlot(g)]
               CurOK == cur = Unreadable \/ (cur.readable /\ cur.gen = g)
           IN  /\ CurOK /\ oth = Unreadable => Newest(view) = cur
               /\ cur.readable /\ cur.gen = g /\ Succ(oth.gen) = g => Newest(view) = cur
               /\ CurOK /\ oth.readable /\ oth.gen = Succ(g) => Newest(view) = oth
<1> DEFINE cur == view[SlotOf(g)]
           oth == view[TargetSlot(g)]
<1>1. /\ SlotOf(g) \in Slots /\ TargetSlot(g) \in Slots /\ SlotOf(g) # TargetSlot(g)
      /\ oth.gen \in Generations /\ cur.gen \in Generations
    BY SlotFacts DEF Records
<1>2. \/ SlotOf(g) = 0 /\ TargetSlot(g) = 1
      \/ SlotOf(g) = 1 /\ TargetSlot(g) = 0
    BY <1>1 DEF Slots
<1>3. Newer(Succ(g), g) /\ ~ Newer(g, Succ(g))
    BY NewerFacts
<1>4. Succ(oth.gen) = g => Newer(g, oth.gen) /\ ~ Newer(oth.gen, g)
    BY <1>1, NewerFacts
<1> QED
    BY <1>2, <1>3, <1>4, UnreadableFacts DEF Newest

(* The store while the program runs.                                         *)
Running == Basic /\ phase # "off" /\ OtherSlot /\ NothingStored

(* The newest record then is the record of the confirmed configuration, or,  *)
(* when a save is about to be verified, the one just written.                *)
LEMMA NewestWhileRunning ==
    Running => LET o == slots[TargetSlot(generation)]
               IN  IF phase = "verify" /\ o = Record(Succ(generation), request)
                   THEN Newest(slots) = o /\ Stored = request
                   ELSE /\ Newest(slots) = slots[SlotOf(generation)]
                        /\ Stored = confirmed
                        /\ o = Unreadable \/ Newest(slots) # o
<1> SUFFICES ASSUME Running
             PROVE  LET o == slots[TargetSlot(generation)]
                    IN  IF phase = "verify" /\ o = Record(Succ(generation), request)
                        THEN Newest(slots) = o /\ Stored = request
                        ELSE /\ Newest(slots) = slots[SlotOf(generation)]
                             /\ Stored = confirmed
                             /\ o = Unreadable \/ Newest(slots) # o
    OBVIOUS
<1> DEFINE o == slots[TargetSlot(generation)]
           c == slots[SlotOf(generation)]
<1>1. /\ generation \in Generations /\ Succ(generation) \in Generations
      /\ slots \in [Slots -> Records] /\ confirmed \in Configs \cup {NoConfig}
    BY SlotFacts DEF Running, Basic, TypeOK
<1>2. IF confirmed = NoConfig THEN c = Unreadable ELSE c = Record(generation, confirmed)
    BY ConfigStoreAssumption DEF Running, Basic, ConfirmedRecordIntact, NothingStored, SlotOf
<1>3. c = Unreadable \/ (c.readable /\ c.gen = generation)
    BY <1>1, <1>2, RecordFacts
<1>4. c.cfg = confirmed
    BY <1>1, <1>2, RecordFacts, UnreadableFacts
<1>5. CASE phase = "verify" /\ o = Record(Succ(generation), request)
    <2>1. request \in Configs
        BY <1>5 DEF Running, Basic, SaveProgress, Saving
    <2>2. o.readable /\ o.gen = Succ(generation) /\ o.cfg = request
        BY <1>1, <1>5, <2>1, RecordFacts
    <2>3. Newest(slots) = o
        BY <1>1, <1>3, <2>2, NewestFacts
    <2> QED BY <1>5, <2>2, <2>3 DEF Stored
<1>6. CASE ~ (phase = "verify" /\ o = Record(Succ(generation), request))
    <2>1. CASE o = Unreadable
        <3>1. Newest(slots) = c
            BY <1>1, <1>3, <2>1, NewestFacts
        <3> QED BY <1>4, <1>6, <2>1, <3>1 DEF Stored
    <2>2. CASE confirmed # NoConfig /\ Succ(o.gen) = generation
        <3>1. c.readable /\ c.gen = generation
            BY <1>1, <1>2, <2>2, RecordFacts
        <3>2. Newest(slots) = c
            BY <1>1, <2>2, <3>1, NewestFacts
        <3>3. o.gen # generation
            BY <1>1, <2>2, ConfigStoreAssumption DEF Succ, Generations
        <3> QED BY <1>4, <1>6, <3>1, <3>2, <3>3 DEF Stored
    <2> QED BY <1>6, <2>1, <2>2 DEF Running, OtherSlot
<1> QED BY <1>5, <1>6

(* That shape makes two valid records consecutive, and a power loss harmless.*)
LEMMA RunningFacts == Running => Adjacent /\ Recoverable
<1> SUFFICES ASSUME Running PROVE Adjacent /\ Recoverable
    OBVIOUS
<1> DEFINE o == slots[TargetSlot(generation)]
           c == slots[SlotOf(generation)]
<1>1. /\ generation \in Generations /\ slots \in [Slots -> Records] /\ Succ(generation) \in Generations
      /\ confirmed \in Configs \cup {NoConfig}
    BY SlotFacts DEF Running, Basic, TypeOK
<1>2. \/ SlotOf(generation) = 0 /\ TargetSlot(generation) = 1
      \/ SlotOf(generation) = 1 /\ TargetSlot(generation) = 0
    BY <1>1, SlotFacts DEF Slots
<1>3. c = Unreadable \/ c.gen = generation
    BY <1>1, ConfigStoreAssumption, RecordFacts DEF Running, Basic, ConfirmedRecordIntact, NothingStored, SlotOf
<1>4. phase = "verify" => request \in Configs
    BY DEF Running, Basic, SaveProgress, Saving
<1>5. o = Unreadable \/ Succ(o.gen) = generation \/ o.gen = Succ(generation)
    BY <1>1, <1>4, RecordFacts DEF Running, OtherSlot
<1>6. Adjacent
    BY <1>2, <1>3, <1>5 DEF Adjacent
<1>7. Recoverable
    BY <1>4, NewestWhileRunning, ConfigStoreAssumption DEF Recoverable
<1> QED BY <1>6, <1>7

LEMMA RunningFactsNext == Running' => Adjacent' /\ Recoverable'
BY RunningFacts, PTL

LEMMA InitStrict == Init => Strict
BY InitBasic, UnreadableFacts
   DEF Init, Strict, Adjacent, Recoverable, Stored, Newest, Slots

(* A load that can read both slots takes the newest and starts from it.      *)
LEMMA HonestLoad ==
    ASSUME Strict, Load, Honest
    PROVE  generation' = Newest(slots).gen /\ confirmed' = Newest(slots).cfg
<1>1. UnreadSets = {{}}
    BY DEF Honest, UnreadSets
<1>2. [s \in Slots |-> IF s \in {} THEN Unreadable ELSE slots[s]] = slots
    BY DEF Strict, Basic, TypeOK
<1> QED BY <1>1, <1>2 DEF Load

LEMMA LoadStrict == ASSUME Strict, Load, Honest PROVE Strict'
<1>1. Basic'
    BY LoadBasic DEF Strict
<1>2. slots' = slots /\ phase' = "ready" /\ phase = "off"
    BY DEF Load
<1> DEFINE found == Newest(slots)
<1>3. generation' = found.gen /\ confirmed' = found.cfg
    BY HonestLoad
<1>4. slots \in [Slots -> Records] /\ SlotParity
    BY DEF Strict, Basic, TypeOK
<1>5. Adjacent'
    BY <1>2 DEF Strict, Adjacent
<1>6. Recoverable'
    BY <1>2, <1>3 DEF Recoverable, Stored
<1>7. CASE found = Unreadable
    <2>1. slots[0] = Unreadable /\ slots[1] = Unreadable
        BY <1>4, <1>7 DEF Newest, SlotParity, Slots, Unreadable
    <2>2. slots[TargetSlot(generation')] = Unreadable
        BY <1>3, <1>7, <2>1, UnreadableFacts, SlotFacts DEF Generations, SlotOf, TargetSlot, Succ, Slots
    <2> QED BY <1>1, <1>2, <1>3, <1>5, <1>6, <1>7, <2>1, <2>2, UnreadableFacts
            DEF Strict, OtherSlot, NothingStored
<1>8. CASE found # Unreadable
    <2>1. PICK t \in Slots : found = slots[t]
        BY DEF Newest, Slots
    <2>2. found.cfg \in Configs /\ SlotOf(found.gen) = t /\ found.gen \in Generations
        BY <1>4, <1>8, <2>1 DEF SlotParity, Records
    <2>3. confirmed' # NoConfig
        BY <1>3, <2>2, ConfigStoreAssumption
    <2> DEFINE u == TargetSlot(found.gen)
    <2>4. u \in Slots /\ u # t
        BY <2>2, SlotFacts
    <2>5. slots[u] = Unreadable \/ Succ(slots[u].gen) = found.gen
        <3>1. CASE slots[0] # Unreadable /\ slots[1] # Unreadable
            <4>1. slots[0].readable /\ slots[1].readable /\ slots[0].gen \in Generations /\ slots[1].gen \in Generations
                BY <1>4, <3>1 DEF SlotParity, Slots, Records
            <4>2. CASE slots[1].gen = Succ(slots[0].gen)
                <5>1. found = slots[1]
                    BY <4>1, <4>2, NewerFacts DEF Newest
                <5>2. t = 1
                    BY <1>4, <3>1, <5>1, <2>2 DEF SlotParity, Slots
                <5>3. u = 0
                    BY <2>4, <5>2 DEF Slots
                <5> QED BY <4>2, <5>1, <5>3
            <4>3. CASE slots[0].gen = Succ(slots[1].gen)
                <5>1. found = slots[0]
                    BY <4>1, <4>3, NewerFacts DEF Newest
                <5>2. t = 0
                    BY <1>4, <3>1, <5>1, <2>2 DEF SlotParity, Slots
                <5>3. u = 1
                    BY <2>4, <5>2 DEF Slots
                <5> QED BY <4>3, <5>1, <5>3
            <4> QED BY <3>1, <4>2, <4>3 DEF Strict, Adjacent
        <3>2. CASE slots[0] = Unreadable \/ slots[1] = Unreadable
            BY <1>8, <2>1, <2>4, <3>2 DEF Slots
        <3> QED BY <3>1, <3>2
    <2> QED BY <1>1, <1>2, <1>3, <1>5, <1>6, <2>3, <2>5 DEF Strict, OtherSlot, NothingStored
<1> QED BY <1>7, <1>8

LEMMA FlashStrict == ASSUME Strict, Flash, Honest PROVE Strict'
<1> DEFINE t == TargetSlot(generation)
           new == Record(Succ(generation), request)
<1>1. Basic' /\ Basic
    BY FlashBasic DEF Strict
<1>2. /\ generation \in Generations /\ Succ(generation) \in Generations
      /\ t \in Slots /\ SlotOf(generation) \in Slots /\ SlotOf(generation) # t
      /\ SlotOf(Succ(generation)) = t /\ TargetSlot(Succ(generation)) = SlotOf(generation)
      /\ slots \in [Slots -> Records]
    <2>1. generation \in Generations /\ slots \in [Slots -> Records]
        BY DEF Strict, Basic, TypeOK
    <2>2. /\ Succ(generation) \in Generations /\ t \in Slots /\ SlotOf(generation) \in Slots
          /\ SlotOf(generation) # t /\ SlotOf(Succ(generation)) = t
        BY <2>1, SlotFacts
    <2>3. TargetSlot(Succ(generation)) \in Slots /\ TargetSlot(Succ(generation)) # t
        BY <2>2, SlotFacts
    <2> QED BY <2>1, <2>2, <2>3 DEF Slots
<1>3. phase \in Saving /\ request \in Configs /\ phase # "off" /\ OtherSlot /\ NothingStored /\ phase' # "off"
    BY DEF Flash, EraseOK, EraseFails, ProgramOK, ProgramCorrupts, ProgramFails, VerifyOK, VerifyFails,
           Saving, Return, Strict, Basic, SaveProgress
<1>4. OtherSlot' /\ NothingStored'
    <2>1. CASE VerifyOK
        <3>1. slots[t] = new /\ slots' = slots /\ generation' = Succ(generation) /\ confirmed' = request /\ phase' = "ready"
            BY <2>1, <1>1, UnreadableFacts DEF VerifyOK, Verified, Basic, SaveProgress, Return
        <3>2. confirmed' # NoConfig
            BY <1>3, <3>1, ConfigStoreAssumption
        <3>3. slots[SlotOf(generation)] = Unreadable \/ slots[SlotOf(generation)].gen = generation
            BY <1>1, <1>2, <1>3, RecordFacts, ConfigStoreAssumption
               DEF Basic, TypeOK, ConfirmedRecordIntact, NothingStored, SlotOf
        <3> QED
            BY <1>2, <3>1, <3>2, <3>3 DEF OtherSlot, NothingStored
    <2>2. CASE ~ VerifyOK
        <3>1. generation' = generation /\ confirmed' = confirmed
            BY <2>2 DEF Flash, EraseOK, EraseFails, ProgramOK, ProgramCorrupts, ProgramFails, VerifyFails
        <3>2. slots'[SlotOf(generation)] = slots[SlotOf(generation)]
            BY <1>2 DEF Flash, EraseOK, EraseFails, ProgramOK, ProgramCorrupts, ProgramFails, VerifyOK, VerifyFails, Programmed
        <3>3. NothingStored'
            <4> SUFFICES ASSUME confirmed = NoConfig PROVE slots'[0] = Unreadable /\ generation' = 0
                BY <3>1 DEF NothingStored
            <4>1. generation = 0 /\ slots[0] = Unreadable /\ SlotOf(generation) = 0
                BY <1>3 DEF NothingStored, SlotOf
            <4> QED BY <3>1, <3>2, <4>1
        <3>4. \/ slots'[t] = Unreadable
              \/ phase' = "verify" /\ request' = request /\ slots'[t] = new
              \/ slots'[t] = slots[t] /\ phase # "verify"
            <4>1. CASE EraseOK \/ EraseFails \/ ProgramOK \/ ProgramCorrupts
                BY <1>2, <4>1, <1>1 DEF EraseOK, EraseFails, ProgramOK, ProgramCorrupts, Programmed, Basic, SaveProgress
            <4>2. CASE ProgramFails
                BY <4>2, <1>1 DEF ProgramFails, Honest, Basic, SaveProgress
            <4>3. CASE VerifyFails
                BY <1>1, <1>2, <1>3, <4>3, RecordFacts DEF VerifyFails, Honest, Verified, Basic, SaveProgress
            <4> QED BY <2>2, <4>1, <4>2, <4>3 DEF Flash
        <3>5. OtherSlot'
            BY <1>3, <3>1, <3>4 DEF OtherSlot
        <3> QED BY <3>3, <3>5
    <2> QED BY <2>1, <2>2
<1> QED BY <1>1, <1>3, <1>4, RunningFactsNext DEF Strict, Running

LEMMA SaveBeginStrict == ASSUME Strict, NEW c \in Configs, SaveBegin(c) PROVE Strict'
<1>1. Basic'
    BY StepBasic DEF Strict, Next
<1>2. /\ slots' = slots /\ generation' = generation /\ confirmed' = confirmed
      /\ phase = "ready" /\ phase' = "erase"
    BY DEF SaveBegin
<1>3. OtherSlot' /\ NothingStored'
    BY <1>2 DEF Strict, OtherSlot, NothingStored
<1> QED BY <1>1, <1>2, <1>3, RunningFactsNext DEF Strict, Running

LEMMA PowerLossStrict == ASSUME Strict, PowerLoss PROVE Strict'
<1>1. Basic'
    BY StepBasic DEF Strict, Next
<1>2. /\ slots' = slots /\ phase # "off" /\ phase' = "off"
      /\ confirmed' = confirmed /\ request' = request
    BY DEF PowerLoss, RamGone
<1>3. Recoverable'
    BY <1>2 DEF Strict, Recoverable, Stored
<1>4. Adjacent'
    BY <1>2 DEF Strict, Adjacent
<1> QED BY <1>1, <1>2, <1>3, <1>4 DEF Strict

LEMMA StepStrict == Honest => (Strict /\ [Next]_vars => Strict')
<1> SUFFICES ASSUME Honest, Strict, [Next]_vars PROVE Strict'
    OBVIOUS
<1>1. CASE Load
    BY <1>1, LoadStrict
<1>2. CASE (\E c \in BadConfigs : RejectInvalid(c)) \/ UNCHANGED vars
    <2>1. Basic'
        BY StepBasic DEF Strict
    <2>2. UNCHANGED <<slots, generation, phase, request, confirmed>>
        BY <1>2 DEF RejectInvalid, vars
    <2> QED BY <2>1, <2>2 DEF Strict, Adjacent, Recoverable, Stored, OtherSlot, NothingStored
<1>3. CASE \E c \in Configs : SaveBegin(c)
    BY <1>3, SaveBeginStrict
<1>4. CASE Flash
    BY <1>4, FlashStrict
<1>5. CASE PowerLoss
    BY <1>5, PowerLossStrict
<1> QED BY <1>1, <1>2, <1>3, <1>4, <1>5 DEF Next

LEMMA StrictHolds == ASSUME Honest PROVE Spec => []Strict
<1>1. Strict /\ [Next]_vars => Strict'
    BY StepStrict
<1> QED BY <1>1, InitStrict, PTL DEF Spec

(* With honest storage, a power cycle at any instant brings back the last    *)
(* confirmed configuration or the one whose save it interrupted.             *)
THEOREM PowerLossIsHarmless == ASSUME Honest PROVE Spec => []Recoverable
<1>1. Strict => Recoverable
    BY DEF Strict
<1> QED BY <1>1, StrictHolds, PTL

(* With honest storage, the valid record a reboot would load is never erased *)
(* or overwritten.                                                           *)
THEOREM NewestNeverTouched == ASSUME Honest PROVE Spec => NewestIsPreserved
<1> DEFINE Kept == \A s \in Slots : slots[s].readable /\ Newest(slots) = slots[s] => slots'[s] = slots[s]
<1>1. ASSUME Strict, [Next]_vars PROVE Kept
    <2>1. CASE Flash
        <3> DEFINE t == TargetSlot(generation)
        <3>1. Running
            BY <2>1, <1>1 DEF Strict, Running, Flash, EraseOK, EraseFails, ProgramOK, ProgramCorrupts, ProgramFails,
                        VerifyOK, VerifyFails
        <3>2. \A s \in Slots : s # t => slots'[s] = slots[s]
            BY <2>1, <1>1 DEF Strict, Basic, TypeOK, Flash, EraseOK, EraseFails, ProgramOK, ProgramCorrupts,
                       ProgramFails, VerifyOK, VerifyFails, Programmed
        <3>3. ~ slots[t].readable \/ Newest(slots) # slots[t] \/ slots' = slots
            <4>1. CASE phase = "verify"
                BY <2>1, <4>1 DEF Flash, EraseOK, EraseFails, ProgramOK, ProgramCorrupts, ProgramFails,
                                  VerifyOK, VerifyFails
            <4>2. CASE phase # "verify"
                BY <3>1, <4>2, NewestWhileRunning, UnreadableFacts
            <4> QED BY <4>1, <4>2
        <3> QED BY <3>2, <3>3
    <2>2. CASE ~ Flash
        BY <1>1, <2>2 DEF Next, vars, Load, RejectInvalid, SaveBegin, PowerLoss, RamGone
    <2> QED BY <2>1, <2>2
<1>2. ASSUME Strict, [Next]_vars PROVE [Kept]_vars
    BY <1>1, <1>2
<1> QED BY <1>2, StrictHolds, PTL DEF Spec, NewestIsPreserved

(* With honest storage, erase - program - read back on two slots implements  *)
(* one durable register: every step of the store is a step of DurableConfig  *)
(* or leaves the register alone.                                             *)
THEOREM StoreImplementsRegister == ASSUME Honest PROVE Spec => ImplementsRegister
<1> USE DEF Register!vars
<1>1. Init => Register!Init
    BY UnreadableFacts DEF Init, Register!Init, Stored, Newest, Slots, Saving
<1>2. ASSUME Strict, Strict', [Next]_vars PROVE [Register!Next]_(Register!vars)
    <2> USE DEF Saving
    <2>1. CASE Load
        <3>1. Register!Boot
            BY <1>2, <2>1, HonestLoad DEF Load, Register!Boot, Stored
        <3> QED BY <3>1 DEF Register!Next
    <2>2. CASE (\E c \in BadConfigs : RejectInvalid(c)) \/ UNCHANGED vars
        BY <2>2 DEF RejectInvalid, vars, Stored
    <2>3. CASE \E c \in Configs : SaveBegin(c)
        <3>1. PICK c \in Configs : SaveBegin(c)
            BY <2>3
        <3>2. Register!Begin(c)
            BY <3>1 DEF SaveBegin, Register!Begin, Stored
        <3> QED BY <3>2 DEF Register!Next
    <2>4. CASE Flash
        <3>1. /\ phase \in Saving /\ phase # "off" /\ phase' # "off" /\ Running /\ Running' /\ request # NoConfig
              /\ phase' \in Saving \cup {"ready"}
            BY <1>2, <2>4, ConfigStoreAssumption
               DEF Strict, Running, Basic, SaveProgress, Flash, EraseOK, EraseFails, ProgramOK, ProgramCorrupts, ProgramFails,
                   VerifyOK, VerifyFails, Return
        <3>2. phase # "verify" => Stored = confirmed
            BY <3>1, NewestWhileRunning
        <3>3. phase' = "ready" => Stored' = confirmed'
            BY <1>2 DEF Strict, Recoverable
        <3>4. CASE phase' = "ready" /\ ~ VerifyOK
            <4>1. UNCHANGED confirmed /\ request' = NoConfig
                BY <2>4, <3>4 DEF Flash, EraseOK, EraseFails, ProgramOK, ProgramCorrupts, ProgramFails,
                                  VerifyFails, Return
            <4>2. Stored = confirmed
                <5>1. CASE VerifyFails
                    <6>1. UNCHANGED slots
                        BY <5>1 DEF VerifyFails
                    <6> QED BY <3>3, <3>4, <4>1, <6>1 DEF Stored
                <5>2. CASE ~ VerifyFails
                    BY <2>4, <3>2, <3>4, <5>2 DEF Flash, EraseOK, EraseFails, ProgramOK, ProgramCorrupts, ProgramFails
                <5> QED BY <5>1, <5>2
            <4>3. Register!Refuse
                BY <3>1, <3>3, <3>4, <4>1, <4>2 DEF Register!Refuse
            <4> QED BY <4>3 DEF Register!Next
        <3>5. CASE VerifyOK
            <4>1. Stored = request
                BY <3>3, <3>5 DEF VerifyOK, Return, Stored
            <4>2. Register!Confirm
                BY <3>5, <4>1 DEF VerifyOK, Return, Register!Confirm, Stored
            <4> QED BY <4>2 DEF Register!Next
        <3>6. CASE phase' # "ready"
            <4>1. UNCHANGED <<request, confirmed>> /\ phase # "verify" /\ phase' \in Saving
                BY <2>4, <3>1, <3>6 DEF Flash, EraseOK, EraseFails, ProgramOK, ProgramCorrupts, ProgramFails,
                                  VerifyOK, VerifyFails, Return
            <4>2. Stored' = confirmed' \/ Stored' = request'
                BY <1>2, <3>1 DEF Strict, Recoverable
            <4>3. CASE Stored' = Stored
                BY <3>1, <4>1, <4>3
            <4>4. CASE Stored' = request'
                <5>1. Register!Store
                    BY <3>1, <4>1, <4>4 DEF Register!Store
                <5> QED BY <5>1 DEF Register!Next
            <4> QED BY <3>2, <4>1, <4>2, <4>3, <4>4
        <3> QED BY <3>4, <3>5, <3>6
    <2>5. CASE PowerLoss
        <3>1. phase \in {"ready"} \cup Saving
            BY <1>2, <2>5 DEF PowerLoss, RamGone, Strict, Basic, TypeOK
        <3>2. Register!PowerLoss
            BY <2>5, <3>1 DEF PowerLoss, RamGone, Register!PowerLoss, Stored
        <3> QED BY <3>2 DEF Register!Next
    <2> QED BY <1>2, <2>1, <2>2, <2>3, <2>4, <2>5 DEF Next
<1> QED
    BY <1>1, <1>2, StrictHolds, PTL DEF Spec, ImplementsRegister, Register!Spec
====
