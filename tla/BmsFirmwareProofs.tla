---- MODULE BmsFirmwareProofs ----
(* Proofs about BmsFirmware, for every number of requests, sessions and      *)
(* fragments. What holds of the store comes from ConfigStoreProofs.          *)
EXTENDS BmsFirmware, TLAPS

SP == INSTANCE ConfigStoreProofs WITH BadConfigs <- {}

------------------------------------------------------------------------------
(* Where the main loop, the store and the pending save are. A save that has  *)
(* returned but is not answered yet is SavedOk if its record was verified.   *)
SavedOk == loop = "saving" /\ phase = "ready" /\ status = "ok"

Off == /\ loop = "sdk" /\ pending = NoPending /\ ~ enabled
       /\ params = 0 /\ name = 0 /\ gapName = 0
       /\ ~ connected
       /\ tx = FreeBuffer /\ air = NoFrame /\ waiting = 0
       /\ slots = BlankSlots /\ request = NoConfig /\ confirmed = NoConfig
       /\ started = Len(sent)

Control ==
    /\ phase = "off" => Off
    /\ phase # "off" => enabled
    /\ phase \in Store!Saving => loop = "saving" /\ request = SavedConfig
    /\ phase = "ready" => request = NoConfig
    /\ loop = "saving" => /\ phase \in Store!Saving \cup {"ready"}
                          /\ pending.kind # "none"
                          /\ phase = "ready" => status \in {"ok", "error"}
    /\ pending.kind # "none" => enabled /\ pending.id \in Ids
    /\ pending.kind = "none" => pending.id = 0
    /\ SavedOk => confirmed = SavedConfig

(* The session: authorised only while connected and after its encryption;    *)
(* what waits in the inbox was sent by it, in order.                         *)
Session ==
    /\ connected => sessions \in 1 .. MaxSessions
    /\ authorized => connected /\ sessions \in secured
    /\ inbox # <<>> => connected
    /\ \A i \in DOMAIN inbox : /\ inbox[i].id \in DOMAIN sent
                               /\ sent[inbox[i].id] = inbox[i]
                               /\ inbox[i].session = sessions
    /\ \A i, j \in DOMAIN inbox : i < j => inbox[i].id < inbox[j].id

(* A value in use: the default, or written by an earlier request of a        *)
(* session that had completed encryption.                                    *)
Before(id, box) == \A i \in DOMAIN box : id < box[i].id
WrittenBefore(v, s, sec, box) == v = 0 \/ (v \in DOMAIN s /\ s[v].session \in sec /\ Before(v, box))

Ahead(id) == Before(id, inbox)
Past(v) == WrittenBefore(v, sent, secured, inbox)
PastConfig(c) == c = NoConfig \/ (Past(c.params) /\ Past(c.name))

Written ==
    /\ Past(params) /\ Past(name) /\ Past(pending.id) /\ Past(pending.previous)
    /\ pending.kind = "params" => pending.previous < pending.id /\ params = pending.id
    /\ PastConfig(request) /\ PastConfig(confirmed)
    /\ \A s \in Store!Slots : PastConfig(slots[s].cfg)

(* The parameters in force are those last confirmed; while a parameter save  *)
(* is pending, those are what a failure goes back to.                        *)
ConfirmedParams == IF confirmed = NoConfig THEN 0 ELSE confirmed.params
ConfirmedName == IF confirmed = NoConfig THEN 0 ELSE confirmed.name

InForce ==
    Running /\ enabled =>
        IF pending.kind = "params" /\ ~ SavedOk
        THEN pending.previous = ConfirmedParams /\ params = pending.id
        ELSE params = ConfirmedParams

(* An answer belongs to an earlier request; the answers heard, the one in    *)
(* the air, the one being pushed and the pending one are different ones.     *)
OwnAnswer(f, s, box) == f.id \in DOMAIN s /\ f.kind = s[f.id].kind /\ Before(f.id, box)
AnswersOwn(f) == OwnAnswer(f, sent, inbox)
NotHeard(id) == \A i \in DOMAIN answers : answers[i].id # id

Answers ==
    /\ \A i \in DOMAIN answers : AnswersOwn(answers[i])
    /\ \A i, j \in DOMAIN answers : answers[i].id = answers[j].id => i = j
    /\ air # NoFrame => AnswersOwn(air) /\ NotHeard(air.id)
    /\ tx.frame # NoFrame => AnswersOwn(tx.frame)
    /\ tx.left > 0 => tx.frame # NoFrame /\ NotHeard(tx.frame.id) /\ air.id # tx.frame.id
    /\ pending.kind # "none" => /\ AnswersOwn(pending) /\ NotHeard(pending.id)
                                /\ pending.id \notin {air.id, tx.frame.id}

(* Every answer that has left a handler, and what is acknowledged since the  *)
(* program started.                                                          *)
Known == {answers[i] : i \in DOMAIN answers} \cup ({tx.frame, air} \ {NoFrame})
AckedUpTo(k, v) == \A a \in Known : a.ok /\ a.kind = k /\ a.id > started => a.id <= v

(* No acknowledged write is newer than what is confirmed, than what is being *)
(* saved, and than what RAM would save next.                                 *)
Durable ==
    /\ AckedUpTo("params", ConfirmedParams) /\ AckedUpTo("name", ConfirmedName)
    /\ request # NoConfig => AckedUpTo("params", request.params) /\ AckedUpTo("name", request.name)
    /\ Running => AckedUpTo("name", name)
    /\ pending.kind # "none" => AckedUpTo("params", pending.id) /\ AckedUpTo("name", pending.id)

(* Refused parameters are in none of the places parameters can come back from. *)
Live(v) == \/ v \in {params, pending.previous, ConfirmedParams}
           \/ request # NoConfig /\ v = request.params
           \/ pending.kind = "params" /\ v = pending.id

Forgotten == \A a \in Known : a.kind = "params" /\ ~ a.ok => ~ Live(a.id)

(* A read that is not answered yet sees every write acknowledged before it.  *)
SeesHeard(f) == f.kind = "read" /\ f.ok =>
    \A i \in DOMAIN answers :
        answers[i].ok /\ answers[i].kind = "params" /\ answers[i].id > started => answers[i].id <= f.value

ReadsOrdered ==
    /\ ReadsSeeWrites
    /\ SeesHeard(air)
    /\ tx.left > 0 => /\ SeesHeard(tx.frame)
                      /\ (tx.frame.kind = "read" /\ tx.frame.ok /\ air.ok /\ air.kind = "params" /\ air.id > started)
                            => air.id <= tx.frame.value

NameShown == Running => gapName = name

Base == TypeOK /\ Control /\ Session /\ Written /\ InForce /\ Answers

------------------------------------------------------------------------------
LEMMA StoreConstants == SP!ConfigStoreAssumption
BY StoreAssumption DEF SP!ConfigStoreAssumption, SP!FaultKinds, Store!FaultKinds

LEMMA TailFacts ==
    ASSUME NEW S, NEW s \in Seq(S), s # <<>>
    PROVE  /\ 1 \in DOMAIN s /\ Head(s) = s[1] /\ Head(s) \in S
           /\ Tail(s) \in Seq(S)
           /\ \A i \in DOMAIN Tail(s) : i \in Int /\ i > 0 /\ i + 1 \in DOMAIN s /\ Tail(s)[i] = s[i + 1]
OBVIOUS

LEMMA AppendFacts ==
    ASSUME NEW S, NEW s \in Seq(S), NEW e \in S
    PROVE  /\ Append(s, e) \in Seq(S)
           /\ Len(Append(s, e)) = Len(s) + 1 /\ Len(s) \in Nat
           /\ DOMAIN Append(s, e) = DOMAIN s \cup {Len(s) + 1}
           /\ \A i \in DOMAIN s : Append(s, e)[i] = s[i] /\ i \in 1 .. Len(s)
           /\ Append(s, e)[Len(s) + 1] = e
OBVIOUS

LEMMA NoFrameFacts == /\ NoFrame \in Frames /\ NoFrame.id = 0 /\ NoFrame.kind = "none" /\ ~ NoFrame.ok
                      /\ \A f \in Frames \ {NoFrame} : f.id \in Ids /\ f.kind \in AllKinds /\ f.ok \in BOOLEAN
                                                          /\ f.value \in Values
                      /\ FreeBuffer.frame = NoFrame /\ FreeBuffer.left = 0
BY BmsFirmwareAssumption DEF NoFrame, Frames, Ids, AllKinds, FreeBuffer

(* What the steps of the store do, for the firmware.                         *)
LEMMA FlashFacts ==
    ASSUME TypeOK, Control, FlashStep
    PROVE  /\ phase \in Store!Saving /\ phase # "off" /\ phase' # "off" /\ loop = "saving" /\ loop' = "saving"
           /\ UNCHANGED <<ram, pending, tx, loop, link, client>>
           /\ request \in Configs
           /\ \/ /\ phase' \in Store!Saving /\ phase' # "ready"
                 /\ UNCHANGED <<request, confirmed>>
              \/ /\ phase' = "ready" /\ request' = NoConfig
                 /\ \/ status' = "ok" /\ confirmed' = request
                    \/ status' = "error" /\ confirmed' = confirmed
           /\ \A s \in Store!Slots : slots'[s].cfg \in {slots[s].cfg, NoConfig, request}
           /\ Store!TypeOK'
<1> USE DEF Store!EraseOK, Store!EraseFails, Store!ProgramOK, Store!ProgramCorrupts, Store!ProgramFails,
            Store!VerifyOK, Store!VerifyFails, Store!Return
<1>1. Store!Flash /\ UNCHANGED <<ram, pending, tx, loop, link, client>>
    BY DEF FlashStep
<1>2. phase \in Store!Saving /\ phase # "off" /\ phase' # "off"
    BY <1>1 DEF Store!Flash, Store!Saving
<1>3. loop = "saving" /\ request \in Configs /\ loop' = loop
    BY <1>1, <1>2 DEF Control, SavedConfig, Configs, TypeOK, Ids, Values
<1>4. \/ phase' \in Store!Saving /\ phase' # "ready" /\ UNCHANGED <<request, confirmed>>
      \/ /\ phase' = "ready" /\ request' = NoConfig
         /\ \/ status' = "ok" /\ confirmed' = request
            \/ status' = "error" /\ confirmed' = confirmed
    BY <1>1 DEF Store!Flash, Store!Saving
<1> DEFINE t == Store!TargetSlot(generation)
           new == Store!Record(Store!Succ(generation), request)
<1>5. generation \in Store!Generations /\ Store!Succ(generation) \in Store!Generations /\ t \in Store!Slots
      /\ slots \in [Store!Slots -> Store!Records]
    BY StoreAssumption, SMTT(30)
       DEF TypeOK, Store!TypeOK, Store!Generations, Store!Succ, Store!TargetSlot, Store!SlotOf, Store!Slots
<1>6. new \in Store!Records /\ new.cfg = request /\ Store!Unreadable \in Store!Records /\ Store!Unreadable.cfg = NoConfig
    BY <1>3, <1>5, StoreAssumption DEF Store!Record, Store!Records, Store!Unreadable, Store!Generations
<1>7. slots' \in {slots, [slots EXCEPT ![t] = Store!Unreadable], [slots EXCEPT ![t] = new]}
    BY <1>1 DEF Store!Flash, Store!Programmed
<1>8. \A s \in Store!Slots : slots'[s].cfg \in {slots[s].cfg, NoConfig, request}
    BY <1>5, <1>6, <1>7
<1>9. Store!TypeOK'
    <2>1. slots' \in [Store!Slots -> Store!Records]
        BY <1>5, <1>6, <1>7
    <2>2. generation' \in Store!Generations /\ status' \in {"none", "ok", "error"}
        BY <1>1, <1>5 DEF Store!Flash, TypeOK, Store!TypeOK
    <2> QED BY <1>3, <1>4, <2>1, <2>2 DEF TypeOK, Store!TypeOK, Store!Saving
<1> QED BY <1>1, <1>2, <1>3, <1>4, <1>8, <1>9

(* At start-up nothing is found, so that the defaults stay and writes are    *)
(* enabled.                                                                  *)
LEMMA BootFacts ==
    ASSUME TypeOK, Control, Boot
    PROVE  /\ phase = "off" /\ phase' = "ready" /\ status' = "none" /\ enabled' = TRUE
           /\ Off /\ UNCHANGED <<slots, request, confirmed, params, name, gapName, pending, tx, loop, link, client>>
           /\ Store!TypeOK'
<1>1. Store!Load
    BY DEF Boot
<1>2. phase = "off" /\ phase' = "ready" /\ request' = NoConfig /\ slots' = slots /\ status' = "none"
    BY <1>1 DEF Store!Load
<1>3. Off
    BY <1>2 DEF Control
<1>4. PICK unread \in Store!UnreadSets :
          LET found == Store!Newest([s \in Store!Slots |-> IF s \in unread THEN Store!Unreadable ELSE slots[s]])
          IN  generation' = found.gen /\ confirmed' = found.cfg
    BY <1>1 DEF Store!Load
<1> DEFINE view == [s \in Store!Slots |-> IF s \in unread THEN Store!Unreadable ELSE slots[s]]
<1>5. \A s \in Store!Slots : view[s] = Store!Unreadable
    BY <1>3 DEF Off, BlankSlots
<1>6. Store!Newest(view) = Store!Unreadable
    BY <1>5 DEF Store!Newest, Store!Slots
<1>7. generation' = 0 /\ confirmed' = NoConfig
    BY <1>4, <1>6 DEF Store!Unreadable
<1>8. Store!TypeOK'
    BY <1>2, <1>7, StoreAssumption DEF TypeOK, Store!TypeOK, Store!Generations
<1>9. enabled' = TRUE /\ params' = 0 /\ name' = 0 /\ gapName' = 0
    BY <1>7 DEF Boot, Loaded
<1>10. UNCHANGED <<pending, tx, loop, link, client>>
    BY DEF Boot
<1> QED BY <1>2, <1>3, <1>7, <1>8, <1>9, <1>10 DEF Off

------------------------------------------------------------------------------
(* A request handled in the callback: answered at once, or left pending.     *)
LEMMA ReceiveFacts ==
    ASSUME TypeOK, Session, Receive
    PROVE  LET r == Head(inbox)
           IN  /\ InSdk /\ connected /\ r \in Requests /\ r.id \in DOMAIN sent /\ sent[r.id] = r
               /\ r.session = sessions /\ r.id \in Ids /\ r.kind \in AllKinds
               /\ inbox' = Tail(inbox) /\ inbox' \in Seq(Requests)
               /\ \A i \in DOMAIN inbox' : i + 1 \in DOMAIN inbox /\ inbox'[i] = inbox[i + 1] /\ r.id < inbox'[i].id
               /\ \A v : Ahead(v) => v < r.id
               /\ UNCHANGED <<store, name, gapName, enabled, loop, link, waiting, sent, air, answers>>
               /\ \/ /\ UNCHANGED <<params, pending>>
                     /\ \E ok \in BOOLEAN, v \in Values :
                           /\ Transmit(Answer(r, ok, v))
                           /\ IF r.kind = "read" THEN ok /\ v = params ELSE ~ ok
                  \/ /\ UNCHANGED tx /\ authorized /\ enabled /\ pending.kind = "none"
                     /\ \/ /\ r.kind = "params" /\ params' = r.id
                           /\ pending' = [kind |-> "params", id |-> r.id, previous |-> params]
                        \/ /\ r.kind = "name" /\ params' = params
                           /\ pending' = [kind |-> "name", id |-> r.id, previous |-> 0]
<1>1. InSdk /\ connected /\ inbox # <<>> /\ HandleFrame(Head(inbox)) /\ inbox' = Tail(inbox)
      /\ UNCHANGED <<store, name, gapName, enabled, loop, link, waiting, sent, air, answers>>
    BY DEF Receive
<1> DEFINE r == Head(inbox)
<1>2. inbox \in Seq(Requests)
    BY DEF TypeOK
<1>3. /\ 1 \in DOMAIN inbox /\ r = inbox[1] /\ r \in Requests /\ Tail(inbox) \in Seq(Requests)
      /\ \A i \in DOMAIN Tail(inbox) : i \in Int /\ i > 0 /\ i + 1 \in DOMAIN inbox /\ Tail(inbox)[i] = inbox[i + 1]
    BY <1>1, <1>2, TailFacts
<1>4. r.id \in DOMAIN sent /\ sent[r.id] = r /\ r.session = sessions
    BY <1>3 DEF Session
<1>5. \A i \in DOMAIN inbox' : i + 1 \in DOMAIN inbox /\ inbox'[i] = inbox[i + 1] /\ r.id < inbox'[i].id
    BY <1>1, <1>3 DEF Session
<1>6. \A v : Ahead(v) => v < r.id
    BY <1>3 DEF Ahead, Before
<1>7. r.id \in Ids /\ r.kind \in AllKinds
    BY <1>3 DEF Requests
<1>8. \/ /\ UNCHANGED <<params, pending>>
         /\ \E ok \in BOOLEAN, v \in Values :
               /\ Transmit(Answer(r, ok, v))
               /\ IF r.kind = "read" THEN ok /\ v = params ELSE ~ ok
      \/ /\ UNCHANGED tx /\ authorized /\ enabled /\ pending.kind = "none"
         /\ \/ /\ r.kind = "params" /\ params' = r.id
               /\ pending' = [kind |-> "params", id |-> r.id, previous |-> params]
            \/ /\ r.kind = "name" /\ params' = params
               /\ pending' = [kind |-> "name", id |-> r.id, previous |-> 0]
    <2>0. params \in Values /\ 0 \in Values
        BY BmsFirmwareAssumption DEF TypeOK, Values
    <2>1. CASE ReadParameters(r)
        BY <2>0, <2>1 DEF ReadParameters
    <2>2. CASE RefuseRequest(r)
        BY <2>0, <2>2 DEF RefuseRequest
    <2>3. CASE SetParameters(r)
        BY <2>3 DEF SetParameters, MaySave, MayWrite
    <2>4. CASE SetBleName(r)
        BY <2>4 DEF SetBleName, MaySave, MayWrite
    <2> QED BY <1>1, <2>1, <2>2, <2>3, <2>4 DEF HandleFrame
<1> QED BY <1>1, <1>3, <1>4, <1>5, <1>6, <1>7, <1>8

(* A save that has returned is answered, and nothing is pending any more.    *)
LEMMA FinishFacts ==
    ASSUME TypeOK, Control, FinishParams \/ FinishName
    PROVE  /\ loop = "saving" /\ phase = "ready" /\ status \in {"ok", "error"}
           /\ pending.kind # "none" /\ pending.id \in Ids /\ enabled /\ request = NoConfig
           /\ \E ok \in BOOLEAN : /\ Transmit(Answer(pending, ok, 0))
                                  /\ ok => status = "ok"
                                  /\ pending.kind = "params" => (ok <=> status = "ok")
                                  /\ pending.kind = "name" /\ ok => name' = pending.id
           /\ pending' = NoPending /\ loop' = "sdk"
           /\ UNCHANGED <<store, enabled, link, client>>
<1>1. loop = "saving" /\ phase = "ready" /\ status \in {"ok", "error"}
      /\ pending.kind # "none" /\ pending.id \in Ids /\ enabled /\ request = NoConfig
    BY DEF FinishParams, FinishName, SaveReturned, Control
<1>2. \E ok \in BOOLEAN : /\ Finish(ok)
                          /\ ok => status = "ok"
                          /\ pending.kind = "params" => (ok <=> status = "ok")
                          /\ pending.kind = "name" /\ ok => name' = pending.id
    <2>1. CASE FinishParams
        <3>1. Finish(status = "ok") /\ pending.kind = "params"
            BY <2>1 DEF FinishParams
        <3> QED BY <3>1
    <2>2. CASE FinishName
        <3>1. pending.kind = "name"
            BY <2>2 DEF FinishName
        <3>2. CASE status = "ok" /\ name' = pending.id /\ Finish(TRUE)
            BY <3>1, <3>2
        <3>3. CASE Finish(FALSE)
            BY <3>1, <3>3
        <3> QED BY <2>2, <3>2, <3>3 DEF FinishName
    <2> QED BY <2>1, <2>2
<1> QED BY <1>1, <1>2 DEF Finish, Cleared

(* The buffer takes an answer only when it is free.                          *)
LEMMA TransmitFacts ==
    ASSUME TypeOK, NEW f \in Frames, Transmit(f)
    PROVE  /\ tx' \in [frame : Frames, left : 0 .. ReadFragments, whole : BOOLEAN]
           /\ \/ tx' = tx
              \/ tx.frame = NoFrame /\ tx'.frame = f /\ tx'.left > 0
<1>1. FragmentsOf(f) \in 1 .. ReadFragments /\ tx \in [frame : Frames, left : 0 .. ReadFragments, whole : BOOLEAN]
    BY BmsFirmwareAssumption DEF FragmentsOf, TypeOK
<1> QED BY <1>1 DEF Transmit

LEMMA AnswerFacts ==
    ASSUME NEW r, r.id \in Ids, r.kind \in AllKinds, NEW ok \in BOOLEAN, NEW v \in Values
    PROVE  /\ Answer(r, ok, v) \in Frames \ {NoFrame}
           /\ Answer(r, ok, v).id = r.id /\ Answer(r, ok, v).kind = r.kind
           /\ Answer(r, ok, v).ok = ok /\ Answer(r, ok, v).value = v
BY DEF Answer, Frames, NoFrame, Ids

------------------------------------------------------------------------------
(* Type correctness. *)
LEMMA InitBase == Init => Base
<1> SUFFICES ASSUME Init PROVE Base
    OBVIOUS
<1>1. /\ Store!Init /\ params = 0 /\ name = 0 /\ gapName = 0 /\ enabled = FALSE /\ pending = NoPending /\ tx = FreeBuffer
      /\ loop = "sdk" /\ connected = FALSE /\ authorized = FALSE /\ sessions = 0 /\ secured = {} /\ started = 0
      /\ inbox = <<>> /\ waiting = 0 /\ sent = <<>> /\ air = NoFrame /\ answers = <<>>
    BY DEF Init
<1>2. phase = "off" /\ request = NoConfig /\ confirmed = NoConfig /\ status = "none" /\ generation = 0
      /\ slots = [s \in Store!Slots |-> Store!Unreadable] /\ Store!Unreadable.cfg = NoConfig
    BY <1>1 DEF Store!Init, Store!Unreadable
<1>3. TypeOK
    <2>1. Store!TypeOK
        BY <1>2, StoreAssumption DEF Store!TypeOK, Store!Records, Store!Unreadable, Store!Generations
    <2>2. 0 \in Values /\ 0 \in 0 .. MaxSessions /\ 0 \in 0 .. ReadFragments
        BY BmsFirmwareAssumption DEF Values
    <2>3. pending \in [kind : {"none", "params", "name"}, id : Values, previous : Values]
        BY <1>1, <2>2 DEF NoPending
    <2>4. tx \in [frame : Frames, left : 0 .. ReadFragments, whole : BOOLEAN]
        BY <1>1, <2>2, NoFrameFacts DEF FreeBuffer
    <2>5. /\ inbox \in Seq(Requests) /\ sent \in Seq(Requests) /\ air \in Frames /\ answers \in Seq(Frames \ {NoFrame})
        BY <1>1, NoFrameFacts
    <2>6. started \in 0 .. Len(sent)
        BY <1>1
    <2> QED BY <1>1, <2>1, <2>2, <2>3, <2>4, <2>5, <2>6 DEF TypeOK
<1>4. Control
    BY <1>1, <1>2 DEF Control, Off, BlankSlots, NoPending, Store!Saving, SavedOk
<1>5. Session
    BY <1>1 DEF Session
<1>6. Written
    BY <1>1, <1>2 DEF Written, Past, PastConfig, WrittenBefore, NoPending
<1>7. InForce
    BY <1>2 DEF InForce, Running
<1>8. Answers
    BY <1>1, NoFrameFacts DEF Answers, NoPending
<1> QED BY <1>3, <1>4, <1>5, <1>6, <1>7, <1>8 DEF Base

LEMMA TypeStep == Base /\ [Next]_vars => TypeOK'
<1> SUFFICES ASSUME Base, [Next]_vars PROVE TypeOK'
    OBVIOUS
<1>0. TypeOK /\ Control /\ Session /\ Written /\ Answers
    BY DEF Base
<1> DEFINE Ram == {params, name, gapName} \subseteq Values /\ enabled \in BOOLEAN
           Pend == pending \in [kind : {"none", "params", "name"}, id : Values, previous : Values]
           Tx == tx \in [frame : Frames, left : 0 .. ReadFragments, whole : BOOLEAN]
           Loop == loop \in {"sdk", "gatt", "process", "saving"}
           Link == /\ {connected, authorized} \subseteq BOOLEAN
                   /\ sessions \in 0 .. MaxSessions /\ secured \subseteq 1 .. MaxSessions
           Start == started \in 0 .. Len(sent)
           Client == /\ inbox \in Seq(Requests) /\ sent \in Seq(Requests) /\ waiting \in Values
                     /\ air \in Frames /\ answers \in Seq(Frames \ {NoFrame})
<1>1. Store!TypeOK /\ Ram /\ Pend /\ Tx /\ Loop /\ Link /\ Start /\ Client
    BY <1>0 DEF TypeOK
<1>2. SUFFICES Store!TypeOK' /\ Ram' /\ Pend' /\ Tx' /\ Loop' /\ Link' /\ Start' /\ Client'
    BY DEF TypeOK
<1>3. /\ 0 \in Values /\ Ids \subseteq Values /\ NoFrame \in Frames
      /\ NoPending \in [kind : {"none", "params", "name"}, id : Values, previous : Values]
      /\ FreeBuffer \in [frame : Frames, left : 0 .. ReadFragments, whole : BOOLEAN]
      /\ 0 \in 0 .. MaxSessions
    BY BmsFirmwareAssumption DEF Values, Ids, Frames, NoPending, FreeBuffer
<1>4. UNCHANGED store => Store!TypeOK'
    BY <1>1 DEF store, Store!TypeOK
<1> USE DEF ram, link, client
<1>a. CASE Boot
    BY <1>a, <1>0, <1>1, BootFacts
<1>b. CASE PowerLoss
    <2>1. Store!TypeOK'
        BY <1>b, StoreAssumption
           DEF PowerLoss, BlankSlots, Store!TypeOK, Store!Records, Store!Unreadable, Store!Generations
    <2>2. Ram' /\ Pend' /\ Tx' /\ Loop'
        BY <1>b, <1>1, <1>3 DEF PowerLoss, RamLost
    <2>3. Client'
        BY <1>b, <1>1, <1>3 DEF PowerLoss, RamLost
    <2>4. Link'
        BY <1>b, <1>1 DEF PowerLoss, RamLost
    <2>5. started' = Len(sent) /\ sent' = sent /\ Len(sent) \in Nat
        BY <1>b, <1>1 DEF PowerLoss
    <2>6. Start'
        BY <2>5
    <2> QED BY <2>1, <2>2, <2>3, <2>4, <2>6
<1>c. CASE Connect
    <2>1. sessions \in 0 .. MaxSessions /\ sessions < MaxSessions /\ sessions' = sessions + 1
        BY <1>c, <1>1 DEF Connect
    <2>2. sessions' \in 0 .. MaxSessions
        BY <2>1, BmsFirmwareAssumption
    <2>3. connected' = TRUE /\ authorized' = FALSE /\ secured' = secured
        BY <1>c DEF Connect, SessionChanges
    <2> QED BY <1>c, <1>1, <1>4, <2>2, <2>3 DEF Connect
<1>d. CASE Disconnect
    <2>1. Tx'
        BY <1>d, <1>1 DEF Disconnect
    <2>2. Client'
        BY <1>d, <1>1, <1>3 DEF Disconnect
    <2> QED BY <1>d, <1>1, <1>4, <2>1, <2>2 DEF Disconnect, SessionChanges
<1>e. CASE EncryptionDone \/ PairingFails
    <2>1. Link'
        BY <1>e, <1>0, <1>1 DEF EncryptionDone, PairingFails, Session
    <2> QED BY <1>e, <1>1, <1>4, <2>1 DEF EncryptionDone, PairingFails
<1>f. CASE Receive
    <2> DEFINE r == Head(inbox)
    <2>1. /\ r.id \in Ids /\ r.kind \in AllKinds /\ inbox' \in Seq(Requests)
          /\ UNCHANGED <<store, name, gapName, enabled, loop, link, waiting, sent, air, answers>>
          /\ \/ /\ UNCHANGED <<params, pending>>
                /\ \E ok \in BOOLEAN, v \in Values : Transmit(Answer(r, ok, v))
             \/ /\ UNCHANGED tx
                /\ \/ /\ params' = r.id
                      /\ pending' = [kind |-> "params", id |-> r.id, previous |-> params]
                   \/ /\ params' = params
                      /\ pending' = [kind |-> "name", id |-> r.id, previous |-> 0]
        BY <1>0, <1>f, ReceiveFacts
    <2>2. \A ok \in BOOLEAN, v \in Values : Answer(r, ok, v) \in Frames
        BY <1>1, <1>3, <2>1, AnswerFacts
    <2>3. Tx'
        BY <1>0, <1>1, <2>1, <2>2, TransmitFacts
    <2>4. Ram' /\ Pend'
        <3>1. CASE UNCHANGED <<params, pending>>
            BY <1>1, <2>1, <3>1
        <3>2. CASE params' = r.id /\ pending' = [kind |-> "params", id |-> r.id, previous |-> params]
            BY <1>1, <1>3, <2>1, <3>2
        <3>3. CASE params' = params /\ pending' = [kind |-> "name", id |-> r.id, previous |-> 0]
            BY <1>1, <1>3, <2>1, <3>3
        <3> QED BY <2>1, <3>1, <3>2, <3>3
    <2> QED BY <1>1, <1>4, <2>1, <2>3, <2>4
<1>g. CASE SdkReturns \/ GattRefused \/ ProcessIdle
    BY <1>g, <1>1, <1>4 DEF SdkReturns, GattRefused, ProcessIdle
<1>h. CASE GattFree
    BY <1>h, <1>1, <1>3, <1>4 DEF GattFree
<1>i. CASE GattPush
    <2>1. Tx' /\ air' \in Frames
        BY <1>i, <1>1, BmsFirmwareAssumption DEF GattPush, Remaining
    <2> QED BY <1>i, <1>1, <1>4, <2>1 DEF GattPush
<1>j. CASE ProcessSave
    <2>1. Store!TypeOK'
        BY <1>j, <1>1 DEF ProcessSave, Store!SaveBegin, Store!TypeOK, Store!Saving
    <2> QED BY <1>j, <1>1, <2>1 DEF ProcessSave
<1>k. CASE FlashStep
    <2>1. Store!TypeOK'
        BY <1>k, <1>0, FlashFacts
    <2> QED BY <1>k, <1>1, <2>1 DEF FlashStep
<1>l. CASE FinishParams \/ FinishName
    <2>1. /\ pending.id \in Ids /\ pending.kind \in AllKinds /\ pending' = NoPending /\ loop' = "sdk"
          /\ UNCHANGED <<store, enabled, link, client>>
          /\ \E ok \in BOOLEAN : Transmit(Answer(pending, ok, 0))
        BY <1>0, <1>1, <1>l, FinishFacts DEF AllKinds
    <2>2. PICK ok \in BOOLEAN : Transmit(Answer(pending, ok, 0))
        BY <2>1
    <2>3. Answer(pending, ok, 0) \in Frames
        BY <1>3, <2>1, AnswerFacts
    <2>4. Tx'
        BY <1>0, <2>2, <2>3, TransmitFacts
    <2>5. Ram'
        BY <1>l, <1>1, <2>1 DEF FinishParams, FinishName, RolledBack, Shown
    <2> QED BY <1>1, <1>3, <1>4, <2>1, <2>4, <2>5
<1>m. CASE \E k \in Kinds : Send(k)
    <2>1. PICK k \in Kinds : Send(k)
        BY <1>m
    <2> DEFINE r == [id |-> Len(sent) + 1, kind |-> k, session |-> sessions]
    <2>2. connected /\ Len(sent) < MaxRequests /\ sent' = Append(sent, r) /\ inbox' = Append(inbox, r) /\ waiting' = r.id
          /\ UNCHANGED <<store, ram, pending, tx, loop, link, air, answers>>
        BY <2>1 DEF Send
    <2>3. Len(sent) + 1 \in Ids
        BY <1>1, <2>2, BmsFirmwareAssumption DEF Ids
    <2>4. r \in Requests
        BY <1>0, <2>2, <2>3, BmsFirmwareAssumption DEF Requests, Session
    <2>5. Start'
        BY <1>1, <2>2, <2>4
    <2> QED BY <1>1, <1>3, <1>4, <2>2, <2>3, <2>4, <2>5
<1>n. CASE Hear
    BY <1>n, <1>1, <1>3, <1>4 DEF Hear
<1>o. CASE GiveUp
    BY <1>o, <1>1, <1>3, <1>4 DEF GiveUp
<1>p. CASE UNCHANGED vars
    BY <1>p, <1>1, <1>4 DEF vars
<1> QED
    BY <1>a, <1>b, <1>c, <1>d, <1>e, <1>f, <1>g, <1>h, <1>i, <1>j, <1>k, <1>l, <1>m, <1>n, <1>o, <1>p
       DEF Next, Callbacks, Gatt, Process, Clients

------------------------------------------------------------------------------
(* The main loop, the store and the pending save go together.                *)
LEMMA ControlStep == Base /\ [Next]_vars => Control'
<1> SUFFICES ASSUME Base, [Next]_vars PROVE Control'
    OBVIOUS
<1>0. TypeOK /\ Control /\ Session /\ Written
    BY DEF Base
<1> USE DEF Control, Off, SavedOk, store, ram, link, client
<1>1. phase \in {"off", "ready"} \cup Store!Saving /\ "ready" \notin Store!Saving /\ "off" \notin Store!Saving
    BY <1>0 DEF TypeOK, Store!TypeOK, Store!Saving
<1>2. (UNCHANGED <<params, name, pending>>) => SavedConfig' = SavedConfig
    BY DEF SavedConfig
<1>a. CASE Boot
    BY <1>0, <1>a, <1>1, BootFacts DEF NoPending
<1>b. CASE PowerLoss
    BY <1>b, <1>1 DEF PowerLoss, RamLost, NoPending
<1>c. CASE Connect \/ Disconnect \/ EncryptionDone \/ PairingFails
    BY <1>c, <1>0, <1>1, <1>2 DEF Connect, Disconnect, EncryptionDone, PairingFails, InSdk, Running
<1>f. CASE Receive
    <2> DEFINE r == Head(inbox)
    <2>1. /\ InSdk /\ UNCHANGED <<store, enabled, loop>> /\ r.id \in Ids
          /\ \/ pending' = pending
             \/ enabled /\ pending' = [kind |-> "params", id |-> r.id, previous |-> params]
             \/ enabled /\ pending' = [kind |-> "name", id |-> r.id, previous |-> 0]
        BY <1>0, <1>f, ReceiveFacts
    <2>2. pending' = pending \/ (enabled /\ pending'.id \in Ids)
        BY <2>1
    <2> QED BY <1>0, <1>1, <2>1, <2>2 DEF InSdk, Running
<1>g. CASE SdkReturns \/ Gatt \/ ProcessIdle
    BY <1>g, <1>0, <1>1, <1>2 DEF SdkReturns, Gatt, GattFree, GattPush, GattRefused, ProcessIdle, InSdk, Running
<1>j. CASE ProcessSave
    BY <1>j, <1>0, <1>1, <1>2 DEF ProcessSave, Store!SaveBegin, Store!Saving
<1>k. CASE FlashStep
    BY <1>k, <1>0, <1>1, <1>2, FlashFacts
<1>l. CASE FinishParams \/ FinishName
    <2>1. /\ phase = "ready" /\ request = NoConfig /\ pending' = NoPending /\ loop' = "sdk" /\ UNCHANGED store /\ enabled'
        BY <1>0, <1>l, FinishFacts
    <2> QED BY <1>1, <2>1 DEF NoPending
<1>m. CASE \E k \in Kinds : Send(k)
    BY <1>m, <1>0, <1>1, <1>2 DEF Send, Running
<1>n. CASE Hear \/ GiveUp
    BY <1>n, <1>0, <1>1, <1>2 DEF Hear, GiveUp
<1>p. CASE UNCHANGED vars
    BY <1>p, <1>0, <1>1, <1>2 DEF vars
<1> QED
    BY <1>a, <1>b, <1>c, <1>f, <1>g, <1>j, <1>k, <1>l, <1>m, <1>n, <1>p DEF Next, Callbacks, Process, Clients

(* The session, its authorisation and what it has sent.                      *)
LEMMA SessionStep == Base /\ [Next]_vars => Session'
<1> SUFFICES ASSUME Base, [Next]_vars PROVE Session'
    OBVIOUS
<1>0. TypeOK /\ Control /\ Session
    BY DEF Base
<1> USE DEF store, ram, link, client
<1>1. inbox \in Seq(Requests) /\ sent \in Seq(Requests) /\ sessions \in 0 .. MaxSessions
    BY <1>0 DEF TypeOK
<1>2. (UNCHANGED <<link, inbox, sent>>) => Session'
    BY <1>0 DEF Session
<1>3. inbox' = <<>> => DOMAIN inbox' = {}
    OBVIOUS
<1>b. CASE PowerLoss
    BY <1>b, <1>3 DEF PowerLoss, RamLost, Session
<1>c. CASE Connect
    <2>1. /\ ~ connected /\ sessions < MaxSessions /\ sessions' = sessions + 1 /\ authorized' = FALSE
          /\ UNCHANGED <<secured, inbox, sent>>
        BY <1>c DEF Connect, SessionChanges
    <2>2. sessions' \in 1 .. MaxSessions
        BY <1>1, <2>1, BmsFirmwareAssumption
    <2>3. inbox' = <<>>
        BY <1>0, <2>1 DEF Session
    <2> QED BY <1>3, <2>1, <2>2, <2>3 DEF Session
<1>d. CASE Disconnect
    BY <1>d, <1>3 DEF Disconnect, SessionChanges, Session
<1>e. CASE EncryptionDone \/ PairingFails
    BY <1>e, <1>0 DEF EncryptionDone, PairingFails, Session
<1>f. CASE Receive
    <2>1. /\ connected /\ inbox' = Tail(inbox) /\ inbox' \in Seq(Requests)
          /\ \A i \in DOMAIN inbox' : i + 1 \in DOMAIN inbox /\ inbox'[i] = inbox[i + 1]
          /\ UNCHANGED <<link, sent>>
        BY <1>0, <1>f, ReceiveFacts
    <2>2. \A i \in DOMAIN inbox' : i \in Int
        BY <2>1
    <2>3. \A i, j \in DOMAIN inbox' : i < j => inbox'[i].id < inbox'[j].id
        BY <1>0, <2>1, <2>2 DEF Session
    <2> QED BY <1>0, <2>1, <2>3 DEF Session
<1>m. CASE \E k \in Kinds : Send(k)
    <2>1. PICK k \in Kinds : Send(k)
        BY <1>m
    <2> DEFINE r == [id |-> Len(sent) + 1, kind |-> k, session |-> sessions]
    <2>2. /\ connected /\ Len(sent) < MaxRequests /\ sent' = Append(sent, r) /\ inbox' = Append(inbox, r)
          /\ UNCHANGED link
        BY <2>1 DEF Send
    <2>3. r \in Requests
        BY <1>0, <1>1, <2>2, BmsFirmwareAssumption DEF Requests, Session, Ids
    <2>4. /\ DOMAIN sent' = DOMAIN sent \cup {Len(sent) + 1} /\ sent'[Len(sent) + 1] = r /\ Len(sent) \in Nat
          /\ \A i \in DOMAIN sent : sent'[i] = sent[i] /\ i \in 1 .. Len(sent)
        BY <1>1, <2>2, <2>3, AppendFacts
    <2>5. /\ DOMAIN inbox' = DOMAIN inbox \cup {Len(inbox) + 1} /\ inbox'[Len(inbox) + 1] = r /\ Len(inbox) \in Nat
          /\ \A i \in DOMAIN inbox : inbox'[i] = inbox[i] /\ i \in 1 .. Len(inbox)
        BY <1>1, <2>2, <2>3, AppendFacts
    <2>6. \A i \in DOMAIN inbox' :
             inbox'[i].id \in DOMAIN sent' /\ sent'[inbox'[i].id] = inbox'[i] /\ inbox'[i].session = sessions'
        BY <1>0, <2>2, <2>4, <2>5 DEF Session
    <2>7. \A i, j \in DOMAIN inbox' : i < j => inbox'[i].id < inbox'[j].id
        BY <1>0, <2>4, <2>5 DEF Session
    <2> QED BY <1>0, <2>2, <2>6, <2>7 DEF Session
<1>z. CASE UNCHANGED <<link, inbox, sent>>
    BY <1>2, <1>z
<1> QED
    BY <1>b, <1>c, <1>d, <1>e, <1>f, <1>m, <1>z
       DEF Next, Callbacks, Gatt, Process, Clients, vars, Boot, SdkReturns, GattFree, GattPush, GattRefused, ProcessIdle,
           ProcessSave, FlashStep, FinishParams, FinishName, Finish, Hear, GiveUp

------------------------------------------------------------------------------
(* Requests are handled in the order they were sent, so that whatever is     *)
(* behind the inbox stays behind it.                                         *)
LEMMA BeforeKept ==
    ASSUME TypeOK, Session, [Next]_vars, NEW id \in DOMAIN sent, Before(id, inbox)
    PROVE  /\ id \in DOMAIN sent' /\ sent'[id] = sent[id] /\ Before(id, inbox')
           /\ secured \subseteq secured'
<1> USE DEF store, ram, link, client
<1>1. inbox \in Seq(Requests) /\ sent \in Seq(Requests)
    BY DEF TypeOK
<1>a. CASE PowerLoss \/ Disconnect
    <2>1. inbox' = <<>> /\ UNCHANGED <<sent, secured>>
        BY <1>a DEF PowerLoss, RamLost, Disconnect
    <2> QED BY <2>1 DEF Before
<1>b. CASE EncryptionDone
    BY <1>b DEF EncryptionDone
<1>c. CASE Receive
    <2>1. /\ UNCHANGED <<sent, secured>>
          /\ \A i \in DOMAIN inbox' : i + 1 \in DOMAIN inbox /\ inbox'[i] = inbox[i + 1]
        BY <1>c, ReceiveFacts
    <2> QED BY <2>1 DEF Before
<1>d. CASE \E k \in Kinds : Send(k)
    <2>1. PICK k \in Kinds : Send(k)
        BY <1>d
    <2> DEFINE r == [id |-> Len(sent) + 1, kind |-> k, session |-> sessions]
    <2>2. /\ connected /\ Len(sent) < MaxRequests /\ sent' = Append(sent, r) /\ inbox' = Append(inbox, r)
          /\ UNCHANGED secured
        BY <2>1 DEF Send
    <2>3. r \in Requests
        BY <1>1, <2>2, BmsFirmwareAssumption DEF Requests, Session, Ids
    <2>4. /\ DOMAIN sent' = DOMAIN sent \cup {Len(sent) + 1} /\ Len(sent) \in Nat
          /\ \A i \in DOMAIN sent : sent'[i] = sent[i] /\ i \in 1 .. Len(sent)
        BY <1>1, <2>2, <2>3, AppendFacts
    <2>5. /\ DOMAIN inbox' = DOMAIN inbox \cup {Len(inbox) + 1} /\ inbox'[Len(inbox) + 1] = r
          /\ \A i \in DOMAIN inbox : inbox'[i] = inbox[i]
        BY <1>1, <2>2, <2>3, AppendFacts
    <2> QED BY <2>2, <2>4, <2>5 DEF Before
<1>z. CASE UNCHANGED <<secured, inbox, sent>>
    BY <1>z
<1> QED
    BY <1>a, <1>b, <1>c, <1>d, <1>z
       DEF Next, Callbacks, Gatt, Process, Clients, vars, Boot, Connect, PairingFails, SdkReturns, GattFree, GattPush,
           GattRefused, ProcessIdle, ProcessSave, FlashStep, FinishParams, FinishName, Finish, Hear, GiveUp

LEMMA PastKept ==
    ASSUME TypeOK, Session, [Next]_vars
    PROVE  /\ \A v : Past(v) => WrittenBefore(v, sent', secured', inbox')
           /\ \A f : AnswersOwn(f) => OwnAnswer(f, sent', inbox')
BY BeforeKept DEF Past, WrittenBefore, AnswersOwn, OwnAnswer

LEMMA WrittenStep == Base /\ [Next]_vars => Written'
<1> SUFFICES ASSUME Base, [Next]_vars PROVE Written'
    OBVIOUS
<1>0. TypeOK /\ Control /\ Session /\ Written
    BY DEF Base
<1> DEFINE PastNext(v) == WrittenBefore(v, sent', secured', inbox')
           Next1(c) == c = NoConfig \/ (PastNext(c.params) /\ PastNext(c.name))
<1>1. (\A v : Past(v) => PastNext(v)) /\ PastNext(0)
    BY <1>0, PastKept DEF WrittenBefore
<1>2. \A c : PastConfig(c) => Next1(c)
    BY <1>1 DEF PastConfig
<1>3. /\ PastNext(params) /\ PastNext(name) /\ PastNext(pending.id) /\ PastNext(pending.previous)
      /\ pending.kind = "params" => pending.previous < pending.id /\ params = pending.id
      /\ Next1(request) /\ Next1(confirmed)
      /\ \A s \in Store!Slots : Next1(slots[s].cfg)
    BY <1>0, <1>1, <1>2 DEF Written
<1> HIDE DEF PastNext
<1>4. SUFFICES /\ PastNext(params') /\ PastNext(name') /\ PastNext(pending'.id) /\ PastNext(pending'.previous)
               /\ pending'.kind = "params" => pending'.previous < pending'.id /\ params' = pending'.id
               /\ Next1(request') /\ Next1(confirmed')
               /\ \A s \in Store!Slots : Next1(slots'[s].cfg)
    BY DEF Written, Past, PastConfig, PastNext
<1> USE DEF store, ram, link, client
<1>a. CASE Boot
    BY <1>0, <1>a, <1>3, BootFacts
<1>b. CASE PowerLoss
    <2>1. \A s \in Store!Slots : slots'[s].cfg = NoConfig
        BY <1>b DEF PowerLoss, BlankSlots, Store!Unreadable
    <2> QED BY <1>b, <1>1, <2>1 DEF PowerLoss, RamLost, NoPending
<1>f. CASE Receive
    <2> DEFINE r == Head(inbox)
    <2>1. /\ r.id \in DOMAIN sent /\ sent[r.id] = r /\ r.session = sessions /\ r.id \in Ids
          /\ \A i \in DOMAIN inbox' : r.id < inbox'[i].id
          /\ \A v : Ahead(v) => v < r.id
          /\ UNCHANGED <<store, name, sent, link>>
          /\ \/ UNCHANGED <<params, pending>>
             \/ /\ authorized
                /\ \/ params' = r.id /\ pending' = [kind |-> "params", id |-> r.id, previous |-> params]
                   \/ params' = params /\ pending' = [kind |-> "name", id |-> r.id, previous |-> 0]
        BY <1>0, <1>f, ReceiveFacts
    <2>2. authorized => PastNext(r.id)
        BY <1>0, <2>1 DEF PastNext, WrittenBefore, Before, Session
    <2>3. params < r.id
        BY <1>0, <2>1 DEF Written, Past, WrittenBefore, Ahead, Ids
    <2>4. CASE UNCHANGED <<params, pending>>
        BY <1>3, <2>1, <2>4
    <2>5. CASE authorized /\ params' = r.id /\ pending' = [kind |-> "params", id |-> r.id, previous |-> params]
        BY <1>3, <2>1, <2>2, <2>3, <2>5
    <2>6. CASE authorized /\ params' = params /\ pending' = [kind |-> "name", id |-> r.id, previous |-> 0]
        BY <1>1, <1>3, <2>1, <2>2, <2>6
    <2> QED BY <2>1, <2>4, <2>5, <2>6
<1>j. CASE ProcessSave
    <2>1. Next1(SavedConfig)
        BY <1>3 DEF SavedConfig
    <2> QED BY <1>j, <1>3, <2>1 DEF ProcessSave, Store!SaveBegin
<1>k. CASE FlashStep
    <2>1. Next1(request') /\ Next1(confirmed')
        BY <1>0, <1>3, <1>k, FlashFacts
    <2>2. \A s \in Store!Slots : Next1(slots'[s].cfg)
        BY <1>0, <1>3, <1>k, FlashFacts
    <2> QED BY <1>k, <1>3, <2>1, <2>2 DEF FlashStep
<1>l. CASE FinishParams \/ FinishName
    <2>1. UNCHANGED store /\ pending' = NoPending
        BY <1>0, <1>l, FinishFacts
    <2>2. PastNext(params') /\ PastNext(name')
        BY <1>l, <1>3 DEF FinishParams, FinishName, RolledBack
    <2> QED BY <1>1, <1>3, <2>1, <2>2 DEF NoPending
<1>z. CASE UNCHANGED <<store, params, name, pending>>
    BY <1>3, <1>z
<1> QED
    BY <1>a, <1>b, <1>f, <1>j, <1>k, <1>l, <1>z
       DEF Next, Callbacks, Gatt, Process, Clients, vars, Connect, Disconnect, EncryptionDone, PairingFails, SdkReturns,
           GattFree, GattPush, GattRefused, ProcessIdle, Send, Hear, GiveUp

------------------------------------------------------------------------------
(* Parameters in force: changed by a request, kept or taken back by a save.  *)
LEMMA InForceStep == Base /\ [Next]_vars => InForce'
<1> SUFFICES ASSUME Base, [Next]_vars PROVE InForce'
    OBVIOUS
<1>0. TypeOK /\ Control /\ Session /\ InForce
    BY DEF Base
<1> USE DEF InForce, Running, ConfirmedParams, store, ram, link, client
<1>1. Store!Saving = {"erase", "program", "verify"} /\ NoConfig \notin Configs
    BY StoreAssumption DEF Store!Saving
<1>a. CASE Boot
    BY <1>0, <1>a, BootFacts DEF Off, NoPending
<1>b. CASE PowerLoss
    BY <1>b DEF PowerLoss
<1>f. CASE Receive
    <2> DEFINE r == Head(inbox)
    <2>1. /\ InSdk /\ UNCHANGED <<store, enabled, loop>>
          /\ \/ UNCHANGED <<params, pending>>
             \/ /\ enabled /\ pending.kind = "none"
                /\ \/ params' = r.id /\ pending' = [kind |-> "params", id |-> r.id, previous |-> params]
                   \/ params' = params /\ pending' = [kind |-> "name", id |-> r.id, previous |-> 0]
        BY <1>0, <1>f, ReceiveFacts
    <2>2. loop = "sdk" /\ ~ SavedOk /\ ~ SavedOk'
        BY <2>1 DEF InSdk, SavedOk
    <2>3. CASE UNCHANGED <<params, pending>>
        BY <1>0, <2>1, <2>2, <2>3
    <2>4. CASE enabled /\ pending.kind = "none" /\ params' = r.id
               /\ pending' = [kind |-> "params", id |-> r.id, previous |-> params]
        BY <1>0, <2>1, <2>2, <2>4 DEF InSdk
    <2>5. CASE enabled /\ pending.kind = "none" /\ params' = params
               /\ pending' = [kind |-> "name", id |-> r.id, previous |-> 0]
        BY <1>0, <2>1, <2>2, <2>5 DEF InSdk
    <2> QED BY <2>1, <2>3, <2>4, <2>5
<1>j. CASE ProcessSave
    BY <1>j, <1>0 DEF ProcessSave, Store!SaveBegin, SavedOk
<1>k. CASE FlashStep
    <2>1. /\ UNCHANGED <<ram, pending, loop>> /\ phase # "off" /\ phase # "ready" /\ phase' # "off" /\ request \in Configs
          /\ request = SavedConfig
          /\ \/ phase' # "ready" /\ confirmed' = confirmed
             \/ phase' = "ready" /\ status' = "ok" /\ confirmed' = request
             \/ phase' = "ready" /\ status' = "error" /\ confirmed' = confirmed
          /\ loop = "saving"
        BY <1>0, <1>1, <1>k, FlashFacts DEF Control
    <2>2. CASE status' = "ok" /\ phase' = "ready" /\ confirmed' = request
        <3>1. confirmed' # NoConfig /\ confirmed'.params = params /\ SavedOk' /\ ~ SavedOk
            BY <2>1, <2>2, <1>1 DEF SavedConfig, SavedOk
        <3> QED BY <1>0, <2>1, <3>1
    <2>3. CASE confirmed' = confirmed /\ ~ (phase' = "ready" /\ status' = "ok")
        BY <1>0, <2>1, <2>3 DEF SavedOk
    <2> QED BY <2>1, <2>2, <2>3
<1>l. CASE FinishParams \/ FinishName
    <2>1. /\ UNCHANGED <<store, enabled>> /\ pending' = NoPending /\ loop = "saving" /\ phase = "ready"
        BY <1>0, <1>l, FinishFacts
    <2> QED BY <1>0, <1>l, <2>1 DEF FinishParams, FinishName, RolledBack, SavedOk, NoPending
<1>g. CASE SdkReturns \/ Gatt \/ ProcessIdle
    <2>1. UNCHANGED <<store, ram, pending>> /\ loop # "saving" /\ loop' # "saving"
        BY <1>g DEF SdkReturns, Gatt, GattFree, GattPush, GattRefused, ProcessIdle, InSdk
    <2> QED BY <1>0, <2>1 DEF SavedOk
<1>z. CASE UNCHANGED <<store, ram, pending, loop>>
    BY <1>0, <1>z DEF SavedOk
<1> QED
    BY <1>a, <1>b, <1>f, <1>g, <1>j, <1>k, <1>l, <1>z
       DEF Next, Callbacks, Process, Clients, vars, Connect, Disconnect, EncryptionDone, PairingFails, Send, Hear, GiveUp

(* One answer per request, wherever it is on its way.                        *)
LEMMA AnswersStep == Base /\ [Next]_vars => Answers'
<1> SUFFICES ASSUME Base, [Next]_vars PROVE Answers'
    OBVIOUS
<1>0. TypeOK /\ Control /\ Session /\ Answers
    BY DEF Base
<1> DEFINE OwnNext(f) == OwnAnswer(f, sent', inbox')
<1>1. \A f : AnswersOwn(f) => OwnNext(f)
    BY <1>0, PastKept
<1>2. /\ \A i \in DOMAIN answers : OwnNext(answers[i])
      /\ \A i, j \in DOMAIN answers : answers[i].id = answers[j].id => i = j
      /\ air # NoFrame => OwnNext(air) /\ NotHeard(air.id)
      /\ tx.frame # NoFrame => OwnNext(tx.frame)
      /\ tx.left > 0 => tx.frame # NoFrame /\ NotHeard(tx.frame.id) /\ air.id # tx.frame.id
      /\ pending.kind # "none" => OwnNext(pending) /\ NotHeard(pending.id) /\ pending.id \notin {air.id, tx.frame.id}
    BY <1>0, <1>1 DEF Answers
<1>3. /\ answers \in Seq(Frames \ {NoFrame}) /\ air \in Frames
      /\ tx \in [frame : Frames, left : 0 .. ReadFragments, whole : BOOLEAN]
    BY <1>0 DEF TypeOK
<1> HIDE DEF OwnNext
<1>4. SUFFICES /\ \A i \in DOMAIN answers' : OwnNext(answers'[i])
               /\ \A i, j \in DOMAIN answers' : answers'[i].id = answers'[j].id => i = j
               /\ air' # NoFrame => OwnNext(air') /\ NotHeard(air.id)'
               /\ tx'.frame # NoFrame => OwnNext(tx'.frame)
               /\ tx'.left > 0 => tx'.frame # NoFrame /\ NotHeard(tx.frame.id)' /\ air'.id # tx'.frame.id
               /\ pending'.kind # "none" =>
                     OwnNext(pending') /\ NotHeard(pending.id)' /\ pending'.id \notin {air'.id, tx'.frame.id}
    BY NoFrameFacts DEF Answers, AnswersOwn, OwnNext
<1> USE DEF store, ram, link, client, NotHeard
<1>a. CASE PowerLoss
    BY <1>a, <1>2, NoFrameFacts DEF PowerLoss, RamLost, NoPending
<1>b. CASE Disconnect
    <2>1. tx'.frame = tx.frame /\ tx'.left = tx.left /\ air' = NoFrame /\ UNCHANGED <<pending, answers>>
        BY <1>b, <1>3 DEF Disconnect
    <2>2. tx.left > 0 => tx.frame.id # 0
        BY <1>2, <1>3, NoFrameFacts DEF Ids
    <2>3. pending.kind # "none" => pending.id # 0
        BY <1>0 DEF Control, Ids
    <2> QED BY <1>2, <2>1, <2>2, <2>3, NoFrameFacts
<1>f. CASE Receive
    <2> DEFINE r == Head(inbox)
    <2>1. /\ r.id \in DOMAIN sent /\ sent[r.id] = r /\ r.id \in Ids /\ r.kind \in AllKinds
          /\ \A i \in DOMAIN inbox' : r.id < inbox'[i].id
          /\ \A v : Ahead(v) => v < r.id
          /\ UNCHANGED <<sent, air, answers>>
          /\ \/ /\ UNCHANGED pending
                /\ \E ok \in BOOLEAN, v \in Values : Transmit(Answer(r, ok, v))
             \/ /\ UNCHANGED tx
                /\ \/ r.kind = "params" /\ pending' = [kind |-> "params", id |-> r.id, previous |-> params]
                   \/ r.kind = "name" /\ pending' = [kind |-> "name", id |-> r.id, previous |-> 0]
        BY <1>0, <1>f, ReceiveFacts
    <2>2. \A f : AnswersOwn(f) => f.id # r.id
        BY <2>1 DEF AnswersOwn, OwnAnswer, Ahead, Ids
    <2>3. /\ \A i \in DOMAIN answers : answers[i].id # r.id
          /\ air.id # r.id /\ tx.frame.id # r.id
          /\ pending.kind # "none" => pending.id # r.id
        BY <1>0, <2>1, <2>2, NoFrameFacts DEF Answers, Ids
    <2>4. \A f : f.id = r.id /\ f.kind = r.kind => OwnNext(f)
        BY <2>1 DEF OwnNext, OwnAnswer, Before
    <2>6. ASSUME NEW ok \in BOOLEAN, NEW v \in Values, Transmit(Answer(r, ok, v))
          PROVE  \/ tx' = tx
                 \/ tx'.frame # NoFrame /\ tx'.frame.id = r.id /\ OwnNext(tx'.frame)
        <3>1. /\ Answer(r, ok, v) \in Frames \ {NoFrame}
              /\ Answer(r, ok, v).id = r.id /\ Answer(r, ok, v).kind = r.kind
            BY <2>1, AnswerFacts
        <3> QED BY <1>0, <2>4, <2>6, <3>1, TransmitFacts
    <2>7. CASE UNCHANGED pending /\ (tx' = tx \/ (tx'.frame # NoFrame /\ tx'.frame.id = r.id /\ OwnNext(tx'.frame)))
        BY <1>2, <2>1, <2>3, <2>7
    <2>8. CASE UNCHANGED tx /\ pending'.id = r.id /\ pending'.kind = r.kind
        BY <1>2, <2>1, <2>3, <2>4, <2>8
    <2>9. CASE UNCHANGED pending /\ \E ok \in BOOLEAN, v \in Values : Transmit(Answer(r, ok, v))
        BY <2>6, <2>7, <2>9
    <2>10. CASE /\ UNCHANGED tx
                /\ \/ r.kind = "params" /\ pending' = [kind |-> "params", id |-> r.id, previous |-> params]
                   \/ r.kind = "name" /\ pending' = [kind |-> "name", id |-> r.id, previous |-> 0]
        BY <2>8, <2>10
    <2> QED BY <2>1, <2>9, <2>10
<1>g. CASE GattFree
    BY <1>g, <1>2, <1>0, NoFrameFacts DEF GattFree, Control, Ids
<1>h. CASE GattPush
    <2>1. /\ tx'.frame = tx.frame /\ tx'.left = tx.left - 1 /\ tx.left > 0 /\ air = NoFrame
          /\ air' = IF tx.left = 1 /\ tx.whole THEN tx.frame ELSE air
          /\ UNCHANGED <<pending, answers>>
        BY <1>h, <1>3 DEF GattPush, Remaining
    <2>2. tx.left \in Int
        BY <1>3, BmsFirmwareAssumption
    <2> QED BY <1>2, <2>1, <2>2
<1>l. CASE FinishParams \/ FinishName
    <2>1. /\ pending.kind # "none" /\ pending.id \in Ids /\ pending' = NoPending
          /\ UNCHANGED <<air, answers>>
          /\ \E ok \in BOOLEAN : Transmit(Answer(pending, ok, 0))
        BY <1>0, <1>l, FinishFacts
    <2>2. PICK ok \in BOOLEAN : Transmit(Answer(pending, ok, 0))
        BY <2>1
    <2>3. pending.kind \in AllKinds /\ 0 \in Values
        BY <1>0, <2>1, BmsFirmwareAssumption DEF TypeOK, AllKinds, Values
    <2>4. /\ Answer(pending, ok, 0) \in Frames \ {NoFrame}
          /\ Answer(pending, ok, 0).id = pending.id /\ Answer(pending, ok, 0).kind = pending.kind
        BY <2>1, <2>3, AnswerFacts
    <2>5. tx' = tx \/ (tx'.frame = Answer(pending, ok, 0) /\ tx'.left > 0)
        BY <1>0, <2>2, <2>4, TransmitFacts
    <2>6. OwnNext(Answer(pending, ok, 0))
        BY <1>2, <2>1, <2>4 DEF OwnNext, OwnAnswer
    <2> QED BY <1>2, <2>1, <2>4, <2>5, <2>6 DEF NoPending
<1>n. CASE Hear
    <2>1. air # NoFrame /\ answers' = Append(answers, air) /\ air' = NoFrame /\ UNCHANGED <<pending, tx>>
        BY <1>n DEF Hear
    <2>2. /\ DOMAIN answers' = DOMAIN answers \cup {Len(answers) + 1} /\ answers'[Len(answers) + 1] = air /\ Len(answers) \in Nat
          /\ \A i \in DOMAIN answers : answers'[i] = answers[i]
        BY <1>3, <2>1, AppendFacts
    <2>3. tx.left > 0 => tx.frame.id # 0
        BY <1>2, <1>3, NoFrameFacts DEF Ids
    <2>4. pending.kind # "none" => pending.id # 0
        BY <1>0 DEF Control, Ids
    <2> QED BY <1>2, <2>1, <2>2, <2>3, <2>4, NoFrameFacts
<1>z. CASE UNCHANGED <<pending, tx, air, answers>>
    BY <1>2, <1>z
<1> QED
    BY <1>a, <1>b, <1>f, <1>g, <1>h, <1>l, <1>n, <1>z
       DEF Next, Callbacks, Gatt, Process, Clients, vars, Boot, Connect, EncryptionDone, PairingFails, SdkReturns,
           GattRefused, ProcessIdle, ProcessSave, FlashStep, Send, GiveUp

------------------------------------------------------------------------------
LEMMA BaseHolds == Spec => []Base
<1>1. Base /\ [Next]_vars => Base'
    BY TypeStep, ControlStep, SessionStep, WrittenStep, InForceStep, AnswersStep DEF Base
<1> QED BY <1>1, InitBase, PTL DEF Spec

(* The state of the firmware is well typed, whatever the storage, the radio  *)
(* and the clients do.                                                       *)
THEOREM TypeCorrect == Spec => []TypeOK
<1>1. Base => TypeOK
    BY DEF Base
<1> QED BY <1>1, BaseHolds, PTL

(* Between saves, the parameters in force are the confirmed ones: with every *)
(* storage fault and a BLE stack that refuses names.                         *)
THEOREM ParametersInForceAreStored == Spec => []ParametersMatchStore
<1>1. Base => ParametersMatchStore
    BY DEF Base, InForce, ParametersMatchStore, Settled, ConfirmedParams
<1> QED BY <1>1, BaseHolds, PTL

(* Nothing is in force or stored that an unencrypted session wrote.          *)
THEOREM WritersAreSecured == Spec => []OnlySecuredSessionsWrite
<1>1. Base => OnlySecuredSessionsWrite
    <2> SUFFICES ASSUME Base, NEW v \in {params, name, StoredParams, StoredName} \ {0}
                 PROVE  sent[v].session \in secured
        BY DEF OnlySecuredSessionsWrite
    <2>1. PICK s \in Store!Slots : Store!Stored = slots[s].cfg
        BY DEF Store!Stored, Store!Newest, Store!Slots
    <2>2. Past(params) /\ Past(name) /\ PastConfig(Store!Stored)
        BY <2>1 DEF Base, Written
    <2>3. Past(v)
        BY <2>2 DEF PastConfig, StoredParams, StoredName
    <2> QED BY <2>3 DEF Past, WrittenBefore
<1> QED BY <1>1, BaseHolds, PTL

(* No request is answered twice, none with the answer to another kind.       *)
THEOREM NoSecondAnswer == Spec => []AnsweredOnce
<1>1. Base => AnsweredOnce
    BY DEF Base, Answers, AnsweredOnce, AnswersOwn, OwnAnswer
<1> QED BY <1>1, BaseHolds, PTL

------------------------------------------------------------------------------
(* A BLE stack that takes every name shows the confirmed one.                *)
LEMMA NameShownHolds == ASSUME ~ SetterFaults PROVE Spec => []NameShown
<1> USE DEF NameShown, Running
<1>1. Init => NameShown
    BY DEF Init, Store!Init
<1>2. ASSUME Base, NameShown, [Next]_vars PROVE NameShown'
    <2> USE DEF store, ram, link, client
    <2>0. Control /\ TypeOK
        BY <1>2 DEF Base
    <2>1. CASE Boot
        BY <2>0, <2>1, BootFacts DEF Off
    <2>2. CASE PowerLoss
        BY <2>2 DEF PowerLoss
    <2>3. CASE FlashStep
        BY <1>2, <2>0, <2>3, FlashFacts
    <2>4. CASE FinishName
        BY <1>2, <2>0, <2>4, FinishFacts DEF FinishName, Shown
    <2>5. CASE ProcessSave
        BY <1>2, <2>5 DEF ProcessSave, Store!SaveBegin
    <2>6. CASE UNCHANGED <<phase, name, gapName>>
        BY <1>2, <2>6
    <2> QED
        BY <1>2, <2>1, <2>2, <2>3, <2>4, <2>5, <2>6
           DEF Next, Callbacks, Gatt, Process, Clients, vars, Connect, Disconnect, EncryptionDone, PairingFails, Receive,
               SdkReturns, GattFree, GattPush, GattRefused, ProcessIdle, FinishParams, Finish, Send, Hear, GiveUp
<1> QED BY <1>1, <1>2, BaseHolds, PTL DEF Spec

(* With such a stack the device name clients see is the confirmed one.       *)
THEOREM ShownNameIsConfirmed == ASSUME ~ SetterFaults PROVE Spec => []GapNameIsConfirmed
<1>1. NameShown => GapNameIsConfirmed
    BY DEF NameShown, GapNameIsConfirmed, Settled
<1> QED BY <1>1, NameShownHolds, PTL

------------------------------------------------------------------------------
(* Between two starts the store goes through the steps of ConfigStore, and   *)
(* ConfigStoreProofs speaks about it.                                        *)
LEMMA SameStored == Store!Stored = SP!Stored
BY DEF Store!Stored, SP!Stored, Store!Newest, SP!Newest, Store!Newer, SP!Newer

LEMMA StoreInit == Init => SP!Init
BY DEF Init, Store!Init, SP!Init, Store!Slots, SP!Slots, Store!Unreadable, SP!Unreadable

StartsOver == phase # "off" /\ SP!Init'

LEMMA StoreStep == [Next]_vars => [SP!Next \/ StartsOver]_(SP!vars)
<1> SUFFICES ASSUME [Next]_vars PROVE SP!Next \/ StartsOver \/ UNCHANGED SP!vars
    OBVIOUS
<1>1. Store!Load => SP!Load
    BY DEF Store!Load, SP!Load, Store!UnreadSets, SP!UnreadSets, Store!Slots, SP!Slots, Store!Newest, SP!Newest,
           Store!Newer, SP!Newer, Store!Unreadable, SP!Unreadable
<1>2. \A c : Store!SaveBegin(c) => c \in Configs /\ SP!SaveBegin(c)
    BY DEF Store!SaveBegin, SP!SaveBegin
<1>3. Store!Flash => SP!Flash
    BY DEF Store!Flash, SP!Flash, Store!EraseOK, SP!EraseOK, Store!EraseFails, SP!EraseFails, Store!ProgramOK, SP!ProgramOK,
           Store!ProgramCorrupts, SP!ProgramCorrupts, Store!ProgramFails, SP!ProgramFails, Store!VerifyOK, SP!VerifyOK,
           Store!VerifyFails, SP!VerifyFails, Store!Programmed, SP!Programmed, Store!TargetSlot, SP!TargetSlot,
           Store!SlotOf, SP!SlotOf, Store!Succ, SP!Succ, Store!Record, SP!Record, Store!Unreadable, SP!Unreadable,
           Store!Return, SP!Return, Store!Verified, SP!Verified
<1>4. PowerLoss => StartsOver
    BY DEF PowerLoss, BlankSlots, StartsOver, SP!Init, Store!Slots, SP!Slots, Store!Unreadable, SP!Unreadable
<1>5. CASE UNCHANGED store
    BY <1>5 DEF store, SP!vars
<1> QED
    BY <1>1, <1>2, <1>3, <1>4, <1>5
       DEF Next, Callbacks, Gatt, Process, Clients, vars, SP!Next, Boot, Connect, Disconnect, EncryptionDone, PairingFails,
           Receive, SdkReturns, GattFree, GattPush, GattRefused, ProcessIdle, ProcessSave, FlashStep, FinishParams,
           FinishName, Finish, Send, Hear, GiveUp

(* The firmware keeps to what the store expects of its caller: it starts no  *)
(* save during another one, loads only at start-up, and leaves the slots     *)
(* alone otherwise. A restart puts the store back to where ConfigStore       *)
(* begins, so that what is said of ConfigStore holds from start to start.    *)
THEOREM FirmwareUsesTheStore == Spec => SP!Init /\ [][SP!Next \/ StartsOver]_(SP!vars)
<1>1. [Next]_vars => [SP!Next \/ StartsOver]_(SP!vars)
    BY StoreStep
<1> QED BY <1>1, StoreInit, PTL DEF Spec

(* Storage that neither reports an error for a record it has stored nor      *)
(* hides one at start-up.                                                    *)
Honest == "late" \notin Faults /\ "boot" \notin Faults

LEMMA StrictAtStart == SP!Init' => SP!Strict'
<1>1. SP!Init => SP!Strict
    BY SP!InitStrict, StoreConstants
<1> QED BY <1>1, PTL

LEMMA StoreIsStrict == ASSUME Honest PROVE Spec => []SP!Strict
<1>1. SP!Honest
    BY DEF Honest, SP!Honest
<1>2. SP!Init => SP!Strict
    BY SP!InitStrict, StoreConstants
<1>3. SP!Strict /\ [SP!Next]_(SP!vars) => SP!Strict'
    BY <1>1, SP!StepStrict, StoreConstants
<1>4. SP!Strict /\ [SP!Next \/ StartsOver]_(SP!vars) => SP!Strict'
    BY <1>3, StrictAtStart DEF StartsOver
<1> QED BY <1>2, <1>4, FirmwareUsesTheStore, PTL

LEMMA StrictFacts ==
    ASSUME Honest, SP!Strict
    PROVE  Store!Stored = confirmed \/ (phase \in {"off", "verify"} /\ request # NoConfig /\ Store!Stored = request)
BY SameStored DEF SP!Strict, SP!Recoverable

------------------------------------------------------------------------------
(* Answers leave a handler in two ways: at once, never for an accepted       *)
(* write, or from a save that has returned.                                  *)
AnsweredAtOnce(a) == Receive /\ a.id = Head(inbox).id /\ (a.ok => a.kind = "read")
AnsweredAfterSave(a) == /\ FinishParams \/ FinishName
                        /\ a.id = pending.id /\ a.kind = pending.kind
                        /\ a.ok => status = "ok"
                        /\ a.kind = "params" => (a.ok <=> status = "ok")
                        /\ a.kind = "name" /\ a.ok => name' = pending.id

LEMMA KnownFacts ==
    ASSUME Base, [Next]_vars
    PROVE  \A a \in Known' : a \in Known \/ AnsweredAtOnce(a) \/ AnsweredAfterSave(a)
<1>0. TypeOK /\ Control /\ Session /\ Answers
    BY DEF Base
<1> USE DEF Known, store, ram, link, client
<1>1. /\ answers \in Seq(Frames \ {NoFrame}) /\ air \in Frames
      /\ tx \in [frame : Frames, left : 0 .. ReadFragments, whole : BOOLEAN]
    BY <1>0 DEF TypeOK
<1>a. CASE PowerLoss \/ Disconnect \/ GattFree
    <2>1. answers' = answers /\ tx'.frame \in {tx.frame, NoFrame} /\ air' \in {air, NoFrame}
        BY <1>a, <1>1, NoFrameFacts DEF PowerLoss, RamLost, Disconnect, GattFree
    <2> QED BY <2>1
<1>b. CASE GattPush
    <2>1. answers' = answers /\ tx'.frame = tx.frame /\ air' \in {air, tx.frame}
        BY <1>b, <1>1 DEF GattPush
    <2> QED BY <2>1
<1>c. CASE Hear
    <2>1. air # NoFrame /\ air' = NoFrame /\ tx' = tx /\ answers' = Append(answers, air)
        BY <1>c DEF Hear
    <2>2. /\ DOMAIN answers' = DOMAIN answers \cup {Len(answers) + 1} /\ answers'[Len(answers) + 1] = air
          /\ \A i \in DOMAIN answers : answers'[i] = answers[i]
        BY <1>1, <2>1, AppendFacts
    <2> QED BY <2>1, <2>2
<1>d. CASE Receive
    <2> DEFINE r == Head(inbox)
    <2>1. /\ r.id \in Ids /\ r.kind \in AllKinds /\ UNCHANGED <<air, answers>>
          /\ \/ UNCHANGED tx
             \/ \E ok \in BOOLEAN, v \in Values : Transmit(Answer(r, ok, v)) /\ (ok => r.kind = "read")
        BY <1>0, <1>d, ReceiveFacts
    <2>2. CASE UNCHANGED tx
        BY <2>1, <2>2
    <2>3. CASE \E ok \in BOOLEAN, v \in Values : Transmit(Answer(r, ok, v)) /\ (ok => r.kind = "read")
        <3>1. PICK ok \in BOOLEAN, v \in Values : Transmit(Answer(r, ok, v)) /\ (ok => r.kind = "read")
            BY <2>3
        <3> DEFINE f == Answer(r, ok, v)
        <3>2. f \in Frames /\ f.id = r.id /\ f.kind = r.kind /\ f.ok = ok
            BY <2>1, AnswerFacts
        <3>3. tx' = tx \/ tx'.frame = f
            BY <1>0, <3>1, <3>2, TransmitFacts
        <3>4. AnsweredAtOnce(f)
            BY <1>d, <3>1, <3>2 DEF AnsweredAtOnce
        <3> QED BY <2>1, <3>3, <3>4
    <2> QED BY <2>1, <2>2, <2>3
<1>e. CASE FinishParams \/ FinishName
    <2>1. /\ pending.kind # "none" /\ pending.id \in Ids /\ UNCHANGED <<air, answers>>
          /\ \E ok \in BOOLEAN : /\ Transmit(Answer(pending, ok, 0))
                                 /\ ok => status = "ok"
                                 /\ pending.kind = "params" => (ok <=> status = "ok")
                                 /\ pending.kind = "name" /\ ok => name' = pending.id
        BY <1>0, <1>e, FinishFacts
    <2>2. PICK ok \in BOOLEAN : /\ Transmit(Answer(pending, ok, 0))
                                /\ ok => status = "ok"
                                /\ pending.kind = "params" => (ok <=> status = "ok")
                                /\ pending.kind = "name" /\ ok => name' = pending.id
        BY <2>1
    <2> DEFINE f == Answer(pending, ok, 0)
    <2>3. pending.kind \in AllKinds /\ 0 \in Values
        BY <1>0, <2>1, BmsFirmwareAssumption DEF TypeOK, AllKinds, Values
    <2>4. f \in Frames /\ f.id = pending.id /\ f.kind = pending.kind /\ f.ok = ok
        BY <2>1, <2>3, AnswerFacts
    <2>5. tx' = tx \/ tx'.frame = f
        BY <1>0, <2>2, <2>4, TransmitFacts
    <2>6. AnsweredAfterSave(f)
        BY <1>e, <2>2, <2>4 DEF AnsweredAfterSave
    <2> QED BY <2>1, <2>5, <2>6
<1>z. CASE UNCHANGED <<tx, air, answers>>
    BY <1>z
<1> QED
    BY <1>a, <1>b, <1>c, <1>d, <1>e, <1>z
       DEF Next, Callbacks, Gatt, Process, Clients, vars, Boot, Connect, EncryptionDone, PairingFails, SdkReturns,
           GattRefused, ProcessIdle, ProcessSave, FlashStep, Send, GiveUp

LEMMA KnownAreBehind ==
    ASSUME Base PROVE \A a \in Known : AnswersOwn(a) /\ a.id \in Ids
<1>1. \A a \in Known : AnswersOwn(a)
    BY DEF Base, Answers, Known
<1>2. Known \subseteq Frames \ {NoFrame}
    BY DEF Base, TypeOK, Known
<1> QED BY <1>1, <1>2, NoFrameFacts

------------------------------------------------------------------------------
(* The program starts with the defaults, and knows as before what clients    *)
(* have been told; only a power loss moves the start.                        *)
LEMMA BootKnown ==
    ASSUME Base, Boot
    PROVE  /\ phase = "off" /\ request' = NoConfig /\ confirmed' = NoConfig /\ pending' = NoPending
           /\ params' = 0 /\ name' = 0 /\ UNCHANGED <<name, confirmed>> /\ Known' = Known
<1>1. TypeOK /\ Control
    BY DEF Base
<1>2. Off /\ phase = "off" /\ UNCHANGED <<request, confirmed, params, name, pending, tx, client>>
    BY <1>1, BootFacts
<1> QED BY <1>2 DEF Off, Known, client

LEMMA StartKept == ASSUME [Next]_vars, ~ PowerLoss PROVE started' = started
BY DEF Next, Callbacks, Gatt, Process, Clients, vars, link, Boot, Connect, Disconnect, EncryptionDone, PairingFails, Receive,
       SdkReturns, GattFree, GattPush, GattRefused, ProcessIdle, ProcessSave, FlashStep, FinishParams, FinishName, Finish,
       Send, Hear, GiveUp

LEMMA PowerLossFacts ==
    ASSUME Base, PowerLoss
    PROVE  /\ request' = NoConfig /\ confirmed' = NoConfig /\ pending' = NoPending /\ params' = 0 /\ phase' = "off"
           /\ Known' \subseteq Known /\ answers' = answers
           /\ \A a \in Known : ~ (a.id > started')
<1>1. /\ request' = NoConfig /\ confirmed' = NoConfig /\ pending' = NoPending /\ params' = 0 /\ phase' = "off"
      /\ tx' = FreeBuffer /\ air' = NoFrame /\ answers' = answers /\ started' = Len(sent)
    BY DEF PowerLoss, RamLost
<1>2. Known' \subseteq Known
    BY <1>1 DEF Known, FreeBuffer
<1>3. sent \in Seq(Requests)
    BY DEF Base, TypeOK
<1>4. \A i \in DOMAIN sent : ~ (i > Len(sent))
    BY <1>3
<1>5. \A a \in Known : a.id \in DOMAIN sent
    BY KnownAreBehind DEF AnswersOwn, OwnAnswer
<1> QED BY <1>1, <1>2, <1>4, <1>5

LEMMA InitDurable == Init => Durable /\ Forgotten
<1>1. Init => Known = {} /\ request = NoConfig /\ phase = "off" /\ pending.kind = "none"
    BY NoFrameFacts DEF Init, Store!Init, Known, NoPending
<1> QED BY <1>1 DEF Durable, Forgotten, AckedUpTo, Running

(* No acknowledged write is ever newer than what is stored and in force.     *)
LEMMA DurableStep == Base /\ Durable /\ [Next]_vars => Durable'
<1> SUFFICES ASSUME Base, Durable, [Next]_vars PROVE Durable'
    OBVIOUS
<1>0. TypeOK /\ Control /\ Session /\ Written /\ InForce
    BY DEF Base
<1> DEFINE Upto(k, v) == \A a \in Known' : a.ok /\ a.kind = k /\ a.id > started' => a.id <= v
<1>1. SUFFICES /\ Upto("params", ConfirmedParams') /\ Upto("name", ConfirmedName')
               /\ request' # NoConfig => Upto("params", request'.params) /\ Upto("name", request'.name)
               /\ Running' => Upto("name", name')
               /\ pending'.kind # "none" => Upto("params", pending'.id) /\ Upto("name", pending'.id)
    BY DEF Durable, AckedUpTo
<1>b. CASE PowerLoss
    <2>1. request' = NoConfig /\ pending'.kind = "none" /\ ~ Running'
        BY <1>b, PowerLossFacts DEF NoPending, Running
    <2>2. \A k, v : Upto(k, v)
        BY <1>b, PowerLossFacts
    <2> QED BY <2>1, <2>2
<1> SUFFICES ASSUME ~ PowerLoss
             PROVE  /\ Upto("params", ConfirmedParams') /\ Upto("name", ConfirmedName')
                    /\ request' # NoConfig => Upto("params", request'.params) /\ Upto("name", request'.name)
                    /\ Running' => Upto("name", name')
                    /\ pending'.kind # "none" => Upto("params", pending'.id) /\ Upto("name", pending'.id)
    BY <1>b
<1>5. started' = started
    BY StartKept
<1>2. \A k, v : Known' \subseteq Known /\ AckedUpTo(k, v) => Upto(k, v)
    BY <1>5 DEF AckedUpTo
<1>3. /\ AckedUpTo("params", ConfirmedParams) /\ AckedUpTo("name", ConfirmedName)
      /\ request # NoConfig => AckedUpTo("params", request.params) /\ AckedUpTo("name", request.name)
      /\ Running => AckedUpTo("name", name)
      /\ pending.kind # "none" => AckedUpTo("params", pending.id) /\ AckedUpTo("name", pending.id)
    BY DEF Durable
<1>4. ~ Receive /\ ~ FinishParams /\ ~ FinishName => Known' \subseteq Known
    BY KnownFacts DEF AnsweredAtOnce, AnsweredAfterSave
<1> HIDE DEF Upto
<1> USE DEF store, ram, link, client
<1>a. CASE Boot
    <2>1. /\ Known' = Known /\ request' = NoConfig /\ pending'.kind = "none"
          /\ confirmed' = confirmed /\ confirmed' = NoConfig /\ name' = 0
        BY <1>a, BootKnown DEF NoPending
    <2>2. Upto("params", ConfirmedParams') /\ Upto("name", ConfirmedName') /\ ConfirmedName' = 0
        BY <1>2, <1>3, <2>1 DEF ConfirmedParams, ConfirmedName
    <2> QED BY <2>1, <2>2
<1>f. CASE Receive
    <2> DEFINE r == Head(inbox)
    <2>1. /\ \A v : Ahead(v) => v < r.id
          /\ UNCHANGED <<store, name, enabled>>
          /\ \/ UNCHANGED pending
             \/ pending' = [kind |-> "params", id |-> r.id, previous |-> params]
             \/ pending' = [kind |-> "name", id |-> r.id, previous |-> 0]
        BY <1>0, <1>f, ReceiveFacts
    <2>2. \A a \in Known : a.id < r.id /\ a.id \in Ids
        BY <2>1, KnownAreBehind DEF AnswersOwn, OwnAnswer, Ahead
    <2>3. ~ FinishParams /\ ~ FinishName
        BY <1>f DEF Receive, InSdk, FinishParams, FinishName, SaveReturned
    <2>4. \A k, v : k \in {"params", "name"} /\ AckedUpTo(k, v) => Upto(k, v)
        BY <1>5, <2>3, KnownFacts DEF AckedUpTo, AnsweredAtOnce, AnsweredAfterSave, Upto
    <2>5. r.id \in Ids
        BY <1>0, <1>f, ReceiveFacts
    <2>6. Upto("params", r.id) /\ Upto("name", r.id)
        BY <2>2, <2>4, <2>5 DEF AckedUpTo, Ids
    <2>7. pending' = pending \/ pending'.id = r.id
        BY <2>1
    <2> QED BY <1>3, <2>1, <2>4, <2>6, <2>7 DEF ConfirmedParams, ConfirmedName, Running
<1>j. CASE ProcessSave
    <2>1. /\ request' = SavedConfig /\ UNCHANGED <<confirmed, name, enabled, pending>>
          /\ pending.kind # "none" /\ Running /\ enabled /\ loop = "process"
        BY <1>0, <1>j DEF ProcessSave, Store!SaveBegin, Control, Running
    <2>2. Known' \subseteq Known
        BY <1>j, <1>4 DEF ProcessSave, Receive, InSdk, FinishParams, FinishName, SaveReturned
    <2>3. AckedUpTo("params", params)
        BY <1>0, <1>3, <2>1 DEF InForce
    <2>4. Upto("params", SavedConfig.params) /\ Upto("name", SavedConfig.name)
        BY <1>2, <1>3, <2>1, <2>2, <2>3 DEF SavedConfig
    <2> QED BY <1>2, <1>3, <2>1, <2>2, <2>4 DEF ConfirmedParams, ConfirmedName
<1>k. CASE FlashStep
    <2>1. /\ UNCHANGED <<name, enabled, pending>> /\ Running
          /\ request \in Configs /\ request' \in {request, NoConfig} /\ confirmed' \in {request, confirmed}
        BY <1>0, <1>k, FlashFacts DEF Running
    <2>2. Known' = Known
        BY <1>k DEF FlashStep, Known
    <2>3. request # NoConfig
        BY <2>1, StoreAssumption
    <2> QED BY <1>2, <1>3, <2>1, <2>2, <2>3 DEF ConfirmedParams, ConfirmedName
<1>l. CASE FinishParams \/ FinishName
    <2>1. /\ loop = "saving" /\ phase = "ready" /\ enabled /\ request = NoConfig /\ pending' = NoPending
          /\ pending.kind # "none" /\ pending.id \in Ids /\ UNCHANGED <<store, enabled>>
        BY <1>0, <1>l, FinishFacts
    <2>2. ~ Receive
        BY <2>1 DEF Receive, InSdk
    <2>3. \A a \in Known' : a \in Known \/ AnsweredAfterSave(a)
        BY <2>2, KnownFacts DEF AnsweredAtOnce
    <2>4. ASSUME NEW a, AnsweredAfterSave(a), a.ok
          PROVE  /\ a.kind = "params" => a.id = ConfirmedParams
                 /\ a.kind = "name" => a.id = ConfirmedName /\ a.id = name'
        <3>1. a.id = pending.id /\ a.kind = pending.kind /\ confirmed = SavedConfig
              /\ (a.kind = "name" => name' = pending.id)
            BY <1>0, <2>1, <2>4 DEF AnsweredAfterSave, Control, SavedOk
        <3>2. confirmed # NoConfig
            BY <1>0, <3>1, StoreAssumption DEF SavedConfig, TypeOK, Configs, Values, Ids
        <3> QED BY <1>0, <3>1, <3>2 DEF SavedConfig, ConfirmedParams, ConfirmedName, Written
    <2>5. Upto("params", ConfirmedParams) /\ Upto("name", ConfirmedName)
        <3>1. pending.id <= pending.id
            BY <2>1 DEF Ids
        <3> QED BY <1>3, <1>5, <2>3, <2>4, <3>1 DEF Upto, AckedUpTo, AnsweredAfterSave
    <2>6. name' \in {name, pending.id}
        BY <1>l DEF FinishParams, FinishName
    <2>7. Upto("name", name')
        <3>1. AckedUpTo("name", name')
            BY <1>3, <2>1, <2>6 DEF Running
        <3>2. pending.id <= pending.id
            BY <2>1 DEF Ids
        <3> QED BY <1>5, <2>3, <2>4, <3>1, <3>2 DEF Upto, AckedUpTo, AnsweredAfterSave
    <2> QED BY <2>1, <2>5, <2>7 DEF NoPending, ConfirmedParams, ConfirmedName
<1>z. CASE /\ UNCHANGED <<store, name, enabled, pending>>
           /\ ~ Receive /\ ~ FinishParams /\ ~ FinishName
    BY <1>2, <1>3, <1>4, <1>z DEF ConfirmedParams, ConfirmedName, Running
<1> QED
    BY <1>a, <1>b, <1>f, <1>j, <1>k, <1>l, <1>z
       DEF Next, Callbacks, Gatt, Process, Clients, vars, Connect, Disconnect, EncryptionDone, PairingFails, SdkReturns,
           GattFree, GattPush, GattRefused, ProcessIdle, Send, Hear, GiveUp

(* Refused parameters are nowhere they could come back from.                 *)
LEMMA ForgottenStep == Base /\ Forgotten /\ [Next]_vars => Forgotten'
<1> SUFFICES ASSUME Base, Forgotten, [Next]_vars, NEW a \in Known', a.kind = "params", ~ a.ok
             PROVE  ~ Live(a.id)'
    BY DEF Forgotten
<1>0. TypeOK /\ Control /\ Session /\ Written /\ InForce
    BY DEF Base
<1> DEFINE v == a.id
<1>1. SUFFICES ASSUME \/ v \in {params', pending'.previous, ConfirmedParams'}
                      \/ request' # NoConfig /\ v = request'.params
                      \/ pending'.kind = "params" /\ v = pending'.id
               PROVE  FALSE
    BY DEF Live
<1>2. a \in Known => v \in Ids /\ ~ Live(v)
    BY KnownAreBehind DEF Forgotten
<1>3. 0 \notin Ids
    BY DEF Ids
<1> USE DEF store, ram, link, client
<1>a. CASE Boot \/ PowerLoss
    <2>1. request' = NoConfig /\ confirmed' = NoConfig /\ pending' = NoPending /\ params' = 0 /\ Known' \subseteq Known
        BY <1>a, BootKnown, PowerLossFacts
    <2>2. v = 0
        BY <1>1, <2>1 DEF NoPending, ConfirmedParams
    <2> QED BY <1>2, <1>3, <2>1, <2>2
<1>f. CASE Receive
    <2> DEFINE r == Head(inbox)
    <2>1. /\ \A x : Ahead(x) => x < r.id
          /\ r.id \in Ids /\ UNCHANGED store
          /\ \/ UNCHANGED <<params, pending>>
             \/ /\ params' = r.id /\ UNCHANGED tx
                /\ pending' = [kind |-> "params", id |-> r.id, previous |-> params]
             \/ /\ params' = params /\ UNCHANGED tx
                /\ pending' = [kind |-> "name", id |-> r.id, previous |-> 0]
          /\ UNCHANGED <<air, answers>>
        BY <1>0, <1>f, ReceiveFacts
    <2>2. \A x : Past(x) => x # r.id
        BY <2>1 DEF Past, WrittenBefore, Ahead, Ids
    <2>3. ~ Live(r.id)
        <3>1. /\ Past(params) /\ Past(pending.previous) /\ Past(pending.id) /\ Past(0)
              /\ confirmed # NoConfig => Past(confirmed.params)
              /\ request # NoConfig => Past(request.params)
            BY <1>0 DEF Written, PastConfig, Past, WrittenBefore
        <3> QED BY <2>2, <3>1 DEF Live, ConfirmedParams
    <2>4. ~ FinishParams /\ ~ FinishName
        BY <1>f DEF Receive, InSdk, FinishParams, FinishName, SaveReturned
    <2>5. a \in Known => v # r.id
        BY <2>1, KnownAreBehind DEF AnswersOwn, OwnAnswer, Ahead, Ids
    <2>6. a \in Known \/ v = r.id
        BY <2>4, KnownFacts DEF AnsweredAtOnce, AnsweredAfterSave
    <2>7. CASE UNCHANGED <<params, pending>>
        BY <1>1, <1>2, <2>1, <2>3, <2>6, <2>7 DEF Live, ConfirmedParams
    <2>8. CASE params' = r.id /\ UNCHANGED tx /\ pending' = [kind |-> "params", id |-> r.id, previous |-> params]
        <3>1. a \in Known
            BY <2>1, <2>8 DEF Known
        <3> QED BY <1>1, <1>2, <2>1, <2>5, <2>8, <3>1 DEF Live, ConfirmedParams
    <2>9. CASE params' = params /\ UNCHANGED tx /\ pending' = [kind |-> "name", id |-> r.id, previous |-> 0]
        <3>1. a \in Known
            BY <2>1, <2>9 DEF Known
        <3> QED BY <1>1, <1>2, <1>3, <2>1, <2>9, <3>1 DEF Live, ConfirmedParams
    <2> QED BY <2>1, <2>7, <2>8, <2>9
<1>j. CASE ProcessSave
    <2>1. request' = SavedConfig /\ UNCHANGED <<confirmed, params, pending>>
        BY <1>j DEF ProcessSave, Store!SaveBegin
    <2>2. a \in Known
        BY <1>j DEF ProcessSave, Known
    <2> QED BY <1>1, <1>2, <2>1, <2>2 DEF Live, ConfirmedParams, SavedConfig
<1>k. CASE FlashStep
    <2>1. /\ UNCHANGED <<params, pending>>
          /\ request \in Configs /\ request' \in {request, NoConfig} /\ confirmed' \in {request, confirmed}
        BY <1>0, <1>k, FlashFacts
    <2>2. a \in Known
        BY <1>k DEF FlashStep, Known
    <2>3. request # NoConfig
        BY <2>1, StoreAssumption
    <2> QED BY <1>1, <1>2, <2>1, <2>2, <2>3 DEF Live, ConfirmedParams
<1>l. CASE FinishParams \/ FinishName
    <2>1. /\ loop = "saving" /\ phase = "ready" /\ enabled /\ request = NoConfig /\ pending' = NoPending
          /\ pending.kind # "none" /\ pending.id \in Ids /\ UNCHANGED store
        BY <1>0, <1>l, FinishFacts
    <2>2. params' \in {params, pending.previous} /\ v \in {params', 0, ConfirmedParams}
        BY <1>l, <1>1, <2>1 DEF FinishParams, FinishName, RolledBack, NoPending, ConfirmedParams
    <2>3. CASE a \in Known
        BY <1>2, <1>3, <2>2, <2>3 DEF Live
    <2>4. CASE AnsweredAfterSave(a)
        <3>1. pending.kind = "params" /\ v = pending.id /\ status # "ok"
            BY <2>4 DEF AnsweredAfterSave
        <3>2. params' = pending.previous /\ pending.previous = ConfirmedParams /\ pending.previous < pending.id
            BY <1>0, <1>l, <2>1, <3>1
               DEF FinishParams, FinishName, RolledBack, InForce, Running, SavedOk, Written
        <3> QED BY <1>3, <2>1, <2>2, <3>1, <3>2 DEF Ids
    <2>5. ~ Receive
        BY <2>1 DEF Receive, InSdk
    <2> QED BY <2>3, <2>4, <2>5, KnownFacts DEF AnsweredAtOnce
<1>z. CASE /\ UNCHANGED <<store, params, pending>>
           /\ ~ Receive /\ ~ FinishParams /\ ~ FinishName
    <2>1. a \in Known
        BY <1>z, KnownFacts DEF AnsweredAtOnce, AnsweredAfterSave
    <2> QED BY <1>1, <1>2, <1>z, <2>1 DEF Live, ConfirmedParams
<1> QED
    BY <1>a, <1>f, <1>j, <1>k, <1>l, <1>z
       DEF Next, Callbacks, Gatt, Process, Clients, vars, Connect, Disconnect, EncryptionDone, PairingFails, SdkReturns,
           GattFree, GattPush, GattRefused, ProcessIdle, Send, Hear, GiveUp

LEMMA KeptHolds == Spec => [](Base /\ Durable /\ Forgotten)
<1>1. Base /\ Durable /\ Forgotten /\ [Next]_vars => Durable' /\ Forgotten'
    BY DurableStep, ForgottenStep
<1> QED BY <1>1, InitDurable, BaseHolds, PTL DEF Spec

LEMMA StoredIsConfirmedOrSaved ==
    ASSUME Honest, SP!Strict
    PROVE  /\ StoredParams = ConfirmedParams \/ (request # NoConfig /\ StoredParams = request.params)
           /\ StoredName = ConfirmedName \/ (request # NoConfig /\ StoredName = request.name)
BY StrictFacts DEF StoredParams, StoredName, ConfirmedParams, ConfirmedName

LEMMA ToldIsKnown == Told \subseteq Known
BY DEF Told, Queued, Known

(* With honest storage, a write the client may have been told of stays in    *)
(* force and stored until the program starts again, whatever later writes,   *)
(* failed saves, radio and clients do.                                       *)
THEOREM AcknowledgedStays == ASSUME Honest PROVE Spec => []AcknowledgedIsKept
<1>1. SP!Strict /\ Base /\ Durable => AcknowledgedIsKept
    <2> SUFFICES ASSUME SP!Strict, Base, Durable, NEW a \in Told, a.ok, a.id > started
                 PROVE  /\ a.kind = "params" => params >= a.id /\ StoredParams >= a.id
                        /\ a.kind = "name" => name >= a.id /\ StoredName >= a.id
        BY DEF AcknowledgedIsKept
    <2>1. a \in Known /\ a.id \in Int /\ a.id \in DOMAIN sent
        BY ToldIsKnown, KnownAreBehind DEF Ids, AnswersOwn, OwnAnswer
    <2>2. {params, name, StoredParams, StoredName} \subseteq Int
        <3>1. Store!Stored \in Configs \cup {NoConfig} /\ params \in Values /\ name \in Values
            BY DEF Base, TypeOK, Store!TypeOK, Store!Stored, Store!Newest, Store!Slots, Store!Records
        <3> QED BY <3>1 DEF StoredParams, StoredName, Configs, Values
    <2>3. /\ a.kind = "params" => a.id <= StoredParams
          /\ a.kind = "name" => a.id <= StoredName
        BY <2>1, StoredIsConfirmedOrSaved DEF Durable, AckedUpTo
    <2>4. Running /\ enabled
        <3>1. sent \in Seq(Requests) /\ (phase = "off" => started = Len(sent)) /\ (phase # "off" => enabled)
            BY DEF Base, TypeOK, Control, Off
        <3> QED BY <2>1, <3>1 DEF Running
    <2>5. a.kind = "params" => a.id <= params
        BY <2>1, <2>4 DEF Base, InForce, Durable, AckedUpTo
    <2>6. a.kind = "name" => a.id <= name
        BY <2>1, <2>4 DEF Durable, AckedUpTo
    <2> QED BY <2>1, <2>2, <2>3, <2>5, <2>6
<1> QED BY <1>1, StoreIsStrict, KeptHolds, PTL

(* With honest storage refused parameters are gone for good.                 *)
THEOREM RefusedNeverReturns == ASSUME Honest PROVE Spec => []RefusedIsForgotten
<1>1. SP!Strict /\ Forgotten => RefusedIsForgotten
    BY ToldIsKnown, StoredIsConfirmedOrSaved DEF RefusedIsForgotten, Forgotten, Live
<1> QED BY <1>1, StoreIsStrict, KeptHolds, PTL

------------------------------------------------------------------------------
(* A read is answered with the parameters in force, and no acknowledged      *)
(* write is newer than those.                                                *)
LEMMA ReadsStep == Base /\ Durable /\ ReadsOrdered /\ [Next]_vars => ReadsOrdered'
<1> SUFFICES ASSUME Base, Durable, ReadsOrdered, [Next]_vars PROVE ReadsOrdered'
    OBVIOUS
<1>0. TypeOK /\ Control /\ Session /\ InForce
    BY DEF Base
<1> USE DEF store, ram, link, client, ReadsSeeWrites, SeesHeard
<1>1. /\ answers \in Seq(Frames \ {NoFrame}) /\ air \in Frames
      /\ tx \in [frame : Frames, left : 0 .. ReadFragments, whole : BOOLEAN]
    BY <1>0 DEF TypeOK
<1>2. SeesHeard(NoFrame)'
    BY NoFrameFacts
<1>a. CASE PowerLoss
    <2>1. answers' = answers /\ air' = NoFrame /\ tx' = FreeBuffer
        BY <1>a DEF PowerLoss, RamLost
    <2>2. \A i \in DOMAIN answers : ~ (answers[i].id > started')
        BY <1>a, PowerLossFacts DEF Known
    <2> QED BY <1>2, <2>1, <2>2, NoFrameFacts DEF ReadsOrdered
<1> SUFFICES ASSUME ~ PowerLoss PROVE ReadsOrdered'
    BY <1>a
<1>3. started' = started
    BY StartKept
<1>b. CASE Disconnect
    <2>1. tx'.frame = tx.frame /\ tx'.left = tx.left /\ air' = NoFrame /\ UNCHANGED answers
        BY <1>b, <1>1 DEF Disconnect
    <2> QED BY <1>2, <1>3, <2>1, NoFrameFacts DEF ReadsOrdered
<1>c. CASE GattFree
    BY <1>3, <1>c, NoFrameFacts DEF GattFree, ReadsOrdered
<1>d. CASE GattPush
    <2>1. /\ tx'.frame = tx.frame /\ tx'.left = tx.left - 1 /\ tx.left > 0 /\ air = NoFrame
          /\ air' = IF tx.left = 1 /\ tx.whole THEN tx.frame ELSE air
          /\ UNCHANGED answers
        BY <1>d, <1>1 DEF GattPush, Remaining
    <2>2. tx.left \in Int
        BY <1>1, BmsFirmwareAssumption
    <2>3. tx'.left > 0 => air' = NoFrame
        BY <2>1, <2>2
    <2> QED BY <1>3, <2>1, <2>3, NoFrameFacts DEF ReadsOrdered
<1>e. CASE Hear
    <2>1. answers' = Append(answers, air) /\ air # NoFrame /\ air' = NoFrame /\ UNCHANGED tx
        BY <1>e DEF Hear
    <2>2. /\ DOMAIN answers' = DOMAIN answers \cup {Len(answers) + 1} /\ answers'[Len(answers) + 1] = air /\ Len(answers) \in Nat
          /\ \A i \in DOMAIN answers : answers'[i] = answers[i] /\ i \in 1 .. Len(answers)
        BY <1>1, <2>1, AppendFacts
    <2>3. \A f \in Frames \ {NoFrame} : f.id \in Int /\ f.value \in Int
        BY NoFrameFacts DEF Ids, Values
    <2>4. air.id \in Int /\ air.value \in Int /\ \A i \in DOMAIN answers : answers[i].id \in Int /\ answers[i].value \in Int
        BY <1>1, <2>1, <2>3
    <2>5. ReadsSeeWrites'
        BY <1>3, <2>2, <2>4 DEF ReadsOrdered
    <2>6. tx.left > 0 => SeesHeard(tx.frame)'
        BY <1>3, <2>1, <2>2 DEF ReadsOrdered
    <2> QED BY <1>2, <1>3, <2>1, <2>5, <2>6, NoFrameFacts DEF ReadsOrdered
<1>f. CASE Receive
    <2> DEFINE r == Head(inbox)
    <2>1. /\ r.id \in Ids /\ r.kind \in AllKinds /\ UNCHANGED <<air, answers>> /\ Running
          /\ \/ UNCHANGED tx
             \/ \E ok \in BOOLEAN, v \in Values : Transmit(Answer(r, ok, v)) /\ (r.kind = "read" => v = params)
        BY <1>0, <1>f, ReceiveFacts DEF InSdk
    <2>2. AckedUpTo("params", params)
        BY <1>0, <2>1 DEF Control, Running, Durable, InForce
    <2>3. CASE UNCHANGED tx
        BY <1>3, <2>1, <2>3 DEF ReadsOrdered
    <2>4. CASE \E ok \in BOOLEAN, v \in Values : Transmit(Answer(r, ok, v)) /\ (r.kind = "read" => v = params)
        <3>1. PICK ok \in BOOLEAN, v \in Values : Transmit(Answer(r, ok, v)) /\ (r.kind = "read" => v = params)
            BY <2>4
        <3> DEFINE f == Answer(r, ok, v)
        <3>2. f \in Frames /\ f.kind = r.kind /\ f.value = v
            BY <2>1, AnswerFacts
        <3>3. tx' = tx \/ tx'.frame = f
            BY <1>0, <3>1, <3>2, TransmitFacts
        <3>4. f.kind = "read" => \A a \in Known : a.ok /\ a.kind = "params" /\ a.id > started => a.id <= f.value
            BY <2>2, <3>1, <3>2 DEF AckedUpTo
        <3>5. (\A i \in DOMAIN answers : answers[i] \in Known) /\ (air.ok => air \in Known)
            BY NoFrameFacts DEF Known
        <3> HIDE DEF f
        <3>6. SeesHeard(f) /\ (f.kind = "read" /\ air.ok /\ air.kind = "params" /\ air.id > started => air.id <= f.value)
            BY <2>1, <3>4, <3>5
        <3>7. CASE tx' = tx
            BY <1>3, <2>1, <3>7 DEF ReadsOrdered
        <3>8. CASE tx'.frame = f
            BY <1>3, <2>1, <3>6, <3>8 DEF ReadsOrdered
        <3> QED BY <3>3, <3>7, <3>8
    <2> QED BY <2>1, <2>3, <2>4
<1>g. CASE FinishParams \/ FinishName
    <2>1. /\ pending.kind # "none" /\ pending.id \in Ids /\ UNCHANGED <<air, answers>>
          /\ \E ok \in BOOLEAN : Transmit(Answer(pending, ok, 0))
        BY <1>0, <1>g, FinishFacts
    <2>2. PICK ok \in BOOLEAN : Transmit(Answer(pending, ok, 0))
        BY <2>1
    <2> DEFINE f == Answer(pending, ok, 0)
    <2>3. pending.kind \in {"params", "name"} /\ 0 \in Values
        BY <1>0, <2>1, BmsFirmwareAssumption DEF TypeOK, Values
    <2>4. f \in Frames /\ f.kind # "read"
        BY <2>1, <2>3, AnswerFacts DEF AllKinds
    <2>5. tx' = tx \/ tx'.frame = f
        BY <1>0, <2>2, <2>4, TransmitFacts
    <2> HIDE DEF f
    <2>6. CASE tx' = tx
        BY <1>3, <2>1, <2>6 DEF ReadsOrdered
    <2>7. CASE tx'.frame = f
        BY <1>3, <2>1, <2>4, <2>7 DEF ReadsOrdered
    <2> QED BY <2>5, <2>6, <2>7
<1>z. CASE UNCHANGED <<tx, air, answers>>
    BY <1>3, <1>z DEF ReadsOrdered
<1> QED
    BY <1>a, <1>b, <1>c, <1>d, <1>e, <1>f, <1>g, <1>z
       DEF Next, Callbacks, Gatt, Process, Clients, vars, Boot, Connect, EncryptionDone, PairingFails, SdkReturns,
           GattRefused, ProcessIdle, ProcessSave, FlashStep, Send, GiveUp

(* A read answered after an acknowledged write shows that write or a later   *)
(* one until the program starts again, whatever the storage does.            *)
THEOREM ReadsSeeAcknowledged == Spec => []ReadsSeeWrites
<1>1. Init => ReadsOrdered
    BY NoFrameFacts DEF Init, ReadsOrdered, ReadsSeeWrites, SeesHeard
<1>2. ReadsOrdered => ReadsSeeWrites
    BY DEF ReadsOrdered
<1> QED BY <1>1, <1>2, KeptHolds, ReadsStep, PTL DEF Spec

------------------------------------------------------------------------------
(* The frame in the buffer that a client waits for has been pushed from its  *)
(* beginning, and is in the air once it has been pushed to its end.          *)
InTime == tx.frame.id # 0 /\ waiting = tx.frame.id => tx.whole /\ (tx.left = 0 => air = tx.frame)

LEMMA InTimeStep == Base /\ InTime /\ [Next]_vars => InTime'
<1> SUFFICES ASSUME Base, InTime, [Next]_vars PROVE InTime'
    OBVIOUS
<1>0. TypeOK /\ Control /\ Session /\ Answers
    BY DEF Base
<1> USE DEF InTime, store, ram, link, client
<1>1. /\ air \in Frames /\ sent \in Seq(Requests) /\ answers \in Seq(Frames \ {NoFrame})
      /\ tx \in [frame : Frames, left : 0 .. ReadFragments, whole : BOOLEAN]
    BY <1>0 DEF TypeOK
<1>2. ASSUME NEW f, Transmit(f), UNCHANGED <<waiting, air>>, f \in Frames PROVE InTime'
    <2>1. CASE tx' = tx
        BY <1>2, <2>1
    <2>2. CASE tx' # tx
        <3>1. tx' = [frame |-> f, left |-> FragmentsOf(f), whole |-> TRUE]
            BY <1>2, <2>2 DEF Transmit
        <3>2. FragmentsOf(f) # 0
            BY BmsFirmwareAssumption DEF FragmentsOf
        <3> QED BY <3>1, <3>2
    <2> QED BY <2>1, <2>2
<1>a. CASE PowerLoss \/ Disconnect
    <2>1. waiting' = 0
        BY <1>a DEF PowerLoss, RamLost, Disconnect
    <2> QED BY <2>1
<1>b. CASE GattFree
    BY <1>b, NoFrameFacts DEF GattFree
<1>c. CASE GattPush
    <2>1. /\ tx'.frame = tx.frame /\ tx'.left = tx.left - 1 /\ tx'.whole = tx.whole
          /\ tx.left > 0 /\ air = NoFrame /\ UNCHANGED waiting
          /\ air' = IF tx.left = 1 /\ tx.whole THEN tx.frame ELSE air
        BY <1>c, <1>1 DEF GattPush, Remaining
    <2>2. tx.left \in Int
        BY <1>1, BmsFirmwareAssumption
    <2> QED BY <2>1, <2>2
<1>d. CASE Receive
    <2> DEFINE r == Head(inbox)
    <2>1. /\ r.id \in Ids /\ r.kind \in AllKinds /\ UNCHANGED <<waiting, air>>
          /\ \/ UNCHANGED tx
             \/ \E ok \in BOOLEAN, v \in Values : Transmit(Answer(r, ok, v))
        BY <1>0, <1>d, ReceiveFacts
    <2>2. \A ok \in BOOLEAN, v \in Values : Answer(r, ok, v) \in Frames
        BY <2>1, AnswerFacts
    <2> QED BY <1>2, <2>1, <2>2
<1>e. CASE FinishParams \/ FinishName
    <2>1. /\ pending.kind # "none" /\ pending.id \in Ids /\ UNCHANGED <<waiting, air>>
          /\ \E ok \in BOOLEAN : Transmit(Answer(pending, ok, 0))
        BY <1>0, <1>e, FinishFacts
    <2>2. pending.kind \in AllKinds /\ 0 \in Values
        BY <1>0, <2>1, BmsFirmwareAssumption DEF TypeOK, AllKinds, Values
    <2>3. \A ok \in BOOLEAN : Answer(pending, ok, 0) \in Frames
        BY <2>1, <2>2, AnswerFacts
    <2> QED BY <1>2, <2>1, <2>3
<1>f. CASE \E k \in Kinds : Send(k)
    <2>1. waiting' = Len(sent) + 1 /\ UNCHANGED <<tx, air>>
        BY <1>f DEF Send
    <2>2. tx.frame # NoFrame => tx.frame.id \in DOMAIN sent
        BY <1>0 DEF Answers, AnswersOwn, OwnAnswer
    <2>3. tx.frame.id # 0 => tx.frame.id # Len(sent) + 1
        BY <1>1, <2>2, NoFrameFacts
    <2> QED BY <2>1, <2>3
<1>g. CASE Hear
    <2>1. air # NoFrame /\ waiting' = (IF air.id = waiting THEN 0 ELSE waiting) /\ air' = NoFrame /\ UNCHANGED tx
        BY <1>g DEF Hear
    <2> QED BY <2>1
<1>h. CASE GiveUp
    BY <1>h DEF GiveUp
<1>z. CASE UNCHANGED <<tx, waiting, air>>
    BY <1>z
<1> QED
    BY <1>a, <1>b, <1>c, <1>d, <1>e, <1>f, <1>g, <1>h, <1>z
       DEF Next, Callbacks, Gatt, Process, Clients, vars, Boot, Connect, EncryptionDone, PairingFails, SdkReturns,
           GattRefused, ProcessIdle, ProcessSave, FlashStep

(* For every number of clients, fragments and restarts, an answer a client   *)
(* waits for is lost only because another frame is in the transmit buffer at *)
(* the moment it is ready.                                                   *)
THEOREM AnswersAreLostToOthers == Spec => LostToAnotherOnly
<1> DEFINE Kept == \A i \in Ids : waiting = i /\ waiting' = i /\ i \in InFirmware /\ i \notin InFirmware'
                                      => tx.frame.id \notin {0, i}
<1>1. Init => InTime
    BY NoFrameFacts DEF Init, InTime
<1>2. ASSUME Base, InTime, [Next]_vars PROVE Kept
    <2> SUFFICES ASSUME NEW i \in Ids, waiting = i, waiting' = i, i \in InFirmware, i \notin InFirmware'
                 PROVE  tx.frame.id \notin {0, i}
        OBVIOUS
    <2>0. TypeOK /\ Control /\ Session /\ Answers
        BY <1>2 DEF Base
    <2>1. i # 0 /\ tx \in [frame : Frames, left : 0 .. ReadFragments, whole : BOOLEAN] /\ inbox \in Seq(Requests)
        BY <2>0 DEF TypeOK, Ids
    <2>2. i \notin {inbox'[j].id : j \in DOMAIN inbox'} /\ i \notin {pending'.id, tx'.frame.id, air'.id}
        BY DEF InFirmware
    <2>4. i \in {pending.id, tx.frame.id, air.id} \/ \E j \in DOMAIN inbox : inbox[j].id = i
        BY DEF InFirmware
    <2> USE DEF store, ram, link, client
    <2>a. CASE PowerLoss \/ Disconnect \/ GiveUp
        BY <2>1, <2>a DEF PowerLoss, RamLost, Disconnect, GiveUp
    <2>b. CASE GattFree
        <3>1. tx.left = 0 /\ UNCHANGED <<pending, air, inbox>>
            BY <2>b DEF GattFree
        <3>2. i = tx.frame.id /\ i # air.id
            BY <2>2, <2>4, <3>1
        <3> QED BY <1>2, <2>1, <3>1, <3>2 DEF InTime
    <2>c. CASE GattPush
        <3>1. tx'.frame = tx.frame /\ air = NoFrame /\ UNCHANGED <<pending, inbox>>
            BY <2>c, <2>1 DEF GattPush
        <3> QED BY <2>1, <2>2, <2>4, <3>1, NoFrameFacts
    <2>d. CASE Receive
        <3> DEFINE r == Head(inbox)
        <3>1. /\ r.id \in Ids /\ r.kind \in AllKinds /\ UNCHANGED air
              /\ \A j \in DOMAIN inbox' : j + 1 \in DOMAIN inbox /\ inbox'[j] = inbox[j + 1]
              /\ inbox' = Tail(inbox) /\ inbox # <<>>
              /\ \A v : Ahead(v) => v < r.id
              /\ \/ /\ UNCHANGED pending
                    /\ \E ok \in BOOLEAN, v \in Values : Transmit(Answer(r, ok, v))
                 \/ /\ UNCHANGED tx /\ pending.kind = "none" /\ pending'.id = r.id
            BY <2>0, <2>d, ReceiveFacts DEF Receive
        <3>2. \A j \in DOMAIN inbox : inbox[j].id = r.id \/ inbox[j].id \in {inbox'[k].id : k \in DOMAIN inbox'}
            <4>1. \A j \in DOMAIN inbox : j = 1 \/ (j - 1 \in DOMAIN inbox' /\ inbox[j] = inbox'[j - 1])
                BY <2>1, <3>1
            <4>2. Head(inbox) = inbox[1]
                BY <2>1, <3>1, TailFacts
            <4> QED BY <4>1, <4>2
        <3>3. tx.frame # NoFrame => tx.frame.id # r.id /\ tx.frame.id \in Ids
            BY <2>0, <2>1, <3>1, NoFrameFacts DEF Answers, AnswersOwn, OwnAnswer, Ahead, Ids
        <3>4. CASE UNCHANGED pending /\ \E ok \in BOOLEAN, v \in Values : Transmit(Answer(r, ok, v))
            <4>1. PICK ok \in BOOLEAN, v \in Values : Transmit(Answer(r, ok, v))
                BY <3>4
            <4>2. tx' = tx \/ tx.frame = NoFrame
                BY <4>1 DEF Transmit
            <4>3. Answer(r, ok, v).id = r.id
                BY DEF Answer
            <4>4. tx.frame = NoFrame => tx'.frame = Answer(r, ok, v)
                BY <4>1 DEF Transmit
            <4>5. i # tx.frame.id
                BY <2>1, <2>2, <4>2, NoFrameFacts
            <4>6. i = r.id
                BY <2>2, <2>4, <3>1, <3>2, <3>4, <4>5
            <4>7. tx.frame # NoFrame
                BY <2>2, <4>3, <4>4, <4>6
            <4> QED BY <2>1, <3>3, <4>5, <4>7 DEF Ids
        <3>5. CASE UNCHANGED tx /\ pending.kind = "none" /\ pending'.id = r.id
            <4>1. i # r.id /\ i = pending.id
                BY <2>2, <2>4, <3>1, <3>2, <3>5
            <4>2. pending.kind = "none" => pending.id = 0
                BY <2>0 DEF Control
            <4> QED BY <2>1, <3>5, <4>1, <4>2
        <3> QED BY <3>1, <3>4, <3>5
    <2>e. CASE FinishParams \/ FinishName
        <3>1. /\ pending.kind # "none" /\ pending.id \in Ids /\ UNCHANGED <<air, inbox>>
              /\ \E ok \in BOOLEAN : Transmit(Answer(pending, ok, 0))
            BY <2>0, <2>e, FinishFacts
        <3>2. PICK ok \in BOOLEAN : Transmit(Answer(pending, ok, 0))
            BY <3>1
        <3>3. /\ tx' = tx \/ (tx.frame = NoFrame /\ tx'.frame = Answer(pending, ok, 0))
              /\ tx.frame = NoFrame => tx'.frame = Answer(pending, ok, 0)
              /\ Answer(pending, ok, 0).id = pending.id
            BY <3>2 DEF Transmit, Answer
        <3>4. tx.frame # NoFrame => tx.frame.id \in Ids
            BY <2>1, NoFrameFacts
        <3>5. i # tx.frame.id
            BY <2>1, <2>2, <3>3, NoFrameFacts
        <3>6. i = pending.id
            BY <2>2, <2>4, <3>1, <3>5
        <3>7. tx.frame # NoFrame
            BY <2>2, <3>3, <3>6
        <3> QED BY <3>4, <3>5, <3>7 DEF Ids
    <2>f. CASE \E k \in Kinds : Send(k)
        BY <2>1, <2>f DEF Send
    <2>g. CASE Hear
        <3>1. waiting' = (IF air.id = waiting THEN 0 ELSE waiting) /\ UNCHANGED <<pending, tx, inbox>>
            BY <2>g DEF Hear
        <3> QED BY <2>1, <2>2, <2>4, <3>1
    <2>z. CASE UNCHANGED <<pending, tx, inbox, air>>
        BY <2>2, <2>4, <2>z
    <2> QED
        BY <1>2, <2>a, <2>b, <2>c, <2>d, <2>e, <2>f, <2>g, <2>z
           DEF Next, Callbacks, Gatt, Process, Clients, vars, Boot, Connect, EncryptionDone, PairingFails, SdkReturns,
               GattRefused, ProcessIdle, ProcessSave, FlashStep
<1>3. ASSUME Base, InTime, [Next]_vars PROVE [Kept]_vars
    BY <1>2, <1>3
<1>4. Spec => []InTime
    BY <1>1, InTimeStep, BaseHolds, PTL DEF Spec
<1> QED BY <1>3, <1>4, BaseHolds, PTL DEF Spec, LostToAnotherOnly
====
