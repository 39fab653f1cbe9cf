---- MODULE BmsFirmware ----
(* firmware/bms_firmware.c with its BLE shell (app.c, bms_gatt.c) on top of  *)
(* the configuration store: the main loop, the BLE session and its write     *)
(* authorisation, requests, the deferred save and the one transmit buffer.   *)
(* The parameter set (or name) written by request i is called i, and 0 is    *)
(* the default: what a value is does not matter, only who wrote it.          *)
EXTENDS Integers, Sequences

CONSTANTS Kinds,         \* the requests clients send, a subset of AllKinds
          MaxRequests,   \* bound: requests sent in a behaviour
          MaxSessions,   \* bound: BLE connections in a behaviour
          ReadFragments, \* notifications a read response takes (up to 3 of 61 bytes)
          NoConfig, Half, Faults,  \* see ConfigStore
          SetterFaults,  \* the BLE stack may refuse a new device name
          Impatient      \* clients may give up on an answer and go on

(* GET requests, of which GET_PARAMETERS shows most; SET_PARAMETERS;         *)
(* SET_BLE_NAME; and whatever is answered with an error for its form alone   *)
(* (flags, unknown command, length, value). CONTROL, which changes only the  *)
(* state of charge, is left out.                                             *)
AllKinds == {"read", "params", "name", "bad"}

ASSUME BmsFirmwareAssumption ==
    /\ Kinds \subseteq AllKinds
    /\ MaxRequests \in Nat /\ MaxSessions \in Nat /\ ReadFragments \in Nat \ {0}
    /\ {SetterFaults, Impatient} \subseteq BOOLEAN

VARIABLES
    slots, generation, phase, request, confirmed, status,  \* the configuration store
    params, name,      \* RAM: application.parameters, ble_name
    gapName,           \* the device name the GATT table shows
    enabled,           \* config_store_enabled
    pending,           \* pending_save_kind and what goes with it
    tx,                \* g_tx_buffer: the frame, fragments left, whether the receiver saw its beginning
    loop,              \* where main_loop is: sdk, gatt, process, saving
    connected, authorized,
    sessions,          \* connections so far
    secured,           \* history: sessions whose encryption completed
    started,           \* history: requests sent before the program last started
    inbox,             \* written by the client, not yet delivered to the GATT callback
    waiting,           \* the request the client waits for, 0 if none
    sent,              \* history: every request sent
    air,               \* the answer handed to the BLE stack, not yet received
    answers            \* history: the answers clients received

store == <<slots, generation, phase, request, confirmed, status>>
ram == <<params, name, gapName, enabled>>
link == <<connected, authorized, sessions, secured, started>>
client == <<inbox, waiting, sent, air, answers>>
vars == <<store, ram, pending, tx, loop, link, client>>

Ids == 1 .. MaxRequests
Values == 0 .. MaxRequests
Configs == [params : Values, name : Values]
Requests == [id : Ids, kind : AllKinds, session : 1 .. MaxSessions]

Store == INSTANCE ConfigStore WITH BadConfigs <- {}

(* What ConfigStore assumes of its constants. *)
ASSUME StoreAssumption ==
    /\ NoConfig \notin Configs
    /\ Half \in Nat /\ Half >= 2
    /\ Faults \subseteq Store!FaultKinds

NoPending == [kind |-> "none", id |-> 0, previous |-> 0]
NoFrame == [id |-> 0, kind |-> "none", ok |-> FALSE, value |-> 0]
Frames == [id : Ids, kind : AllKinds, ok : BOOLEAN, value : Values] \cup {NoFrame}
FreeBuffer == [frame |-> NoFrame, left |-> 0, whole |-> TRUE]

Answer(r, ok, v) == [id |-> r.id, kind |-> r.kind, ok |-> ok, value |-> v]
BugFragmentsOf(f) == IF f.kind = "read" /\ f.ok THEN ReadFragments + 1 ELSE 1
BugFragmentsDown(f) == IF f.kind = "read" /\ f.ok THEN ReadFragments ELSE 0
FragmentsOf(f) == IF f.kind = "read" /\ f.ok THEN ReadFragments ELSE 1

TypeOK ==
    /\ Store!TypeOK
    /\ {params, name, gapName} \subseteq Values /\ enabled \in BOOLEAN
    /\ pending \in [kind : {"none", "params", "name"}, id : Values, previous : Values]
    /\ tx \in [frame : Frames, left : 0 .. ReadFragments, whole : BOOLEAN]
    /\ loop \in {"sdk", "gatt", "process", "saving"}
    /\ {connected, authorized} \subseteq BOOLEAN
    /\ sessions \in 0 .. MaxSessions /\ secured \subseteq 1 .. MaxSessions
    /\ inbox \in Seq(Requests) /\ sent \in Seq(Requests) /\ waiting \in Values
    /\ started \in 0 .. Len(sent)
    /\ air \in Frames /\ answers \in Seq(Frames \ {NoFrame})

RamLost == /\ params' = 0 /\ name' = 0 /\ gapName' = 0 /\ enabled' = FALSE
           /\ pending' = NoPending
           /\ tx' = FreeBuffer
           /\ loop' = "sdk"
           /\ connected' = FALSE /\ authorized' = FALSE
           /\ inbox' = <<>> /\ waiting' = 0 /\ air' = NoFrame

Init == /\ Store!Init
        /\ params = 0 /\ name = 0 /\ gapName = 0 /\ enabled = FALSE
        /\ pending = NoPending
        /\ tx = FreeBuffer
        /\ loop = "sdk"
        /\ connected = FALSE /\ authorized = FALSE /\ sessions = 0 /\ secured = {} /\ started = 0
        /\ inbox = <<>> /\ waiting = 0 /\ sent = <<>> /\ air = NoFrame /\ answers = <<>>

------------------------------------------------------------------------------
(* user_init_normal: bms_firmware_init, then bms_firmware_set_config_store.  *)
(* Defaults stay when nothing is stored; a loaded record is applied only     *)
(* after the name setter accepted its name, else writes stay disabled. With  *)
(* the slots of app.c, blank at every start, nothing is ever found.          *)
Loaded == IF confirmed' = NoConfig THEN [params |-> 0, name |-> 0] ELSE confirmed'

Boot == /\ Store!Load
        /\ enabled' \in IF confirmed' # NoConfig /\ SetterFaults THEN BOOLEAN ELSE {TRUE}
        /\ gapName' = Loaded.name
        /\ params' = IF enabled' THEN Loaded.params ELSE params
        /\ name' = IF enabled' THEN Loaded.name ELSE name
        /\ UNCHANGED <<pending, tx, loop, link, client>>

(* RAM is lost, and the slots with it: they are arrays of app.c that         *)
(* bms_app_init_persistent_config blanks before it loads them, so the store  *)
(* starts over, as Store!Init has it.                                        *)
BlankSlots == [s \in Store!Slots |-> Store!Unreadable]

PowerLoss == /\ phase # "off"
             /\ phase' = "off"
             /\ slots' = BlankSlots /\ generation' = 0 /\ status' = "none"
             /\ request' = NoConfig /\ confirmed' = NoConfig
             /\ RamLost
             /\ started' = Len(sent)
             /\ UNCHANGED <<sessions, secured, sent, answers>>

Running == phase # "off"
InSdk == Running /\ loop = "sdk"

------------------------------------------------------------------------------
(* blt_sdk_main_loop: the callbacks of the BLE stack.                        *)

(* bms_app_on_connect and bms_app_on_terminate both clear the authorisation. *)
BugSessionChanges == UNCHANGED authorized
SessionChanges == authorized' = FALSE

Connect == /\ InSdk /\ ~ connected /\ sessions < MaxSessions
           /\ connected' = TRUE
           /\ sessions' = sessions + 1
           /\ SessionChanges
           /\ UNCHANGED <<store, ram, pending, tx, loop, secured, started, client>>

(* The transmit buffer, the pending save and the decoder survive a           *)
(* disconnection; what the stack had not sent or delivered does not.         *)
Disconnect == /\ InSdk /\ connected
              /\ connected' = FALSE
              /\ SessionChanges
              /\ tx' = [tx EXCEPT !.whole = @ /\ tx.left = FragmentsOf(tx.frame)]
              /\ inbox' = <<>> /\ waiting' = 0 /\ air' = NoFrame
              /\ UNCHANGED <<store, ram, pending, loop, sessions, secured, started, sent, answers>>

(* bms_app_host_event *)
EncryptionDone == /\ InSdk /\ connected
                  /\ authorized' = TRUE
                  /\ secured' = secured \cup {sessions}
                  /\ UNCHANGED <<store, ram, pending, tx, loop, connected, sessions, started, client>>

PairingFails == /\ InSdk /\ connected
                /\ authorized' = FALSE
                /\ UNCHANGED <<store, ram, pending, tx, loop, connected, sessions, secured, started, client>>

(* bms_gatt_transmit: one frame at a time; the callers ignore a refusal.     *)
Transmit(f) == tx' = IF tx.frame = NoFrame
                     THEN [frame |-> f, left |-> FragmentsOf(f), whole |-> TRUE]
                     ELSE tx

(* The order of the checks of bms_firmware_set_parameters and _set_ble_name. *)
MayWrite == authorized /\ enabled
MaySave == MayWrite /\ pending.kind = "none"

(* The handlers. Reads and refusals are answered at once.                    *)
ReadParameters(r) == /\ r.kind = "read"
                     /\ Transmit(Answer(r, TRUE, params))
                     /\ UNCHANGED <<params, pending>>

RefuseRequest(r) == /\ r.kind = "bad" \/ (r.kind \in {"params", "name"} /\ ~ MaySave)
                    /\ Transmit(Answer(r, FALSE, 0))
                    /\ UNCHANGED <<params, pending>>

(* An accepted write is left to bms_firmware_process. New parameters are in  *)
(* force, and visible to reads, from here on; a new name is not.             *)
SetParameters(r) == /\ r.kind = "params" /\ MaySave
                    /\ pending' = [kind |-> "params", id |-> r.id, previous |-> params]
                    /\ params' = r.id
                    /\ UNCHANGED tx

SetBleName(r) == /\ r.kind = "name" /\ MaySave
                 /\ pending' = [kind |-> "name", id |-> r.id, previous |-> 0]
                 /\ UNCHANGED <<params, tx>>

HandleFrame(r) == ReadParameters(r) \/ RefuseRequest(r) \/ SetParameters(r) \/ SetBleName(r)

(* bms_firmware_receive, for one whole request.                              *)
Receive == /\ InSdk /\ connected /\ inbox # <<>>
           /\ HandleFrame(Head(inbox))
           /\ inbox' = Tail(inbox)
           /\ UNCHANGED <<store, name, gapName, enabled, loop, link, waiting, sent, air, answers>>

SdkReturns == /\ InSdk
              /\ loop' = "gatt"
              /\ UNCHANGED <<store, ram, pending, tx, link, client>>

------------------------------------------------------------------------------
(* bms_gatt_process: free a buffer that has been pushed, or push one more    *)
(* fragment; the stack refuses it when not connected or when it is busy.     *)
GattFree == /\ Running /\ loop = "gatt"
            /\ tx.left = 0
            /\ tx' = FreeBuffer
            /\ loop' = "process"
            /\ UNCHANGED <<store, ram, pending, link, client>>

BugRemaining == tx.left
Remaining == tx.left - 1

GattPush == /\ Running /\ loop = "gatt"
            /\ tx.left > 0 /\ connected /\ air = NoFrame
            /\ tx' = [tx EXCEPT !.left = Remaining]
            /\ air' = IF tx.left = 1 /\ tx.whole THEN tx.frame ELSE air
            /\ loop' = "process"
            /\ UNCHANGED <<store, ram, pending, link, inbox, waiting, sent, answers>>

GattRefused == /\ Running /\ loop = "gatt"
               /\ tx.left > 0
               /\ loop' = "process"
               /\ UNCHANGED <<store, ram, pending, tx, link, client>>

------------------------------------------------------------------------------
(* bms_firmware_process: save what is pending, then answer.                  *)
ProcessIdle == /\ Running /\ loop = "process"
               /\ pending.kind = "none"
               /\ loop' = "sdk"
               /\ UNCHANGED <<store, ram, pending, tx, link, client>>

SavedConfig == [params |-> params, name |-> IF pending.kind = "name" THEN pending.id ELSE name]

ProcessSave == /\ loop = "process"
               /\ pending.kind # "none"
               /\ Store!SaveBegin(SavedConfig)
               /\ loop' = "saving"
               /\ UNCHANGED <<ram, pending, tx, link, client>>

FlashStep == /\ Store!Flash
             /\ UNCHANGED <<ram, pending, tx, loop, link, client>>

BugRolledBack == params
RolledBack == pending.previous

BugCleared == pending
Cleared == NoPending

Finish(ok) == /\ Transmit(Answer(pending, ok, 0))
              /\ pending' = Cleared
              /\ loop' = "sdk"
              /\ UNCHANGED <<store, enabled, link, client>>

SaveReturned == loop = "saving" /\ phase = "ready"

BugFinishParams == /\ SaveReturned /\ pending.kind = "params"
                   /\ params' = IF status = "ok" THEN RolledBack ELSE params
                   /\ Finish(status = "ok")
                   /\ UNCHANGED <<name, gapName>>
FinishParams == /\ SaveReturned /\ pending.kind = "params"
                /\ params' = IF status = "ok" THEN params ELSE RolledBack
                /\ Finish(status = "ok")
                /\ UNCHANGED <<name, gapName>>

(* The name is stored first and shown afterwards; a setter that fails has    *)
(* already changed the GATT attribute, and the record keeps the new name.    *)
Shown == IF status = "ok" THEN pending.id ELSE gapName

FinishName == /\ SaveReturned /\ pending.kind = "name"
              /\ gapName' = Shown
              /\ \/ /\ status = "ok"
                    /\ name' = pending.id
                    /\ Finish(TRUE)
                 \/ /\ status = "ok" => SetterFaults
                    /\ Finish(FALSE)
                    /\ UNCHANGED name
              /\ UNCHANGED params

------------------------------------------------------------------------------
(* A client: one request at a time, unless it times out.                     *)
Send(k) == /\ Running /\ connected /\ waiting = 0 /\ Len(sent) < MaxRequests
           /\ LET r == [id |-> Len(sent) + 1, kind |-> k, session |-> sessions]
              IN  /\ sent' = Append(sent, r)
                  /\ inbox' = Append(inbox, r)
                  /\ waiting' = r.id
           /\ UNCHANGED <<store, ram, pending, tx, loop, link, air, answers>>

Hear == /\ air # NoFrame
        /\ answers' = Append(answers, air)
        /\ waiting' = IF air.id = waiting THEN 0 ELSE waiting
        /\ air' = NoFrame
        /\ UNCHANGED <<store, ram, pending, tx, loop, link, inbox, sent>>

GiveUp == /\ Impatient /\ waiting # 0
          /\ waiting' = 0
          /\ UNCHANGED <<store, ram, pending, tx, loop, link, inbox, sent, air, answers>>

------------------------------------------------------------------------------
Callbacks == Connect \/ Disconnect \/ EncryptionDone \/ PairingFails \/ Receive
Gatt == GattFree \/ GattPush \/ GattRefused
Process == ProcessIdle \/ ProcessSave \/ FlashStep \/ FinishParams \/ FinishName
Clients == (\E k \in Kinds : Send(k)) \/ Hear \/ GiveUp

Next == Boot \/ PowerLoss \/ Callbacks \/ SdkReturns \/ Gatt \/ Process \/ Clients

Spec == Init /\ [][Next]_vars

(* main_loop goes round; a request written to the GATT server is eventually  *)
(* delivered, a fragment offered again and again is eventually taken by the  *)
(* BLE stack while connected, and the radio delivers what the stack took.    *)
FairSpec == /\ Spec
            /\ WF_vars(SdkReturns) /\ WF_vars(Gatt) /\ WF_vars(Process)
            /\ SF_vars(Receive) /\ SF_vars(GattPush) /\ WF_vars(Hear)

------------------------------------------------------------------------------
Settled == Running /\ enabled /\ pending.kind = "none"

(* Between saves, the parameters in force are those of the last record known *)
(* to be stored: an unsaved change is never left in force, a saved one never *)
(* dropped (the rollback in bms_firmware_process).                           *)
ParametersMatchStore ==
    Settled => params = IF confirmed = NoConfig THEN 0 ELSE confirmed.params

StoredParams == IF Store!Stored = NoConfig THEN 0 ELSE Store!Stored.params
StoredName == IF Store!Stored = NoConfig THEN 0 ELSE Store!Stored.name

Queued == IF tx.frame = NoFrame THEN {} ELSE {tx.frame}
Told == {answers[i] : i \in DOMAIN answers} \cup Queued

(* Once a client may have been told that its write succeeded, no later       *)
(* write, refused save or disconnection brings back older parameters or an   *)
(* older name, in RAM or in the slots, until the program starts again.       *)
AcknowledgedIsKept ==
    \A a \in Told : a.ok /\ a.id > started =>
        /\ a.kind = "params" => params >= a.id /\ StoredParams >= a.id
        /\ a.kind = "name" => name >= a.id /\ StoredName >= a.id

(* The same of the slots, restarts included, as docs/parameters.md says of   *)
(* all parameters and the Bluetooth name ("kept over a restart once the      *)
(* write succeeded"). The slots of app.c keep nothing over a restart.        *)
AcknowledgedIsDurable ==
    \A a \in Told : a.ok => /\ a.kind = "params" => StoredParams >= a.id
                            /\ a.kind = "name" => StoredName >= a.id

(* Parameters whose write was refused are in force and stored no more, and   *)
(* never come back.                                                          *)
RefusedIsForgotten ==
    \A a \in Told : a.kind = "params" /\ ~ a.ok => a.id \notin {params, StoredParams}

(* What is in force, or stored, was written by a session that had completed  *)
(* encryption: an authorisation never outlives its connection.               *)
OnlySecuredSessionsWrite ==
    \A v \in {params, name, StoredParams, StoredName} \ {0} : sent[v].session \in secured

(* A request is answered at most once, and only with its own kind.           *)
AnsweredOnce ==
    /\ \A i, j \in DOMAIN answers : answers[i].id = answers[j].id => i = j
    /\ \A i \in DOMAIN answers : answers[i].id \in DOMAIN sent /\ answers[i].kind = sent[answers[i].id].kind

(* A read answered after a write was acknowledged sees that write or a later *)
(* one, on whatever connection, until the program starts again.              *)
ReadsSeeWrites ==
    \A i, j \in DOMAIN answers :
        i < j /\ answers[i].id > started
            /\ answers[i].ok /\ answers[i].kind = "params" /\ answers[j].ok /\ answers[j].kind = "read"
            => answers[j].value >= answers[i].id

(* The GATT device name is the confirmed one (docs/flash_persistence.md: the *)
(* GAP name changes only once the name write has succeeded).                 *)
GapNameIsConfirmed == Settled => gapName = name

------------------------------------------------------------------------------
(* The requests whose answer can still reach the client.                     *)
InFirmware == {inbox[i].id : i \in DOMAIN inbox} \cup {pending.id, tx.frame.id, air.id}

(* No request gets stuck: what a client waits for is answered or dropped,    *)
(* with a frame of an older connection in the buffer, with clients that go   *)
(* on early, and whatever the saves return.                                  *)
EveryRequestMovesOn == \A i \in Ids : waiting = i ~> waiting # i \/ i \notin InFirmware

(* An answer a client waits for is only lost to another frame in the         *)
(* transmit buffer at the moment it is ready (bms_gatt_transmit).            *)
LostToAnotherOnly ==
    [][\A i \in Ids : waiting = i /\ waiting' = i /\ i \in InFirmware /\ i \notin InFirmware'
            => tx.frame.id \notin {0, i}]_vars
====
