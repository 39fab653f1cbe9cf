---- MODULE UsbHid ----
(* The USB side of ble_master_kma_dongle: notifications of a BLE keyboard    *)
(* and mouse become reports on two interrupt endpoints, and wait in one ring *)
(* when their endpoint is still busy with a report the host has not fetched  *)
(* (application/app/usbkb.c, usbmouse.c). The handlers and usb_handle_irq    *)
(* run one after another in main_loop; the host fetches reports at any time. *)
(* A notification carries one key, as att_keyboard passes it on, without     *)
(* modifiers: what it copies to ctrl_key is the reserved byte of a report.   *)
EXTENDS Integers, Sequences

CONSTANTS NormalKeys, SysKeys, MediaKeys,
          FifoNum,    \* USB_FIFO_NUM
          PtrMod,     \* 2^8: usb_ff_rptr and usb_ff_wptr are u8
          FrameNum,   \* USBMOUSE_BUFF_DATA_NUM
          MaxNotices, MaxMoves  \* bounds: notifications of either device

NoKey == "none"
Keys == NormalKeys \union SysKeys \union MediaKeys
KeyIds == {"kb", "sys", "media"}
Moves == 1 .. MaxMoves

ASSUME UsbHidAssumption ==
    /\ FifoNum \in Nat /\ FifoNum >= 2 /\ FrameNum \in Nat \ {0}
    /\ PtrMod \in Nat \ {0} /\ PtrMod % (2 * FifoNum) = 0
    /\ NoKey \notin Keys
    /\ MaxNotices \in Nat /\ MaxMoves \in Nat

Reports == [id : KeyIds, data : Keys \union {NoKey}] \union [id : {"mouse"}, data : Moves]

VARIABLES
    busy,             \* endpoints whose report the host has not fetched
    shown,            \* the last report of each kind that went to the host
    slots, rptr, wptr,          \* usb_fifo, usb_ff_rptr, usb_ff_wptr
    frames, frameRptr, frameWptr,  \* mouse_dat_buff
    notReleased,      \* usbkb_not_released
    last,             \* last_data of usbkb_check_repeat_and_save
    call,             \* the function main_loop is in, and its key
    held, consumer,   \* history: what the keyboard last said
    late,             \* history: a key report had to wait
    notices, moves    \* how many there were

endpoints == <<busy, shown>>
fifo == <<slots, rptr, wptr>>
ring == <<frames, frameRptr, frameWptr>>
history == <<held, consumer, notices, moves>>
vars == <<endpoints, fifo, ring, notReleased, last, call, late, history>>

Idle == [stage |-> "idle", key |-> NoKey]
Stages == {"idle", "kb", "sys", "media", "frame", "fifo"}

Used == (wptr - rptr) % PtrMod

TypeOK == /\ busy \subseteq {"keyboard", "mouse"}
          /\ shown \in [KeyIds -> Keys \union {NoKey}]
          /\ {rptr, wptr} \subseteq 0 .. PtrMod - 1 /\ Used <= FifoNum
          /\ {frameRptr, frameWptr} \subseteq 0 .. FrameNum - 1
          /\ notReleased \subseteq KeyIds
          /\ {last, held, consumer} \subseteq Keys \union {NoKey}
          /\ call \in [stage : Stages, key : Keys \union {NoKey}]
          /\ late \in BOOLEAN

Init == /\ busy = {} /\ shown = [id \in KeyIds |-> NoKey]
        /\ slots = [i \in 0 .. FifoNum - 1 |-> [id |-> "kb", data |-> NoKey]]
        /\ rptr = 0 /\ wptr = 0
        /\ frames = [i \in 0 .. FrameNum - 1 |-> 0] /\ frameRptr = 0 /\ frameWptr = 0
        /\ notReleased = {} /\ last = NoKey /\ call = Idle
        /\ held = NoKey /\ consumer = NoKey /\ late = FALSE /\ notices = 0 /\ moves = 0

------------------------------------------------------------------------------
(* System, media and mouse reports share an endpoint.                        *)
EndpointOf(id) == IF id = "kb" THEN "keyboard" ELSE "mouse"
Sent(id) == EndpointOf(id) \notin busy

Write(report) ==
    /\ busy' = busy \union {EndpointOf(report.id)}
    /\ shown' = IF report.id = "mouse" THEN shown ELSE [shown EXCEPT ![report.id] = report.data]

(* The index of the oldest entry after one more has been put in.             *)
BugOldest == IF (wptr + 1 - rptr) % (2 * FifoNum) > FifoNum + 1 THEN (rptr + 1) % PtrMod ELSE rptr
BugNewest == IF (wptr + 1 - rptr) % (2 * FifoNum) > FifoNum THEN (wptr + 1) % PtrMod ELSE rptr
Oldest == IF (wptr + 1 - rptr) % (2 * FifoNum) > FifoNum THEN (rptr + 1) % PtrMod ELSE rptr

Enqueue(report) == /\ slots' = [slots EXCEPT ![wptr % FifoNum] = report]
                   /\ wptr' = (wptr + 1) % PtrMod
                   /\ rptr' = Oldest

(* usbkb_hid_report_normal and usbmouse_hid_report: they return 1 if Sent.   *)
Post(report) == IF Sent(report.id) THEN Write(report) /\ UNCHANGED fifo
                ELSE Enqueue(report) /\ UNCHANGED endpoints

------------------------------------------------------------------------------
(* usbkb_report_normal_key, _sys_key and _media_key, with the releases.      *)
BugReported(id, pressed) == notReleased
Reported(id, pressed) == CASE ~ Sent(id) -> notReleased
                           [] Sent(id) /\ pressed -> notReleased \union {id}
                           [] OTHER -> notReleased \ {id}

ReportKey(id, keys) ==
    LET pressed == call.key \in keys
    IN  IF pressed \/ id \in notReleased
        THEN /\ Post([id |-> id, data |-> IF pressed THEN call.key ELSE NoKey])
             /\ notReleased' = Reported(id, pressed)
             /\ late' = (late \/ ~ Sent(id))
        ELSE UNCHANGED <<endpoints, fifo, notReleased, late>>

Stage(from, id, keys, to) ==
    /\ call.stage = from
    /\ ReportKey(id, keys)
    /\ call' = IF to = "idle" THEN Idle ELSE [call EXCEPT !.stage = to]
    /\ UNCHANGED <<ring, last, history>>

KeyStage == \/ Stage("kb", "kb", NormalKeys, "sys")
            \/ Stage("sys", "sys", SysKeys, "media")
            \/ Stage("media", "media", MediaKeys, "idle")

(* usbkb_hid_report drops a press it has seen while any key is not released. *)
Repeats(key) == key # NoKey /\ key = last

Keyboard(key) ==
    /\ call = Idle /\ notices < MaxNotices
    /\ held' = key /\ notices' = notices + 1
    /\ last' = IF key = NoKey THEN last ELSE key
    /\ call' = IF Repeats(key) /\ notReleased # {} THEN Idle ELSE [stage |-> "kb", key |-> key]
    /\ UNCHANGED <<endpoints, fifo, ring, notReleased, consumer, late, moves>>

(* usbkb_report_consumer_key.                                                *)
Consumer(key) ==
    /\ call = Idle /\ notices < MaxNotices
    /\ consumer' = key /\ notices' = notices + 1
    /\ call' = [stage |-> "media", key |-> key]
    /\ UNCHANGED <<endpoints, fifo, ring, notReleased, last, held, late, moves>>

(* usbmouse_add_frame, which does not look whether the ring is full.         *)
Mouse ==
    /\ call = Idle /\ moves < MaxMoves
    /\ moves' = moves + 1
    /\ frames' = [frames EXCEPT ![frameWptr] = moves + 1]
    /\ frameWptr' = (frameWptr + 1) % FrameNum
    /\ UNCHANGED <<endpoints, fifo, frameRptr, notReleased, last, call, held, consumer, late, notices>>

------------------------------------------------------------------------------
(* usb_handle_irq: after a USB reset the endpoints are idle, and the host    *)
(* knows of no key. The bus is never suspended: the return of a suspended    *)
(* bus, which leaves all reports waiting, is left out.                       *)
Handle(reset) ==
    /\ call = Idle
    /\ call' = [stage |-> "frame", key |-> NoKey]
    /\ IF reset THEN busy' = {} /\ shown' = [id \in KeyIds |-> NoKey]
       ELSE UNCHANGED <<busy, shown>>
    /\ UNCHANGED <<fifo, ring, notReleased, last, late, history>>

(* usbmouse_report_frame keeps a frame it was told is not sent.              *)
Frame ==
    /\ call.stage = "frame"
    /\ call' = [call EXCEPT !.stage = "fifo"]
    /\ IF frameRptr # frameWptr
       THEN /\ Post([id |-> "mouse", data |-> frames[frameRptr]])
            /\ frameRptr' = IF Sent("mouse") THEN (frameRptr + 1) % FrameNum ELSE frameRptr
       ELSE UNCHANGED <<endpoints, fifo, frameRptr>>
    /\ UNCHANGED <<frames, frameWptr, notReleased, last, late, history>>

(* usb_hid_report_fifo_proc.                                                 *)
BugTaken == rptr
Taken == (rptr + 1) % PtrMod
FifoProc ==
    /\ call.stage = "fifo"
    /\ call' = Idle
    /\ IF rptr # wptr /\ Sent(slots[rptr % FifoNum].id)
       THEN /\ Write(slots[rptr % FifoNum])
            /\ rptr' = Taken /\ UNCHANGED <<slots, wptr>>
       ELSE UNCHANGED <<endpoints, fifo>>
    /\ UNCHANGED <<ring, notReleased, last, late, history>>

(* The host fetches the report of an endpoint.                               *)
Fetch(endpoint) == /\ endpoint \in busy
                   /\ busy' = busy \ {endpoint}
                   /\ UNCHANGED <<shown, fifo, ring, notReleased, last, call, late, history>>

Next == \/ \E key \in Keys \union {NoKey} : Keyboard(key)
        \/ \E key \in MediaKeys \union {NoKey} : Consumer(key)
        \/ Mouse
        \/ KeyStage
        \/ \E reset \in BOOLEAN : Handle(reset)
        \/ Frame \/ FifoProc
        \/ \E endpoint \in {"keyboard", "mouse"} : Fetch(endpoint)

Spec == Init /\ [][Next]_vars

(* main_loop goes round, the host keeps fetching, and its fetches do not     *)
(* always fall between the two halves of usb_handle_irq, which it is not     *)
(* synchronised with.                                                        *)
Fairness == /\ WF_vars(KeyStage) /\ WF_vars(Handle(FALSE)) /\ WF_vars(Frame) /\ WF_vars(FifoProc)
            /\ WF_vars(Fetch("keyboard")) /\ WF_vars(Fetch("mouse"))
            /\ SF_vars(call.stage # "fifo" /\ Fetch("mouse"))

LiveSpec == Spec /\ Fairness

------------------------------------------------------------------------------
(* The ring of waiting reports forgets the oldest when full, and nothing     *)
(* else, also when its u8 pointers wrap around (usb_ff_rptr, usb_ff_wptr).   *)
Queue == INSTANCE LossyQueue WITH
            Items <- Reports, Num <- FifoNum,
            queue <- [i \in 1 .. Used |-> slots[(rptr + i - 1) % FifoNum]]
ImplementsLossyQueue == Queue!Spec

(* As long as no key report has had to wait, whatever the mouse does: when   *)
(* the keyboard has let go of a key, so has the host (usbkb_not_released).   *)
ReleasedInTime ==
    call = Idle /\ ~ late => /\ held \notin NormalKeys => shown["kb"] = NoKey
                             /\ held \notin SysKeys => shown["sys"] = NoKey
                             /\ held \notin MediaKeys /\ consumer = NoKey => shown["media"] = NoKey

(* Once the devices are silent, nothing is left waiting: one endpoint that   *)
(* is slow does not hold up the other for ever.                              *)
Drains == <>[](rptr = wptr /\ frameRptr = frameWptr)
====
