# A specification of the BMS platform

`tc_ble_single_sdk/vendor/bms_platform` is a battery management system for Telink TLSR825x
chips inside a copy of the Telink BLE SDK: it measures a pack through an analog front end (AFE),
protects it, and lets BLE clients read it and change its configuration. This directory holds TLA+
models of it and of the USB report path of the SDK's dongle demonstration, TLC configurations that
check them, and TLAPS proofs. Paths below are relative to `bms_platform/` unless they begin with
`application/` or `ble_master_kma_dongle/`, which are in the SDK.

Run from this directory, for example `tlc -config StoreMain.cfg ConfigStore.tla` or `tlapm ConfigStoreProofs.tla`.
`PROJECT.json` lists the runs, the mutants (one plausible bug per checked property, written as a
`Bug...` operator next to the definition it replaces), the source lines of every definition, the
findings, the hazards and the theorems.

## 1. Inventory

### Components

| component | state it keeps | operations | what is hard |
|---|---|---|---|
| configuration store, `core/bms_config_store.c` | two flash slots, the caller's generation | load, save (erase, program, read back) | power loss between flash operations, wrap-around of the generation, storage errors |
| firmware shell, `firmware/bms_firmware.c` | parameters, name, one pending save, decoder, realtime | boot, receive, process, publish | a write takes effect before it is saved, must be rolled back, and is answered rounds later |
| BLE session and main loop, `firmware/app.c`, `main.c` | connected, write authorisation, the laboratory store | connect, terminate, encryption and pairing events, `main_loop` | callbacks interleave with the deferred work of the loop |
| GATT server, `firmware/bms_gatt.c` | one transmit buffer, device name | write callback, transmit, push a fragment | one buffer for all answers, kept over a disconnection |
| BMSLink codec, `protocol/bmslink.c` | partial frame | push a byte, encode | resynchronisation on a stream cut at any point |
| PC client, `pc_client/bms_pc/` | sequence number, buffer of its decoder | request, deadline, reconnect, paged reads | a late answer to an earlier request, pages of different age |
| protection, `core/bms_protection.c` | time asserted and active flag per rule | evaluate, power command | delays over uneven samples, invalid data, parameters that change |
| platform and application, `core/bms_platform.c`, `bms_application.c` | state, realtime, application | init, poll, set_parameters, step | each AFE call may fail, leaving a poll half done |
| balancing `core/bms_balance.c`, realtime `bms_realtime.c`, AFE table `afe/afe_interface.c` | (part of the above) | update, publish, dispatch | |
| SH36735 driver, `afe/sh36735/` | the chip's registers | power, balance, mode, clear flags, cell count | several register accesses per operation, each of which may fail half way |
| parameters, `core/bms_parameters.c` | 21 values | get, set a batch | batch atomicity with cross constraints |
| event log, `core/bms_event.c` | ring of 32 | append, get by index | overwritten while a client pages through it |
| state of charge, `core/bms_soc.c` | permille, residual | update, set | 32-bit overflow, remainder across samples |
| USB report path, `ble_master_kma_dongle/` with `application/app/usbkb.c`, `usbmouse.c` | ring of waiting reports, ring of mouse frames, keys not released | notification, `usb_handle_irq`, USB reset | the host fetches at any time, reports wait and overtake, pointers wrap |

Heating, the product table, the laboratory simulator, OTA, user interfaces, the mobile client, the build
tool and the rest of the SDK are listed with reasons in `PROJECT.json`.

### How they interact

`main_loop` (app.c) runs the BLE stack, then `bms_gatt_process`, then `bms_firmware_process`.
The stack calls back on connection, termination, pairing failure, completed encryption and GATT
writes. A GATT write goes byte by byte through the decoder into `bms_firmware_handle_frame`. A read
or a refusal is answered immediately through `bms_gatt_transmit`, which holds one frame; a write is
put in force in RAM and recorded as pending, and the next `bms_firmware_process` saves it through the
store, rolls it back on failure, and answers. `bms_platform_poll` calls the AFE four times
(measurement, faults, power, balance) with the protection step between the second and third call, and
the SH36735 adapter turns each of these calls into register accesses.

At this commit nothing in the firmware image calls `bms_platform_poll` or `bms_platform_init`: the
images publish simulated measurements through `bms_firmware_publish_measurement`, and the store's
callbacks (`BmsConfigStore`) are bound only to two RAM arrays in app.c. The firmware side
(`BmsFirmware`, `BmsLink`, `BmsApplication`) and the control loop (`BmsPlatform`, `Sh36735`) are therefore
not composed; they meet in the application's parameters and log.

### What makes each correct

* store: a power cycle at any instant yields the configuration last confirmed or the one being
  saved; the record in force is never erased before a newer one exists; a failed save changes nothing.
* shell: until the program starts again, what a client was told about its write agrees with RAM, with the slots, and with
  later reads; only sessions with completed encryption change anything; a request is answered at most once, and none gets stuck.
* link: only whole requests are acted on, once each; a damaged stream is found back into; an answer that
  arrived is found, and none is taken for another.
* application: a batch of parameters is atomic, readers of several pages see neither constrained parameters
  the wrong way round nor events twice; the ring is a bounded log.
* platform: a condition that is evaluated for its delay opens the path, and none acts earlier; the path is closed
  again only by the release condition; realtime reports what the hardware drives; every change is logged.
* driver: a drive does what it was asked or, failing, a part of it; no latched fault is lost.
* state of charge: no charge is lost to rounding, and a sum leaves its width only under a current no pack has.
* USB: a key let go is released on the host, nothing waits for ever, the ring forgets only its oldest.

## 2. Modules

| module | models | state and actions |
|---|---|---|
| `DurableConfig` | abstract: the store is one durable register | `Boot`, `Begin`, `Store` (the instant of durability), `Confirm`, `Refuse`, `PowerLoss` |
| `ConfigStore` | `bms_config_store_load`, `_save` | `slots`, `generation`, and a phase for where the save is; one action per flash operation and outcome |
| `BmsFirmware` | bms_firmware.c, app.c, bms_gatt.c over an INSTANCE of `ConfigStore` | `loop` is where `main_loop` is; callbacks run only while it is in the SDK; `Receive` is one whole request with the handler it reaches, `GattPush` one `bms_gatt_process`, `ProcessSave` / `FlashStep` / `Finish*` one `bms_firmware_process` |
| `BmsLink` | bmslink.c, `bms_firmware_receive`, bms_gatt.c, and of the PC client protocol.py, transport.py, client.py | both streams as runs of bytes; `Deliver` is one ATT write through the decoder, `Round` one round of `main_loop`, `Send` / `Write` / `Arrive` / `Accept` / `GiveUp` are `exchange` |
| `BmsParameters`, `EventLog` | bms_parameters.c and bms_event.c with the paged reads of their clients | parts of the next |
| `BmsApplication` | bms_application.c and the requests that reach it, over both | `Step`, `SetParameters`, `Process` (save or rollback), `SetSoc`, and the pages of two readers |
| `BoundedLog` | abstract: a log that forgets its oldest entry | `Add` |
| `Protection` | the rules and the power command, as operators | no state |
| `BmsPlatform` | `bms_platform_poll` over `Protection` | one action per way out of a poll, `Start`, `SetParameters`, `Tick` (time passes) |
| `AfeContract` | abstract: what a poll relies on when it drives the AFE | `Begin`, `Step`, `Return`, `Reject`, `Other` |
| `Sh36735` | the adapter and the driver | `call.at` is the access an operation has come to; `Acknowledged`, `AcknowledgeLost`, `TransferFails` are the outcomes of an access; `Latch` is the chip |
| `BmsSoc` | bms_soc.c | `Update`, `Set`, `SetCapacity`, in the integers of C |
| `LossyQueue` | abstract: a queue that forgets its oldest item when full | `Push`, `Pop` |
| `UsbHid` | usbkb.c, usbmouse.c, `usb_handle_irq`, the notification handler | `call` is the function `main_loop` is in; `Keyboard`, `Consumer`, `Mouse`, `KeyStage`, `Handle`, `Frame`, `FifoProc`, and `Fetch` for the host |
| `MCSh36735`, `MCBmsApplication`, `MCBmsSoc` | | constants that a cfg cannot express |
| `ConfigStoreProofs`, `BmsFirmwareProofs`, `BmsPlatformProofs`, `Sh36735Proofs`, `BmsApplicationProofs`, `BmsSocProofs`, `UsbHidProofs`, `BmsLinkProofs` | | theorems |

**ConfigStore.** A record is reduced to whether `bms_config_decode_image` accepts it, its generation
and its configuration: magic, length, CRC and range checks only matter through that verdict.
Generations are taken modulo `2 * Half`; the code has `Half = 2^31`. A torn erase is `EraseOK`
followed by power loss, a torn program is the power loss before `ProgramOK`. `Faults` names the storage errors
of an instance: `erase`, `write` and `program` show before a record is complete; `late` reports an error
although the record is complete; `boot` makes a slot unreadable at start-up. `confirmed` and `request`
record what the caller was last told and are kept over power loss for the properties only.

**BmsFirmware.** The parameters or the name written by request *i* are called *i*, 0 is the default;
no property needs more than who wrote a value. A request is a read, a parameter write, a name write, or
"bad" (refused for its form alone: flags, length, unknown command, invalid value). `tx` is the transmit buffer
with the fragments left and whether the present receiver saw its beginning; a read answer takes
`ReadFragments` notifications. The store is the one app.c binds: two RAM arrays, filled with 0xff at every start, so `PowerLoss`
takes the slots with it and `started` says which requests came before. The callbacks of app.c cannot fail; the write errors
of the runs are those the interface `BmsConfigStore` provides for. Power loss in the middle of a save of slots that do survive is
`ConfigStore`'s subject. The client is environment: it sends when it has heard the whole answer to its last request, which
may be before `bms_gatt_process` has freed the buffer of that answer, and an `Impatient` one also gives up on an answer and goes on
(the PC client's timeout). The pending request, the transmit buffer and the authorisation flag are exactly the
globals that survive or do not survive a disconnection in the code.

**BmsLink** looks at the same exchange as a stream of bytes, which `BmsFirmware` does not. A frame is a row of
tokens: two for SOF, one for the rest of the header, some of payload, one for the CRC. One payload token equals
the first SOF byte, so that payloads can look like frames. The CRC is ideal: it checks exactly for
what some frame encodes to. Sequence numbers grow by one; the wrap of client.py:93 from 0xFFFF to 1 is beyond any bound on requests. A stream breaks when a connection ends between two fragments and when a stack
drops a write without response; nothing resets either decoder then, since the code does not.

**BmsApplication.** Writes that take effect in RAM, their later save or rollback, protection changes, and a set SOC go on
between the pages of a reader of parameters and of one of the log. Each parameter has a range, some pairs have an order.
An event is the number with which it was appended.

**BmsPlatform.** A reading says for each rule where the measurement stands: beyond the trip threshold,
beyond the release threshold, between the two, or not valid; voltages, currents and temperatures become
invalid as a group, and a current can be beyond one limit only. The state of charge, heating and cell statistics change none of the modelled
variables. `BmsStatus` results of the AFE are three: ok, refused without effect (not ready, not supported),
and error, which for a drive may leave the hardware either way (`Sh36735` shows that it may, and that it can do no worse).
`hwPower`, `hwBalancing` are what the chip may be driving, as opposed to what realtime reports: any way at all before the first accepted
command, since the AFE goes on while the program starts over and `afe_init` leaves its switches alone; the commanded way after one;
either way after an error. `driven` says that the last command was
accepted. `observed` counts how long each condition has been evaluated to be tripping and `since` how
long ago it was last evaluated not to be, both independently of `asserted_ms`. A poll whose fault read fails evaluates nothing, and the
interval it ends is lost to both, as it is in the code.

**Sh36735.** The registers start with any contents, also the switches and the latched faults of an earlier run. One action is one register access: it fails before the chip acts, is acknowledged, or is acted on with the
acknowledgement lost, and in both failing cases the driver gives up where it is. The refinement mapping reads the power path off SCONF2 and
the balance switches off the three registers.

**BmsSoc** has C's division, which rounds towards zero, and its remainder, whose sign is that of the dividend. A sum that leaves int32_t wraps.
`owed` is the charge that flowed and did not move the SOC, each permille counted at the capacity of the step that moved it; a change of the
capacity does not touch it. It starts anew where the SOC is not what was counted (set, saturated, corrected) and is not kept after a sum
that `wrapped`.

**UsbHid.** A notification of the keyboard carries one key; its handler calls the three report functions in
order, each of which finds its endpoint free or not, and the host may fetch between any two. System,
media and mouse reports share an endpoint. `shown` is what the host was last told, `late` says
that a key report had to wait in the ring. The pointers of the ring are taken modulo `PtrMod` (2^8 in the code).

## 3. Runs

| run | shows |
|---|---|
| `store_main` | With power loss between any two flash operations and every fault that shows before the record is complete: `Recoverable`, `NewestIsPreserved`, and the store implements `DurableConfig`. |
| `store_faulty` | All faults, late errors and unreadable slots included: the record the program works with is still never touched. |
| `store_late` | **Violation.** A save refused after the record was complete is loaded by the next boot. |
| `firmware_main` | Two requests, two sessions, power loss, write errors, names the stack refuses, impatient clients: RAM agrees with the store between saves, an acknowledged write stays in force and stored until the program starts again, a refused one is gone, only secured sessions write, an answer comes at most once, reads see what was acknowledged since the start; no request gets stuck, and an answer is lost only to another frame in the transmit buffer. |
| `firmware_volatile` | **Violation.** An acknowledged write is gone after a restart: app.c:120 blanks the slots. docs/parameters.md:15 says it is kept (docs/flash_persistence.md:26 that it is not). |
| `link_main` | Connections that end within frames, lost writes and deadlines: only whole requests are handled, in order and once; what a broken request costs is bounded; an answer that arrived is found; no late answer of the same connection is taken for another. |
| `application_main` | Two paged readers against writes, rollbacks, events and a set SOC: pairs are read consistently, the log is a bounded log, and a reader misses no more events than were overwritten meanwhile. |
| `platform_main` | Both topologies, two current rules and the AFE fault, the delay changing at any moment, failed fault reads, all AFE results: reports are true, protected paths stay open, a rule evaluated for its delay acts and none acts early, releases need their band. |
| `platform_events` | **Violation.** An AFE fault change is never logged: `bms_platform_poll` overwrites the previous flags before `bms_application_step` compares them. |
| `afe_main` | Every access of every operation failing in either way: the driver implements `AfeContract`, no latched fault is lost, a successful clear is one, features keep each other's bits. |
| `soc_main` | Any currents, capacity changes, corrections and saturation: `ChargeIsConserved`, `NumeratorFits`. |
| `usb_main` | Keyboard, consumer and mouse notifications against a host that fetches and resets at any time: releases are right while nothing had to wait, the ring is a `LossyQueue`, and it drains. |

Each violation is a sentence of the documentation that the code does not keep; `PROJECT.json`
quotes it under `findings`.

### Bounds, and why they are enough

* **Store:** `Half = 3` (generations 0..5): three generations to either side, so that the counter wraps with
  each parity while a signed difference still has both signs. Two configurations tell "old", "new" and
  "retry" apart. The state space is complete, there is no bound on steps.
* **Firmware:** in `firmware_main`, `MaxRequests = 2`, `MaxSessions = 2`: a write pending and a second write or a read against it or after it;
  and a second session that inherits what the first one left behind (pending save, half-sent answer, its whole answer still in the buffer).
  Everything the run checks but `EveryRequestMovesOn` is also proved for any number of both. `firmware_volatile` needs one write. `Half = 2`: the
  counter does not wrap within two requests, the store runs and proofs cover that. The faults
  of the medium are reduced to `write`, because the store runs show that all early faults have one effect on the caller.
  `ReadFragments = 2` is the smallest frame that can be half sent (the code sends up to 3).
* **Link:** four requests in two sessions with one lost write. A long frame has nine tokens in three fragments of four, the last of
  them not full, so that the loss of any fragment leaves the decoder expecting up to
  five tokens more than it gets: short requests of four are swallowed whole. `DeafnessIsBounded` is stated in tokens for this reason.
* **Application:** five parameters on pages of three with a pair on each page, a ring of four read in pages of two, seven events: the
  ring is overwritten almost once over while a reader is at any of its pages.
* **Platform:** `MaxDelay = MaxAge = 2` with delays 0 and 2: samples closer than the delay, as long as the delay, a delay
  reached by two samples and one cut at the bound in `bms_protection_update_rule`. Rules share only the power command and the balance request; the
  two current rules share their measurement too and block one path each. The proofs cover every set of rules.
* **Driver:** a cell in each of the three registers, the one in the highest not connected; two faults in FLAG1, one in FLAG2; three power commands;
  every initial contents of the registers.
* **SOC:** seven levels of 4 or 8 units, currents of -5 to 5 over up to 2 ms: the residual takes both signs and each size. With `MaxInt = 15`
  a current of 5 wraps with a large residual and one of `Limit = 3` never does. The scale is the only thing reduced, and the proofs lift it.
* **USB:** one key of each class, three notifications of the keyboard and one mouse frame, a ring of two with pointers
  modulo four (4 and 256 in the code), so that it fills, forgets and wraps; two slots for mouse frames.
* Two choices are over-approximations: which cells are balanced is any choice when balancing is
  allowed, and any zone may follow any other between two samples.

Deadlock is checked everywhere but in `link_main`, where the system stops when its requests and sessions are used up.

### Fairness

`FairSpec` of `BmsFirmware` is that of `firmware_main`. `SdkReturns`, the step of `bms_gatt_process` and the one of
`bms_firmware_process` are weakly fair: `main_loop` has no blocking call. `Receive` is strongly fair,
because a callback that the stack owes is delivered in one of the rounds and not in every one. `GattPush` is
strongly fair: `blc_gatt_pushHandleValueNotify` may refuse in any round, and the code offers the fragment again
each round; a stack that is connected accepts in the end. `Hear` is weakly fair: a connected link layer delivers.
Nothing is assumed about `Boot`, `Connect`, `PowerLoss` or clients: power and connections may stay away, which ends the wait too.

Not every request is answered. docs/firmware.md:19 lets a client send when it has received the whole frame; the buffer may still hold that frame
for a round (`bms_gatt.c:186`), and the answer is then dropped (`bms_gatt.c:170`). A frame half sent at a disconnection,
which stays in `g_tx_buffer` and is continued on the next connection (`bms_gatt.c:192`), does the same to the first answer there. Both cases are in the run.
What does hold is `EveryRequestMovesOn`, that the firmware holds on to no request for ever, and `LostToAnotherOnly`, that this is the only way to lose an answer.

`LiveSpec` of `UsbHid` is used by `usb_main`. The steps of `main_loop` are weakly fair, a call of `usb_handle_irq` without a reset
among them, and so are the host's fetches: an interrupt endpoint is polled at its interval.
A fetch of the mouse endpoint outside the "fifo" stage is strongly fair: the host is not synchronised with `main_loop`,
so its fetches do not all fall between `usbmouse_report_frame` and `usb_hid_report_fifo_proc`. Without it the
frame of the mouse ring and its copies in the FIFO can take turns for ever.

## 4. Proofs

Eight modules hold proofs, from the named assumptions on the constants (`ASSUME` in the component's module); where a theorem
needs more, it says so as its own `ASSUME`.

**Store.** `TypeOK` and `ConfirmedRecordIntact` hold under every fault (`TypeCorrect`,
`ConfirmedRecordNeverTouched`). The inductive invariant `Basic` adds `SlotParity`, a record
sits in the slot of its generation's lowest bit, and `SaveProgress`, what each phase has done to the target slot:
without parity, the slot to erase could be the one in force.

`Recoverable`, `NewestIsPreserved` and `ImplementsRegister` need the assumption `Honest` of their theorems (no `late`,
no `boot` faults): `store_late` refutes them otherwise. The invariant `Strict` adds that two valid
records have consecutive generations (`Adjacent`), so that the signed difference orders them whatever the width
(`NewerFacts`), that the other slot is empty, one behind, or the record about to be verified (`OtherSlot`), and that
nothing stored means generation 0. Refinement follows from it: `ProgramOK` is the register's `Store`, `VerifyOK` its
`Confirm`, every early failure its `Refuse`, everything else a stutter.

**Firmware.** For every number of requests, sessions and fragments and every width of the generation. `Base` is inductive under all faults,
impatient clients, and a stack that refuses names. Beside types it has five parts: `Control` (a save
in the store belongs to the pending write, and nothing is in RAM while the power is off), `Session` (authorised sessions are connected and secured, the inbox is
what this session sent, in order), `Written` (every value in RAM, in a slot, pending or confirmed was written by an earlier request of a secured session),
`InForce` (the parameters in force are those confirmed, or a pending save remembers those) and `Answers` (the frame in the air, the one in
`g_tx_buffer`, the pending one and those heard answer different requests). From it: `TypeCorrect`, `ParametersInForceAreStored`,
`WritersAreSecured`, `NoSecondAnswer`, `AnswersAreLostToOthers`. With a stack that takes every name (`~ SetterFaults`), `NameShown` is inductive too: `ShownNameIsConfirmed`.

Every step of the firmware is one of `ConfigStore`, leaves the store alone, or is a start, which blanks it (`FirmwareUsesTheStore`); the last keeps
the store's invariants too, so that `Strict` of `ConfigStoreProofs` holds inside the firmware under `Honest` (no `late`, no `boot` faults).
With it, `Durable`: no write since the start acknowledged in any frame that has left its handler, heard or not, is newer than what is confirmed, being saved, or
about to be saved (`AcknowledgedStays`). `Forgotten`: no refused parameters are anywhere parameters can come back from (`RefusedNeverReturns`).
`ReadsOrdered` needs no hypothesis: a read answer under way is no older than any acknowledgement before it since the start (`ReadsSeeAcknowledged`).

**Platform.** For every rule set with the AFE fault, every delay set and either topology: type correctness;
`ReportsTheHardware` (invariant `Agrees`: what the AFE may be driving is anything at all, or just what realtime says; given up only in the error state);
`ProtectedPathIsOpen` (invariant `Safe`, without the state condition); `ActsInTime`; `ReleasedInBand`.
`ActsInTime` rests on two invariants. `Counted`: a condition evaluated without interruption is active, or has been counted at least
as long as it was evaluated; it is needed because the delay may be raised and lowered in between, which caps or
uncaps `asserted_ms`. `NeverAhead`: `asserted_ms` is never more than the time since an evaluation without the condition.

**Driver.** For every layout of the balance registers, every set of cells, faults and commands. `Progress` says what an operation relies on
between its accesses: balance registers already written hold the mask, and a register about to be modified
is still as it was read, which is so because operations do not overlap and a latched fault changes no other register.
With it each access is a `Step` or `Return` of `AfeContract`. `ClearIsEffective` also needs `Clearing`: the
clear enable is set, and what was cleared in FLAG1 is gone or newly latched.

**Application.** For every table of parameters in which no pair is split over two pages (`PairsAssumption`; `RealPagesHoldPairs`
proves it of the table in the code with its pages of 18), every set of batches, every capacity. `IInv` is `ParametersOK` (both
the values in force and those a rollback brings back are valid), `GotOK` (a client stands at the beginning of a page,
with every id once), `RingOK` and `SeenOK` (the last event seen is still where the client believes it, or newer). A pair
is then always read in one page, from one valid set of values. `ReadersMissBoundedly` bounds how many events a reader misses, and does not say which.

**State of charge.** `IInv` is inductive as it stands; the work is in C's division (`Division`) with an arbitrary dividend and
in `UpdateCounts`. `OverflowTakesOverload` needs no bound on the current: it says which currents can overflow, those beyond `Limit`, for every `Limit` with
`LimitAssumption`. `RealCurrentsFit` shows the assumption for int32_t, capacities up to 60 Ah, 5 s and a `Limit` of 386 A.

**USB.** For every ring of two or more cells and every pointer modulus that is a multiple of twice their number (4 cells, 256 in the code).
`PointerFacts` is the arithmetic: how many entries a step of either pointer leaves, wherever it wraps, and that the mask
of twice the size recognises a full ring. `PushFacts` and `PopFacts` say what becomes of each entry, and with them each
step is a `Push` or `Pop` of `LossyQueue` or a stutter (`RingIsLossyQueue`). `KeysAreReleased` needs to know, as long as no key report had to wait,
that only reports of the mouse wait (`OnlyMouseWaits`), that a key the host knows of has its not-released bit (`PressedIsKnown`), that a call is about what a device
said last (`CallIsLatest`), and that what is promised of a kind of key holds from the moment the call has gone past that kind (`KindsPassed`).
With one cell the test `(wptr + 1 - rptr) & (2 * num - 1) > num` would never find the ring full; hence `FifoNum >= 2`.

**Link.** For every length of the long frames, every size of fragments from three tokens up to a long frame (MTU_SIZE_SETTING is smaller), every number of requests, connections and losses.
What the code does byte after byte, `ReceivedAll` and `Found` of the model, is a recursive function of the position; where a proof would
go by induction over the bytes, it takes the least position at which the claim fails (`Least`, `Induct`, `Backward`). The invariant `LinkInv` has two halves.

* `WayUp`: the fragments in flight and those still to be written are one row that begins anywhere in a request and from there has every
  fragment in order, through to the last one of the latest request (`OnTheWay`). The decoder before the fragment next to arrive (`Within`): if it has the header
  of a frame, that frame is this request or an older one; if all it collected agrees with this request, it is no further
  than what has come, and only that far if no fragment is missing, so that it completes a request only at its last byte with
  no fragment missing. `PushStep` is one byte of bmslink_decoder_push, `WriteFacts` a whole write. A decoder that starts over keeps at most one byte, which is
  why it can never mistake payload for a frame of a later request.
  How long it stays deaf (`Tuned`): while fragments are missing it holds at most one token or at least a fragment's worth, and nothing is counted
  as swallowed; otherwise it is in step with the request, or inside a frame from before the break of which it holds at least a fragment more than
  what has come since, or it has come out of that frame, and then the request at hand is the last one swallowed (`PushTuned`, `Swallowed`).
* `WayDown`: what has been heard, what is in flight and what is in `g_tx_buffer` are stretches of one stream of answers, in which an answer is followed by another
  only when it is complete; its two ends may be cut anywhere. So a SOF in it is a true one (`BeginsAtStart`), the decoder of the client goes
  from one answer to the next (`StreamRuns`), and everything it finds was acted on.

With them: `TypeCorrect`, `OnlyWholeRequestsAreHandled`, `DeafnessEnds`, `AnswersAreFound`, and with `Numbers` (the numbers of a connection grow with its
requests) `AnswersAreOwn`.

**Only model-checked:** everything under fairness (`EveryRequestMovesOn`, `Drains`), since the prover does not reason about liveness.

## 5. Observations that no run checks

What the work on the models showed and no run reports; where a document says otherwise, it is named.

* Protection. The interval before the first tripping sample counts towards the delay (`core/bms_protection.c:62` with
  `bms_platform.c:73`), so a single sample trips a rule if the one before is a delay away. docs/parameters.md:43 only says that a delay must be met.
* A temperature that is no longer valid releases a temperature protection (`bms_protection.c:42`), unlike cell voltages and currents.
* A poll whose fault read fails has already published the measurement (`bms_platform.c:77`), so
  realtime is half of this poll and half of the one before; docs/architecture.md:29 has realtime updated only when both reads succeed.
  It has also restarted the clock without running the rules: with a fault read that is not ready every second poll, a protection takes twice its delay,
  although every published sample shows its condition.
* After a restart the AFE may be driving what it was; until the first accepted command realtime reports an open path whatever it drives (`bms_platform.c:40`).
* An error from `afe_set_power` ends the poll before balancing is switched off, and `AFE_ERROR` refuses
  every later poll, so the switches stay as they were (`bms_platform.c:101`).
* Firmware. A name the BLE stack refuses at boot ends the function before the stored parameters are put in force (`bms_firmware.c:529`); with
  slots that are blank at boot this cannot happen in this tree.
  A name setter that fails after the save leaves the new name stored and, in the GATT table, shown,
  while the client is told of a failure. `GapNameIsConfirmed` is therefore proved for a stack that takes every name, and in no run.
* docs/firmware.md:19 has clients retry "when busy"; no code answers BUSY when the buffer is taken, the answer is dropped.
* Clients can read parameters that are not saved yet and are rolled back later.
* A write of the longest kind that is cut short can swallow about eleven short requests, each of which costs the client its deadline of 3 s.
* Both sides start again at sequence 1 on a new connection; an answer of the old one with the same sequence and command is accepted.
* `bms_firmware_publish_measurement` reports the desired power command as the power state, there being no AFE under it.
* Log. A SOC set to 0 is not logged (`bms_application.c:7`: before is taken as 0). The change of a parameter write stays logged when
  its save fails. A reader of a full log can pass over an event that is still in the ring: of the ring
  1 to 4 read up to 2, event 5 overwrites 1, and the next page begins at 4; the graphical client reads only the first page, the nine oldest.
* State of charge. Above 386 A at 60 Ah and samples 5 s apart the numerator leaves int32_t (`bms_soc.c:47`), and nothing is shown of the SOC after it.
  The residual kept over a reduction of the capacity may be worth several permille of the new one, and moves the SOC by as many at the next sample.
* USB. A press that waits in the ring sets no not-released bit (`usbkb.c:217`), so its release is never reported and the key
  stays down on the host; a repeated press that waits is reported again, against the comment at `usbkb.c:315`; a direct report overtakes those in the ring
  (`usbkb.c:154`); a mouse frame that had to wait is both in the FIFO and in the ring of frames and is reported twice (`usbmouse.c:87`);
  eight mouse frames without a report wrap the ring of frames to empty (`usbmouse.c:50`); a disconnection of the keyboard releases nothing on the host.
  These are why `ReleasedInTime` ends with the first report that had to wait.

## 6. Not modelled, and why

* Encodings, CRC arithmetic, value conversions and the contents of read answers enter as verdicts or not at all: no property here tells them apart.
* OTA: its peer `otaWrite` is in a binary library. Heating: one hysteresis whose output nothing drives. Product table: constants with their validation,
  an assumption of the models. Laboratory simulator: a fixed waveform.
* Sleep, advertising and pin handling have no effect on the state modelled. Mobile client: a second client of the same protocol.
* `sh36735_software_reset`: no file says what the registers hold afterwards.
* The control endpoint of USB, modifier keys, suspend and the timed releases of usbkb.c, which nothing calls; the key matrix of
  application/keyboard, a debouncing of a scan with no second actor.
* The SDK: its BLE stack is shipped as a binary library with headers, so its behaviour cannot be translated from source; most of
  the rest of the tree is register definitions, drivers and start-up code for single accesses, and demonstration
  programs that only configure the stack. Where the BMS platform or the dongle depends on it, it appears as the environment.
* `BmsFirmware` and `BmsLink` are two views of one exchange and are not composed: the first has saves, authorisation
  and power loss with whole requests, the second bytes with requests that always succeed.

## 7. Plan

Done: store, firmware, platform; then link, log and parameters, driver, state of charge, USB; then the theorems about the firmware, USB and the link. Next:

1. A refinement between `BmsPlatform`'s drive calls and `AfeContract`, so that the two halves of the drive meet in one theorem.
