---- MODULE BmsLink ----
(* The BMSLink byte streams between the PC client and the firmware:          *)
(* protocol/bmslink.c and the decoder of pc_client/bms_pc/protocol.py,       *)
(* bms_firmware_receive, the transmit buffer of bms_gatt.c, and the exchange *)
(* of transport.py with the sequence numbers of client.py. A frame is a row  *)
(* of tokens, each standing for a run of bytes: the two SOF bytes, the rest  *)
(* of the header, parts of the payload, the CRC. The CRC is ideal: it holds  *)
(* exactly for what some frame encodes to.                                   *)
EXTENDS Integers, Sequences

CONSTANTS Commands,        \* "read": short request, long answer; "write": the reverse
          LongPayload,     \* payload tokens of a long frame
          FragmentSize,    \* tokens of an ATT write or a notification
          MaxRequests, MaxSessions,  \* bounds
          MaxLosses        \* bound: ATT writes the stacks may drop

ASSUME BmsLinkAssumption ==
    /\ Commands \subseteq {"read", "write"}
    /\ LongPayload \in Nat /\ FragmentSize \in Nat /\ FragmentSize >= 3
    /\ FragmentSize <= 4 + LongPayload   \* MTU_SIZE_SETTING is less than a long frame
    /\ {MaxRequests, MaxSessions, MaxLosses} \subseteq Nat

VARIABLES
    connected, session,
    subscribed,   \* start_notify has returned: notifications reach the client
    sequence,     \* BmsClient._sequence
    sent,         \* history: every request, its index is its identity
    waiting,      \* the request exchange waits for, 0 if none
    unwritten,    \* its fragments still to be written
    heard,        \* what exchange has been notified of since it drained the queue
    up, down,     \* ATT writes and notifications in flight
    decoder,      \* firmware: what bmslink_decoder_push has collected
    pending,      \* firmware: the write waiting for bms_firmware_process, 0 if none
    tx,           \* firmware: g_tx_buffer, and g_tx_offset
    handled,      \* history: the requests handed to bms_firmware_handle_frame
    losses,       \* writes dropped so far
    whole,        \* history: requests all of whose fragments came through unbroken
    arrived,      \* history: how many of the current request have
    swallowed     \* history: tokens of whole requests that were not handled since the last break

radio == <<connected, session, subscribed, up, down, losses>>
client == <<sequence, sent, waiting, unwritten, heard>>
firmware == <<decoder, pending, tx, handled>>
history == <<whole, arrived, swallowed>>
vars == <<radio, client, firmware, history>>

Ids == 1 .. MaxRequests
Sof0 == [kind |-> "sof0", frame |-> 0, of |-> "any", n |-> 0]
Sof1 == [kind |-> "sof1", frame |-> 0, of |-> "any", n |-> 0]
Token(kind, of, id, n) == [kind |-> kind, frame |-> id, of |-> of, n |-> n]

(* bmslink_encode and Frame.encode. One payload token of a long frame looks  *)
(* like a first SOF byte.                                                    *)
MaxFrame == 4 + LongPayload
Encode(of, id, command) ==
    LET length == IF (of = "request") = (command = "write") THEN LongPayload ELSE 0
    IN  <<Sof0, Sof1, Token("head", of, id, length)>>
        \o [n \in 1 .. length |-> IF n = 2 THEN Sof0 ELSE Token("data", of, id, n)]
        \o <<Token("crc", of, id, 0)>>
FrameOf(of, id) == Encode(of, id, sent[id].command)

Fragments(tokens) ==
    [i \in 1 .. (Len(tokens) + FragmentSize - 1) \div FragmentSize |->
        SubSeq(tokens, (i - 1) * FragmentSize + 1, IF i * FragmentSize > Len(tokens) THEN Len(tokens) ELSE i * FragmentSize)]

Empty == [tokens |-> <<>>, offset |-> 0]

TypeOK ==
    /\ {connected, subscribed} \subseteq BOOLEAN
    /\ session \in 0 .. MaxSessions /\ losses \in 0 .. MaxLosses
    /\ sequence \in 1 .. MaxRequests + 1
    /\ sent \in Seq([session : 1 .. MaxSessions, sequence : Ids, command : Commands])
    /\ {waiting, pending} \subseteq 0 .. Len(sent)
    /\ Len(decoder) < MaxFrame
    /\ tx.offset \in 0 .. Len(tx.tokens) /\ Len(tx.tokens) <= MaxFrame
    /\ whole \subseteq 1 .. Len(sent) /\ arrived \in Nat /\ swallowed \in Nat

Init == /\ connected = FALSE /\ session = 0 /\ subscribed = FALSE
        /\ sequence = 1 /\ sent = <<>> /\ waiting = 0 /\ unwritten = <<>> /\ heard = <<>>
        /\ up = <<>> /\ down = <<>> /\ losses = 0
        /\ decoder = <<>> /\ pending = 0 /\ tx = Empty /\ handled = <<>>
        /\ whole = {} /\ arrived = 0 /\ swallowed = 0

------------------------------------------------------------------------------
(* The firmware resets none of its buffers on either event; a client starts  *)
(* with a new BmsClient.                                                     *)
Connect == /\ ~ connected /\ session < MaxSessions
           /\ connected' = TRUE /\ session' = session + 1 /\ subscribed' = FALSE
           /\ sequence' = 1
           /\ UNCHANGED <<sent, waiting, unwritten, heard, up, down, losses, firmware, history>>

Subscribe == /\ connected /\ ~ subscribed
             /\ subscribed' = TRUE
             /\ UNCHANGED <<connected, session, up, down, losses, client, firmware, history>>

Disconnect == /\ connected
              /\ connected' = FALSE /\ subscribed' = FALSE
              /\ up' = <<>> /\ down' = <<>> /\ waiting' = 0 /\ unwritten' = <<>> /\ heard' = <<>>
              /\ arrived' = 0 /\ swallowed' = 0
              /\ UNCHANGED <<session, losses, sequence, sent, firmware, whole>>

(* request: the sequence number is taken whether or not an answer will come. *)
(* The step from 0xFFFF back to 1 lies beyond MaxRequests and is left out.   *)
BugTwice(answered) == sequence + 1
BugNextSequence(answered) == IF answered THEN sequence + 1 ELSE sequence
NextSequence(answered) == IF answered THEN sequence ELSE sequence + 1

Send(command) ==
    /\ subscribed /\ waiting = 0 /\ Len(sent) < MaxRequests
    /\ sent' = Append(sent, [session |-> session, sequence |-> sequence, command |-> command])
    /\ sequence' = NextSequence(FALSE)
    /\ waiting' = Len(sent')
    /\ unwritten' = Fragments(Encode("request", waiting', command))
    /\ heard' = <<>>
    /\ UNCHANGED <<radio, firmware, history>>

Write == /\ unwritten # <<>>
         /\ up' = Append(up, Head(unwritten)) /\ unwritten' = Tail(unwritten)
         /\ UNCHANGED <<connected, session, subscribed, down, losses, sequence, sent, waiting, heard, firmware, history>>
(* A write without response that a stack has no room for.                    *)
LoseWrite == /\ up # <<>> /\ losses < MaxLosses
             /\ up' = Tail(up) /\ losses' = losses + 1
             /\ arrived' = 0 /\ swallowed' = 0
             /\ UNCHANGED <<connected, session, subscribed, down, client, firmware, whole>>

------------------------------------------------------------------------------
(* bmslink_decoder_push, as a step from what has been collected to that and  *)
(* the frame it completes, if any. It starts over with the last byte only.   *)
NoFrame == 0
BugRestart(token) == [tokens |-> <<>>, frame |-> NoFrame]
Restart(token) == [tokens |-> IF token = Sof0 THEN <<token>> ELSE <<>>, frame |-> NoFrame]
BugChecks(tokens) == TRUE
Checks(tokens) == tokens = FrameOf(tokens[3].of, tokens[3].frame)
Push(tokens, token) ==
    LET more == Append(tokens, token)
    IN  CASE tokens = <<>> \/ (Len(tokens) = 1 /\ token # Sof1) -> Restart(token)
          [] Len(tokens) = 2 /\ token.kind # "head" -> Restart(token)
          [] Len(tokens) >= 2 /\ more[3].kind = "head" /\ Len(more) = 4 + more[3].n ->
                IF Checks(more) THEN [tokens |-> <<>>, frame |-> more[3].frame] ELSE Restart(token)
          [] OTHER -> [tokens |-> more, frame |-> NoFrame]

(* bms_gatt_transmit: one frame at a time.                                   *)
Transmit(buffer, id) == IF buffer.tokens # <<>> THEN buffer
                        ELSE [tokens |-> FrameOf("answer", id), offset |-> 0]

(* bms_firmware_handle_frame: a write is put off to bms_firmware_process, or *)
(* refused while another is pending; everything else is answered at once.    *)
(* Writes are valid and authorised (BmsFirmware has the others).             *)
(* An answer that cannot be sent ends bms_firmware_receive.                  *)
Handle(fw, id) ==
    LET deferred == sent[id].command = "write" /\ fw.pending = 0
    IN  [fw EXCEPT !.handled = Append(@, id),
                   !.pending = IF deferred THEN id ELSE @,
                   !.tx = IF deferred THEN @ ELSE Transmit(@, id),
                   !.stopped = ~ deferred /\ fw.tx.tokens # <<>>]

Received(fw, token) ==
    IF fw.stopped THEN fw
    ELSE LET next == Push(fw.decoder, token)
         IN  IF next.frame = NoFrame THEN [fw EXCEPT !.decoder = next.tokens]
             ELSE Handle([fw EXCEPT !.decoder = next.tokens], next.frame)

(* bms_firmware_receive: the bytes of an ATT write, one after the other.     *)
ReceivedAll(fw, write) ==
    LET run[i \in 0 .. Len(write)] == IF i = 0 THEN fw ELSE Received(run[i - 1], write[i])
    IN  run[Len(write)]

(* The last fragment of a request that came through unbroken.                *)
Last(write) == write[Len(write)]
Completes(write) == /\ Last(write).kind = "crc"
                    /\ arrived + 1 = Len(Fragments(FrameOf("request", Last(write).frame)))

(* bms_firmware_receive, for one ATT write.                                  *)
Deliver ==
    /\ up # <<>>
    /\ LET write == Head(up)
           start == [decoder |-> decoder, pending |-> pending, tx |-> tx, handled |-> handled, stopped |-> FALSE]
           fw == ReceivedAll(start, write)
       IN  /\ decoder' = fw.decoder /\ pending' = fw.pending /\ tx' = fw.tx /\ handled' = fw.handled
           /\ arrived' = IF Last(write).kind = "crc" THEN 0 ELSE arrived + 1
           /\ whole' = IF Completes(write) THEN whole \union {Last(write).frame} ELSE whole
           /\ swallowed' = CASE handled' # handled -> 0
                              [] handled' = handled /\ Completes(write) ->
                                    swallowed + Len(FrameOf("request", Last(write).frame))
                              [] OTHER -> swallowed
    /\ up' = Tail(up)
    /\ UNCHANGED <<connected, session, subscribed, down, losses, client>>

(* bms_gatt_process: a sent frame frees the buffer a round later; a fragment *)
(* the stack does not take stays.                                            *)
AfterGatt(taken) ==
    CASE tx.offset >= Len(tx.tokens) -> Empty
      [] tx.offset < Len(tx.tokens) /\ taken ->
            [tx EXCEPT !.offset = IF @ + FragmentSize > Len(tx.tokens) THEN Len(tx.tokens) ELSE @ + FragmentSize]
      [] OTHER -> tx

(* One round of main_loop outside the stack: bms_gatt_process, then          *)
(* bms_firmware_process, which answers a pending write.                      *)
Round ==
    \E taken \in {FALSE, connected} :
        /\ tx' = IF pending = 0 THEN AfterGatt(taken) ELSE Transmit(AfterGatt(taken), pending)
        /\ down' = IF taken /\ subscribed /\ tx.offset < Len(tx.tokens)
                   THEN Append(down, SubSeq(tx.tokens, tx.offset + 1, AfterGatt(taken).offset)) ELSE down
        /\ pending' = 0
        /\ UNCHANGED <<connected, session, subscribed, up, losses, client, decoder, handled, history>>

------------------------------------------------------------------------------
(* exchange drains the queue before it writes, so only what comes after that *)
(* is heard.                                                                 *)
Arrive == /\ down # <<>>
          /\ down' = Tail(down)
          /\ heard' = IF waiting # 0 THEN heard \o Head(down) ELSE heard
          /\ UNCHANGED <<connected, session, subscribed, up, losses, sequence, sent, waiting, unwritten, firmware, history>>

(* Decoder.feed: the requests whose frames it finds, from each position on.  *)
BugFound(buffer) ==
    LET length == 4 + buffer[3].n
    IN  IF Len(buffer) < 4 \/ SubSeq(buffer, 1, 2) # <<Sof0, Sof1>> \/ Len(buffer) < length THEN {}
        ELSE IF Checks(SubSeq(buffer, 1, length)) THEN {buffer[3].frame} ELSE {}
Begins(buffer, i) == /\ buffer[i] = Sof0 /\ buffer[i + 1] = Sof1
                     /\ buffer[i + 2].kind = "head"
Found(buffer) ==
    LET from[i \in 1 .. Len(buffer) + 1] ==
            IF i + 2 > Len(buffer) THEN {}
            ELSE LET next == i + 4 + buffer[i + 2].n
                 IN  CASE ~ Begins(buffer, i) -> from[i + 1]
                       [] Begins(buffer, i) /\ next > Len(buffer) + 1 -> {}
                       [] OTHER -> from[next] \union (IF Checks(SubSeq(buffer, i, next - 1))
                                                      THEN {buffer[i + 2].frame} ELSE {})
    IN  from[1]

(* An answer is taken for the one waited for by its sequence and command.    *)
Matches(id) == sent[id].sequence = sent[waiting].sequence /\ sent[id].command = sent[waiting].command

Accept == /\ waiting # 0 /\ unwritten = <<>>
          /\ \E id \in Found(heard) : Matches(id)
          /\ waiting' = 0 /\ heard' = <<>>
          /\ sequence' = NextSequence(TRUE)
          /\ UNCHANGED <<sent, unwritten, radio, firmware, history>>

(* The deadline of exchange.                                                 *)
GiveUp == /\ waiting # 0 /\ unwritten = <<>>
          /\ waiting' = 0 /\ heard' = <<>>
          /\ UNCHANGED <<sequence, sent, unwritten, radio, firmware, history>>

Next == \/ Connect \/ Subscribe \/ Disconnect
        \/ \E command \in Commands : Send(command)
        \/ Write \/ LoseWrite \/ Deliver \/ Round \/ Arrive \/ Accept \/ GiveUp

Spec == Init /\ [][Next]_vars

------------------------------------------------------------------------------
(* The firmware acts on requests in the order they were sent, on each at     *)
(* most once, and never on one of which a fragment is missing or comes from  *)
(* elsewhere, however connections end (bms_firmware_receive).                *)
HandledWhole == /\ \A i \in 1 .. Len(handled) : handled[i] \in whole
                /\ \A i \in 1 .. Len(handled) - 1 : handled[i] < handled[i + 1]

(* A request cut short makes the firmware deaf to those that follow, but not *)
(* for longer than the frame it expects and the request in which that ends,  *)
(* which is not lost when it ends with its first byte (bmslink_decoder_push, *)
(* which nothing resets at a disconnection).                                 *)
DeafnessIsBounded == swallowed <= (MaxFrame - FragmentSize) + (MaxFrame - 2)

(* Once the answer has arrived, exchange finds it, whatever tail of an older *)
(* frame came before (Decoder.feed).                                         *)
Carries(tokens, part) == \E i \in 0 .. Len(tokens) - Len(part) : SubSeq(tokens, i + 1, i + Len(part)) = part
ArrivedIsFound ==
    waiting # 0 /\ Carries(heard, FrameOf("answer", waiting)) => waiting \in Found(heard)

(* Within a connection the client never takes the late answer to a request   *)
(* it has given up for the answer to another one.                            *)
AnswerIsOwn == waiting # 0 => \A id \in Found(heard) :
                    /\ \E i \in 1 .. Len(handled) : handled[i] = id
                    /\ Matches(id) /\ sent[id].session = session => id = waiting
====
