---- MODULE Sh36735 ----
(* afe/sh36735: the adapter's operations and the register accesses of the    *)
(* driver they are made of. Each access is an SPI transfer of its own; its   *)
(* reply may be lost or damaged, before or after the chip has acted on it,   *)
(* and the driver gives up at once. The chip latches faults at any time.     *)
(* Operations that only read (measurement, faults), the conversion of ADC    *)
(* codes and the frame format are left out.                                  *)
EXTENDS FiniteSets

CONSTANTS Cells,         \* cells with a bit in the balance registers
          Connected,     \* those below adapter->cell_count
          RegisterOf,    \* the balance register of each cell
          Commands,      \* power commands the platform gives
          Flag1, Flag2,  \* latched faults of FLAG1 and FLAG2
          AllowPower, AllowBalance  \* adapter->allow_power_control, allow_balance_control

BalanceRegisters == {"high", "middle", "low"}
PowerBits == {"CHG", "DSG", "PDSG_CTL"}
Flags == Flag1 \union Flag2

ASSUME Sh36735Assumption ==
    /\ Connected \subseteq Cells
    /\ RegisterOf \in [Cells -> BalanceRegisters]
    /\ Commands \subseteq SUBSET PowerBits
    /\ Flag1 \cap Flag2 = {}
    /\ AllowPower \in BOOLEAN /\ AllowBalance \in BOOLEAN

VARIABLES
    sconf1,         \* the mode: "normal", "idle", "sleep"
    sconf2,         \* the bits set in SCONF2
    sconf4,         \* of SCONF4: "CN" if it holds the cell count, "PDSGT"
    switched,       \* BALANCE_HIGH, _MIDDLE, _LOW: the cells whose bit is set
    latched,        \* FLAG1, FLAG2
    call,           \* the operation in progress, and the access it is at
    configuration,  \* what it has read of the register it modifies
    result,         \* what the last operation returned
    fresh           \* history: flags latched while they are being cleared

registers == <<sconf1, sconf2, sconf4, switched, latched>>
vars == <<registers, call, configuration, result, fresh>>

Sconf2Bits == PowerBits \union {"PDSG_MOS", "LTCLR"}
Modes == {"normal", "idle", "sleep"}
Statuses == {"none", "ok", "refused", "error"}

(* arg is the command, the mask or the flags to clear.                       *)
NoCall == [op |-> "none", arg |-> {}, at |-> "none"]
Call(op, arg, at) == [op |-> op, arg |-> arg, at |-> at]

PowerCalls == [op : {"power"}, arg : Commands, at : {"read", "sconf2"}]
BalanceCalls == [op : {"balance"}, arg : SUBSET Connected, at : BalanceRegisters]
ClearCalls == [op : {"clear"}, arg : SUBSET Flags, at : {"read", "ltclr", "flag1", "flag2"}]
ModeCalls == [op : {"mode"}, arg : Modes, at : {"sconf1"}]
CellsCalls == [op : {"cells"}, arg : {{}}, at : {"read", "sconf4"}]

RegistersOK == /\ sconf1 \in Modes
               /\ sconf2 \subseteq Sconf2Bits
               /\ sconf4 \subseteq {"CN", "PDSGT"}
               /\ switched \subseteq Cells
               /\ latched \subseteq Flags

TypeOK == /\ RegistersOK
          /\ call \in {NoCall} \union PowerCalls \union BalanceCalls \union ClearCalls \union ModeCalls \union CellsCalls
          /\ configuration \subseteq CASE call = NoCall -> {} [] call.op = "cells" -> {"CN", "PDSGT"} [] OTHER -> Sconf2Bits
          /\ fresh \subseteq Flags
          /\ result \in [op : {"none", "power", "balance", "clear", "mode", "cells"}, status : Statuses]

(* The program may start over while the chip goes on: its registers hold     *)
(* whatever an earlier run left in them, the power path and faults included. *)
Init == /\ sconf1 \in Modes
        /\ sconf2 \in SUBSET Sconf2Bits
        /\ sconf4 \in SUBSET {"CN", "PDSGT"}
        /\ switched \in SUBSET Connected
        /\ latched \in SUBSET Flags /\ fresh = {}
        /\ call = NoCall /\ configuration = {}
        /\ result = [op |-> "none", status |-> "none"]

------------------------------------------------------------------------------
Begin(op, arg, at) == /\ call = NoCall
                      /\ call' = Call(op, arg, at)
                      /\ result' = [op |-> op, status |-> "none"]
                      /\ UNCHANGED <<registers, configuration, fresh>>

(* Returns before any access to the chip.                                    *)
Answer(op, status) == /\ call = NoCall
                      /\ result' = [op |-> op, status |-> status]
                      /\ UNCHANGED <<registers, call, configuration, fresh>>

SetPower(command) == IF AllowPower THEN Begin("power", command, "read")
                     ELSE Answer("power", "refused")

SetBalance(mask) == IF ~ AllowBalance THEN Answer("balance", "refused")
                    ELSE IF mask \subseteq Connected THEN Begin("balance", mask, "high")
                    ELSE Answer("balance", "error")

SetPowerMode(mode) == IF AllowPower THEN Begin("mode", mode, "sconf1")
                      ELSE Answer("mode", "refused")

ClearFlags(flags) == IF flags = {} THEN Answer("clear", "ok")
                     ELSE Begin("clear", flags, "read")

Operation == \/ \E command \in Commands : SetPower(command)
             \/ \E mask \in SUBSET Cells : SetBalance(mask)
             \/ \E mode \in Modes : SetPowerMode(mode)
             \/ \E flags \in SUBSET Flags : ClearFlags(flags)
             \/ Begin("cells", {}, "read")

------------------------------------------------------------------------------
(* One access after another; "return" after the last.                        *)
BugFollowing == CASE call.at = "read" -> [power |-> "sconf2", clear |-> "flag1", cells |-> "sconf4"][call.op]
                  [] call.at = "flag1" -> "ltclr"
                  [] call.at \in BalanceRegisters \ {"low"} -> [high |-> "middle", middle |-> "low"][call.at]
                  [] OTHER -> "return"
BugLast == CASE call.at = "read" -> [power |-> "sconf2", clear |-> "ltclr", cells |-> "sconf4"][call.op]
             [] call.at = "high" -> "low"
             [] OTHER -> "return"
BugTarget == CASE call.at = "read" -> [power |-> "sconf2", clear |-> "ltclr", cells |-> "sconf2"][call.op]
               [] OTHER -> "return"
Following == CASE call.at = "read" -> [power |-> "sconf2", clear |-> "ltclr", cells |-> "sconf4"][call.op]
               [] call.at = "ltclr" /\ call.arg \cap Flag1 # {} -> "flag1"
               [] call.at = "ltclr" /\ call.arg \cap Flag1 = {} -> "flag2"
               [] call.at = "flag1" /\ call.arg \cap Flag2 # {} -> "flag2"
               [] call.at = "high" -> "middle"
               [] call.at = "middle" -> "low"
               [] OTHER -> "return"

Return(status) == /\ call' = NoCall /\ configuration' = {} /\ fresh' = {}
                  /\ result' = [op |-> call.op, status |-> status]

Proceed == IF Following = "return" THEN Return("ok")
           ELSE /\ call' = [call EXCEPT !.at = Following]
                /\ UNCHANGED <<configuration, result, fresh>>

(* sh36735_read_registers, of the register to modify.                        *)
Read == /\ call.at = "read"
        /\ configuration' = IF call.op = "cells" THEN sconf4 ELSE sconf2
        /\ call' = [call EXCEPT !.at = Following]
        /\ UNCHANGED <<registers, result, fresh>>

BugWithPower(bits, command) == command
WithPower(bits, command) == (bits \ (PowerBits \union {"PDSG_MOS"})) \union command

(* FLAG1 and FLAG2 clear, while LTCLR is set, where a 0 is written.          *)
BugKeptFlags(flags) == flags
KeptFlags(flags) == Flags \ flags
ClearedBy(of) == IF "LTCLR" \in sconf2 THEN latched \ (of \ KeptFlags(call.arg)) ELSE latched

(* What the write at this point of the operation does in the chip.           *)
Write == \/ /\ call.at \in BalanceRegisters
            /\ LET own == {c \in Cells : RegisterOf[c] = call.at}
               IN  switched' = (switched \ own) \union (own \cap call.arg)
            /\ UNCHANGED <<sconf1, sconf2, sconf4, latched>>
         \/ /\ call.at = "sconf2" /\ sconf2' = WithPower(configuration, call.arg)
            /\ UNCHANGED <<sconf1, sconf4, switched, latched>>
         \/ /\ call.at = "ltclr" /\ sconf2' = configuration \union {"LTCLR"}
            /\ UNCHANGED <<sconf1, sconf4, switched, latched>>
         \/ /\ call.at = "sconf1" /\ sconf1' = call.arg
            /\ UNCHANGED <<sconf2, sconf4, switched, latched>>
         \/ /\ call.at = "sconf4" /\ sconf4' = configuration \union {"CN"}
            /\ UNCHANGED <<sconf1, sconf2, switched, latched>>
         \/ /\ call.at = "flag1" /\ latched' = ClearedBy(Flag1)
            /\ UNCHANGED <<sconf1, sconf2, sconf4, switched>>
         \/ /\ call.at = "flag2" /\ latched' = ClearedBy(Flag2)
            /\ UNCHANGED <<sconf1, sconf2, sconf4, switched>>

Acknowledged == Write /\ Proceed

(* The chip has acted on the write, and the driver does not hear of it.      *)
AcknowledgeLost == Write /\ Return("error")

(* Nothing reached the chip, or the reply to a read does not check.          *)
TransferFails == /\ call # NoCall
                 /\ Return("error")
                 /\ UNCHANGED registers

Latch(flag) == /\ flag \notin latched
               /\ latched' = latched \union {flag}
               /\ fresh' = IF call.op = "clear" THEN fresh \union {flag} ELSE fresh
               /\ UNCHANGED <<sconf1, sconf2, sconf4, switched, call, configuration, result>>

Next == \/ Operation
        \/ Read \/ Acknowledged \/ AcknowledgeLost \/ TransferFails
        \/ \E flag \in Flags : Latch(flag)

Spec == Init /\ [][Next]_vars

------------------------------------------------------------------------------
(* The registers the contract speaks of, as afe_set_power and afe_set_balance*)
(* leave them.                                                               *)
Drives == {"power", "balance"}
Contract == INSTANCE AfeContract WITH
                path <- sconf2 \ {"LTCLR"},
                call <- IF call.op \in Drives THEN [op |-> call.op, to |-> call.arg]
                        ELSE [op |-> "none", to |-> {}],
                result <- IF result.op \in Drives THEN result.status ELSE "none"

(* Whatever access fails and however, what the platform assumes of the two   *)
(* drives holds: ok is done, refused is untouched, and a failure leaves each *)
(* switch as it was or as asked (sh36735_set_power_command, _balance_mask).  *)
ImplementsContract == Contract!Spec

(* A latched fault goes away only when the caller asked for that one to be   *)
(* cleared, also if it was latched after the caller last looked.             *)
NoFaultIsLost == [][latched \ latched' \subseteq (IF call.op = "clear" THEN call.arg ELSE {})]_vars

(* After a successful clear the selected faults are gone, unless the chip    *)
(* has latched them again since the operation began.                         *)
ClearIsEffective == [][result' = [op |-> "clear", status |-> "ok"] /\ call.op = "clear"
                         => call.arg \cap latched' \subseteq fresh]_vars

(* The registers two features share keep what the other one put there: a     *)
(* power command the clear enable, the cell count the precharge time, and    *)
(* clearing faults the power path.                                           *)
SharedRegistersKept ==
    [][/\ sconf4 \cap {"PDSGT"} = sconf4' \cap {"PDSGT"}
       /\ call.op # "clear" => sconf2 \cap {"LTCLR"} = sconf2' \cap {"LTCLR"}
       /\ call.op # "power" => sconf2 \ {"LTCLR"} = sconf2' \ {"LTCLR"}]_vars
====
