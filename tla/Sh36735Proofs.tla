---- MODULE Sh36735Proofs ----
(* For every assignment of cells to balance registers, every set of commands *)
(* and flags and either setting of the two permissions: the driver does what *)
(* the platform assumes of the two drives, and clears no fault but those it  *)
(* is asked to clear.                                                        *)
EXTENDS Sh36735, TLAPS

USE DEF PowerCalls, BalanceCalls, ClearCalls, ModeCalls, CellsCalls

LEMMA BeginType ==
    ASSUME TypeOK, NEW op \in {"power", "balance", "clear", "mode", "cells"}, NEW arg, NEW at,
           Begin(op, arg, at),
           Call(op, arg, at) \in PowerCalls \union BalanceCalls \union ClearCalls \union ModeCalls \union CellsCalls
    PROVE  TypeOK'
<1>1. RegistersOK' BY DEF Begin, TypeOK, RegistersOK, registers
<1>2. configuration = {} /\ configuration' = {} BY DEF Begin, TypeOK, NoCall
<1>3. QED BY <1>1, <1>2 DEF Begin, TypeOK, Statuses

LEMMA AnswerType ==
    ASSUME TypeOK, NEW op \in {"power", "balance", "clear", "mode"}, NEW status \in Statuses, Answer(op, status)
    PROVE  TypeOK'
BY DEF Answer, TypeOK, RegistersOK, registers, Statuses

LEMMA OperationType ==
    ASSUME TypeOK, Operation
    PROVE  TypeOK'
<1>1. ASSUME NEW command \in Commands, SetPower(command) PROVE TypeOK'
  <2>1. Call("power", command, "read") \in PowerCalls BY DEF Call
  <2>2. CASE AllowPower BY <1>1, <2>1, <2>2, BeginType DEF SetPower
  <2>3. CASE ~ AllowPower BY <1>1, <2>3, AnswerType DEF SetPower, Statuses
  <2>4. QED BY <2>2, <2>3
<1>2. ASSUME NEW mask \in SUBSET Cells, SetBalance(mask) PROVE TypeOK'
  <2>1. CASE AllowBalance /\ mask \subseteq Connected
    <3>1. Call("balance", mask, "high") \in BalanceCalls BY <2>1 DEF Call, BalanceRegisters
    <3>2. QED BY <1>2, <2>1, <3>1, BeginType DEF SetBalance
  <2>2. CASE ~ (AllowBalance /\ mask \subseteq Connected)
    BY <1>2, <2>2, AnswerType DEF SetBalance, Statuses
  <2>3. QED BY <2>1, <2>2
<1>3. ASSUME NEW mode \in Modes, SetPowerMode(mode) PROVE TypeOK'
  <2>1. Call("mode", mode, "sconf1") \in ModeCalls BY DEF Call
  <2>2. CASE AllowPower BY <1>3, <2>1, <2>2, BeginType DEF SetPowerMode
  <2>3. CASE ~ AllowPower BY <1>3, <2>3, AnswerType DEF SetPowerMode, Statuses
  <2>4. QED BY <2>2, <2>3
<1>4. ASSUME NEW flags \in SUBSET Flags, ClearFlags(flags) PROVE TypeOK'
  <2>1. Call("clear", flags, "read") \in ClearCalls BY DEF Call
  <2>2. CASE flags = {} BY <1>4, <2>2, AnswerType DEF ClearFlags, Statuses
  <2>3. CASE flags # {} BY <1>4, <2>1, <2>3, BeginType DEF ClearFlags
  <2>4. QED BY <2>2, <2>3
<1>5. ASSUME Begin("cells", {}, "read") PROVE TypeOK'
  <2>1. Call("cells", {}, "read") \in CellsCalls BY DEF Call
  <2>2. QED BY <1>5, <2>1, BeginType
<1>6. QED BY <1>1, <1>2, <1>3, <1>4, <1>5 DEF Operation
------------------------------------------------------------------------------
LEMMA WriteType ==
    ASSUME TypeOK, Write
    PROVE  RegistersOK' /\ call # NoCall
<1>. USE DEF RegistersOK, BalanceRegisters
<1>1. CASE call.at \in BalanceRegisters BY <1>1 DEF TypeOK, Write, NoCall
<1>2. CASE call.at = "sconf2"
  <2>1. call \in PowerCalls BY <1>2 DEF TypeOK, NoCall
  <2>2. WithPower(configuration, call.arg) \subseteq Sconf2Bits
    BY <2>1, Sh36735Assumption DEF TypeOK, WithPower, Sconf2Bits, NoCall
  <2>3. QED BY <1>2, <2>1, <2>2 DEF TypeOK, Write, NoCall
<1>3. CASE call.at = "ltclr" BY <1>3 DEF TypeOK, Write, NoCall, Sconf2Bits
<1>4. CASE call.at = "sconf1" BY <1>4 DEF TypeOK, Write, NoCall
<1>5. CASE call.at = "sconf4" BY <1>5 DEF TypeOK, Write, NoCall
<1>6. CASE call.at \in {"flag1", "flag2"} BY <1>6 DEF TypeOK, Write, NoCall, ClearedBy
<1>7. QED BY <1>1, <1>2, <1>3, <1>4, <1>5, <1>6 DEF Write

LEMMA ReturnType ==
    ASSUME TypeOK, RegistersOK', call # NoCall, NEW status \in Statuses, Return(status)
    PROVE  TypeOK'
<1>1. call.op \in {"power", "balance", "clear", "mode", "cells"} BY DEF TypeOK
<1>2. QED BY <1>1 DEF Return, TypeOK

LEMMA ProceedType ==
    ASSUME TypeOK, RegistersOK', call # NoCall, Proceed
    PROVE  TypeOK'
<1>1. CASE Following = "return" BY <1>1, ReturnType DEF Proceed, Statuses
<1>2. CASE Following # "return"
  <2>1. call' \in PowerCalls \union BalanceCalls \union ClearCalls \union CellsCalls /\ call'.op = call.op
    BY <1>2 DEF Proceed, TypeOK, Following, BalanceRegisters
  <2>2. call' # NoCall BY <2>1 DEF NoCall
  <2>3. QED BY <1>2, <2>1, <2>2 DEF Proceed, TypeOK
<1>3. QED BY <1>1, <1>2

LEMMA ReadType ==
    ASSUME TypeOK, Read
    PROVE  TypeOK'
<1>1. call # NoCall BY DEF Read, NoCall
<1>2. RegistersOK' BY DEF Read, TypeOK, RegistersOK, registers
<1>3. call' \in PowerCalls \union ClearCalls \union CellsCalls /\ call'.op = call.op
  BY <1>1 DEF Read, TypeOK, Following, BalanceRegisters
<1>4. call' # NoCall BY <1>3 DEF NoCall
<1>5. configuration' \subseteq IF call'.op = "cells" THEN {"CN", "PDSGT"} ELSE Sconf2Bits
  BY <1>3 DEF Read, TypeOK, RegistersOK
<1>6. QED BY <1>2, <1>3, <1>4, <1>5 DEF Read, TypeOK

(* Every access leaves registers, call and result within their types.        *)
THEOREM DriverTypeCorrect == Spec => []TypeOK
<1>1. Init => TypeOK
  BY Sh36735Assumption DEF Init, TypeOK, RegistersOK, Modes, Sconf2Bits, Statuses
<1>2. TypeOK /\ [Next]_vars => TypeOK'
  <2> SUFFICES ASSUME TypeOK, [Next]_vars PROVE TypeOK' OBVIOUS
  <2>1. CASE Operation BY <2>1, OperationType
  <2>2. CASE Read BY <2>2, ReadType
  <2>3. CASE Acknowledged BY <2>3, WriteType, ProceedType DEF Acknowledged
  <2>4. CASE AcknowledgeLost BY <2>4, WriteType, ReturnType DEF AcknowledgeLost, Statuses
  <2>5. CASE TransferFails
    <3>1. RegistersOK' BY <2>5 DEF TransferFails, TypeOK, RegistersOK, registers
    <3>2. QED BY <2>5, <3>1, ReturnType DEF TransferFails, Statuses
  <2>6. ASSUME NEW flag \in Flags, Latch(flag) PROVE TypeOK'
    BY <2>6 DEF Latch, TypeOK, RegistersOK
  <2>7. CASE UNCHANGED vars BY <2>7 DEF vars, registers, TypeOK, RegistersOK
  <2>8. QED BY <2>1, <2>2, <2>3, <2>4, <2>5, <2>6, <2>7 DEF Next
<1>3. QED BY <1>1, <1>2, PTL DEF Spec
------------------------------------------------------------------------------
(* The contract's view of a call and of its result.                          *)
MapCall == IF call.op \in Drives THEN [op |-> call.op, to |-> call.arg] ELSE [op |-> "none", to |-> {}]
Path == sconf2 \ {"LTCLR"}

LEMMA BeginMaps ==
    ASSUME TypeOK, Operation
    PROVE  Contract!Next \/ UNCHANGED Contract!vars
<1>. USE DEF Contract!Next, Contract!Reject, Contract!Other, Contract!Begin, Contract!NoCall, Contract!vars,
             Contract!Calls, Drives, NoCall, registers
<1>1. ASSUME NEW command \in Commands, SetPower(command) PROVE Contract!Next
  BY <1>1 DEF SetPower, Begin, Answer, Call
<1>2. ASSUME NEW mask \in SUBSET Cells, SetBalance(mask) PROVE Contract!Next
  BY <1>2, Sh36735Assumption DEF SetBalance, Begin, Answer, Call
<1>3. ASSUME NEW mode \in Modes, SetPowerMode(mode) PROVE Contract!Next
  BY <1>3 DEF SetPowerMode, Begin, Answer, Call
<1>4. ASSUME NEW flags \in SUBSET Flags, ClearFlags(flags) PROVE Contract!Next
  BY <1>4 DEF ClearFlags, Begin, Answer, Call
<1>5. ASSUME Begin("cells", {}, "read") PROVE Contract!Next
  BY <1>5 DEF Begin, Call
<1>6. QED BY <1>1, <1>2, <1>3, <1>4, <1>5 DEF Operation

(* Between its accesses an operation relies on what it did before: the       *)
(* balance registers already written hold the mask, and a register about to  *)
(* be modified is still the one that was read.                               *)
Written(at) == CASE at = "middle" -> {"high"} [] at = "low" -> {"high", "middle"} [] OTHER -> {}
Progress == /\ call.op = "balance" =>
                  \A c \in Cells : RegisterOf[c] \in Written(call.at) => (c \in switched <=> c \in call.arg)
            /\ call.at \in {"ltclr", "sconf2"} => configuration = sconf2
            /\ call.at = "sconf4" => configuration = sconf4
            /\ call # NoCall => result.op = call.op /\ result.status = "none"

LEMMA WriteProgress ==
    ASSUME TypeOK, Progress, Write, Proceed
    PROVE  Progress'
<1>. USE DEF NoCall, BalanceRegisters
<1>1. CASE Following = "return" BY <1>1 DEF Proceed, Return, Progress
<1>2. CASE Following # "return" /\ call.op = "balance"
  <2>1. call \in BalanceCalls BY <1>2 DEF TypeOK
  <2>2. call.at \in {"high", "middle"} /\ call'.op = "balance" /\ call'.arg = call.arg /\ call'.at = Following
    BY <1>2, <2>1 DEF Proceed, Following
  <2>3. Following = IF call.at = "high" THEN "middle" ELSE "low" BY <2>2 DEF Following
  <2>4. switched' = (switched \ {c \in Cells : RegisterOf[c] = call.at})
                       \union ({c \in Cells : RegisterOf[c] = call.at} \cap call.arg)
    BY <2>2 DEF Write
  <2>5. Written(Following) = Written(call.at) \union {call.at} BY <2>2, <2>3 DEF Written
  <2>6. call # NoCall /\ result' = result BY <1>2, <2>1 DEF Proceed
  <2>7. QED BY <1>2, <2>2, <2>3, <2>4, <2>5, <2>6 DEF Progress
<1>3. CASE Following # "return" /\ call.op # "balance"
  <2>1. call.op = "clear" /\ call'.op = "clear" /\ call'.at \in {"flag1", "flag2"}
    BY <1>3 DEF Proceed, TypeOK, Following, Write
  <2>2. call # NoCall /\ result' = result BY <1>3, <2>1 DEF Proceed
  <2>3. QED BY <2>1, <2>2 DEF Progress
<1>4. QED BY <1>1, <1>2, <1>3

LEMMA ProgressPreserved == TypeOK /\ Progress /\ [Next]_vars => Progress'
<1> SUFFICES ASSUME TypeOK, Progress, [Next]_vars PROVE Progress' OBVIOUS
<1>. USE DEF NoCall
<1>1. CASE Operation
  <2>1. ASSUME NEW op, NEW arg, NEW at, Begin(op, arg, at), at \in {"read", "high", "sconf1"} PROVE Progress'
    BY <2>1 DEF Begin, Call, Progress, Written
  <2>2. ASSUME NEW op, NEW status, Answer(op, status) PROVE Progress'
    BY <2>2 DEF Answer, Progress, registers
  <2>3. QED BY <1>1, <2>1, <2>2 DEF Operation, SetPower, SetBalance, SetPowerMode, ClearFlags
<1>2. CASE Read
  <2>1. call'.op = call.op /\ call'.op # "balance" BY <1>2 DEF Read, TypeOK, BalanceRegisters
  <2>2. call'.op = "cells" <=> call'.at = "sconf4" BY <1>2, <2>1 DEF Read, TypeOK, Following, BalanceRegisters
  <2>3. QED BY <1>2, <2>1, <2>2 DEF Read, Progress, registers
<1>3. CASE Acknowledged BY <1>3, WriteProgress DEF Acknowledged
<1>4. CASE AcknowledgeLost \/ TransferFails BY <1>4 DEF AcknowledgeLost, TransferFails, Return, Progress
<1>5. ASSUME NEW flag \in Flags, Latch(flag) PROVE Progress' BY <1>5 DEF Latch, Progress
<1>6. CASE UNCHANGED vars BY <1>6 DEF vars, registers, Progress
<1>7. QED BY <1>1, <1>2, <1>3, <1>4, <1>5, <1>6 DEF Next

(* The write of a drive is an effect the contract allows, the last one of a  *)
(* drive completes it, and the writes of other operations touch no drive.    *)
LEMMA WriteMaps ==
    ASSUME TypeOK, Progress, Write
    PROVE  /\ call.op \in Drives => Contract!Effect
           /\ call.op \in Drives /\ Following = "return" => Contract!Done
           /\ call.op \notin Drives => UNCHANGED <<Path, switched>>
<1>. USE DEF NoCall, BalanceRegisters, Drives, Path
<1>1. CASE call.op = "power"
  <2>1. call \in PowerCalls /\ call.at = "sconf2" BY <1>1 DEF TypeOK, Write
  <2>2. sconf2' = WithPower(configuration, call.arg) /\ switched' = switched BY <2>1 DEF Write
  <2>3. configuration \subseteq Sconf2Bits /\ call.arg \subseteq PowerBits
    BY <2>1, Sh36735Assumption DEF TypeOK
  <2>4. Path' = call.arg BY <2>2, <2>3 DEF WithPower, Sconf2Bits, PowerBits
  <2>5. QED BY <1>1, <2>2, <2>4 DEF Contract!Effect, Contract!Done
<1>2. CASE call.op = "balance"
  <2>. DEFINE own == {c \in Cells : RegisterOf[c] = call.at}
  <2>1. call \in BalanceCalls BY <1>2 DEF TypeOK
  <2>2. switched' = (switched \ own) \union (own \cap call.arg) /\ sconf2' = sconf2 BY <2>1 DEF Write
  <2>3. Contract!Effect BY <1>2, <2>2 DEF Contract!Effect
  <2>4. ASSUME Following = "return" PROVE switched' = call.arg
    <3>1. call.at = "low" BY <2>1, <2>4 DEF Following
    <3>2. \A c \in Cells : RegisterOf[c] \in {"high", "middle"} => (c \in switched <=> c \in call.arg)
      BY <1>2, <3>1 DEF Progress, Written
    <3>3. \A c \in Cells : RegisterOf[c] \in {"high", "middle", "low"} BY Sh36735Assumption
    <3>4. call.arg \subseteq Cells /\ switched \subseteq Cells BY <2>1, Sh36735Assumption DEF TypeOK, RegistersOK
    <3>5. QED BY <2>2, <3>1, <3>2, <3>3, <3>4
  <2>5. QED BY <1>2, <2>3, <2>4 DEF Contract!Done
<1>3. CASE call.op = "clear"
  <2>1. call \in ClearCalls BY <1>3 DEF TypeOK
  <2>2. switched' = switched /\ sconf2' \in {sconf2, sconf2 \union {"LTCLR"}}
    BY <2>1 DEF Write, Progress
  <2>3. QED BY <1>3, <2>2
<1>4. CASE call.op \in {"mode", "cells"}
  <2>1. call \in ModeCalls \union CellsCalls BY <1>4 DEF TypeOK
  <2>2. switched' = switched /\ sconf2' = sconf2 BY <2>1 DEF Write
  <2>3. QED BY <1>4, <2>2
<1>5. call # NoCall BY WriteType
<1>6. QED BY <1>1, <1>2, <1>3, <1>4, <1>5 DEF TypeOK

(* Returning from an operation is a return of the contract, or no step of it.*)
LEMMA StepMaps ==
    ASSUME TypeOK, Progress, [Next]_vars
    PROVE  Contract!Next \/ UNCHANGED Contract!vars
<1>. USE DEF Contract!vars, Drives, NoCall, Contract!NoCall, registers
<1>0. call # NoCall => call.op \in {"power", "balance", "clear", "mode", "cells"} BY DEF TypeOK
<1>1. CASE Operation BY <1>1, BeginMaps
<1>2. CASE Read BY <1>2 DEF Read
<1>3. ASSUME Write, call.op \in Drives, NEW status \in {"ok", "error"}, Return(status),
             status = "ok" => Following = "return"
      PROVE  Contract!Return(status)
  BY <1>3, WriteMaps DEF Contract!Return, Return
<1>4. ASSUME Write, call.op \notin Drives, NEW status, Return(status) PROVE UNCHANGED Contract!vars
  BY <1>4, WriteMaps, WriteType DEF Return, Path, TypeOK, Progress
<1>5. CASE Acknowledged
  <2>1. CASE Following = "return"
    BY <1>3, <1>4, <1>5, <2>1 DEF Acknowledged, Proceed, Contract!Next
  <2>2. CASE Following # "return" /\ call.op \in Drives
    <3>1. Contract!Effect BY <1>5, <2>2, WriteMaps DEF Acknowledged
    <3>2. call'.op = call.op /\ call'.arg = call.arg /\ result' = result
      BY <1>0, <1>5, <2>2 DEF Acknowledged, Proceed, TypeOK
    <3>3. Contract!Step BY <2>2, <3>1, <3>2 DEF Contract!Step
    <3>4. QED BY <3>3 DEF Contract!Next
  <2>3. CASE Following # "return" /\ call.op \notin Drives
    <3>1. UNCHANGED <<Path, switched>> BY <1>5, <2>3, WriteMaps DEF Acknowledged
    <3>2. call'.op = call.op /\ result' = result
      BY <1>5, <2>3 DEF Acknowledged, Proceed, TypeOK
    <3>3. QED BY <2>3, <3>1, <3>2 DEF Path
  <2>4. QED BY <2>1, <2>2, <2>3
<1>6. CASE AcknowledgeLost BY <1>3, <1>4, <1>6 DEF AcknowledgeLost, Contract!Next
<1>7. CASE TransferFails
  <2>1. CASE call.op \in Drives
    BY <1>7, <2>1 DEF TransferFails, Return, Contract!Return, Contract!Effect, Contract!Next
  <2>2. CASE call.op \notin Drives BY <1>7, <2>2 DEF TransferFails, Return, TypeOK, Progress
  <2>3. QED BY <2>1, <2>2
<1>8. ASSUME NEW flag \in Flags, Latch(flag) PROVE UNCHANGED Contract!vars BY <1>8 DEF Latch
<1>9. CASE UNCHANGED vars BY <1>9 DEF vars
<1>10. QED BY <1>1, <1>2, <1>5, <1>6, <1>7, <1>8, <1>9 DEF Next

(* However accesses fail, the two drives keep the contract.                  *)
THEOREM DriverImplementsContract == Spec => ImplementsContract
<1>1. Init => Contract!Init
  BY Sh36735Assumption DEF Init, Contract!Init, Contract!NoCall, NoCall, Drives
<1>2. Init => Progress BY DEF Init, Progress, NoCall
<1>3. TypeOK /\ Progress /\ [Next]_vars => [Contract!Next]_Contract!vars BY StepMaps
<1>4. QED BY <1>1, <1>2, <1>3, DriverTypeCorrect, ProgressPreserved, PTL DEF Spec, ImplementsContract, Contract!Spec
------------------------------------------------------------------------------
(* Only the flags the caller selects are ever cleared, whenever the chip     *)
(* latches one.                                                              *)
THEOREM FaultsAreKept == Spec => NoFaultIsLost
<1>1. ASSUME TypeOK, [Next]_vars
      PROVE  latched \ latched' \subseteq (IF call.op = "clear" THEN call.arg ELSE {})
  <2>1. CASE Write
    <3>1. CASE call.at \in {"flag1", "flag2"}
      <4>1. call.op = "clear" BY <1>1, <3>1 DEF TypeOK, NoCall, BalanceRegisters
      <4>2. latched \subseteq Flags BY <1>1 DEF TypeOK, RegistersOK
      <4>3. QED BY <2>1, <3>1, <4>1, <4>2 DEF Write, ClearedBy, KeptFlags, BalanceRegisters
    <3>2. CASE call.at \notin {"flag1", "flag2"} BY <2>1, <3>2 DEF Write
    <3>3. QED BY <3>1, <3>2
  <2>2. CASE ~ Write
    BY <1>1, <2>2 DEF Next, Operation, SetPower, SetBalance, SetPowerMode, ClearFlags, Begin, Answer, Read,
                      Acknowledged, AcknowledgeLost, TransferFails, Latch, vars, registers
  <2>3. QED BY <2>1, <2>2
<1>2. QED BY <1>1, DriverTypeCorrect, PTL DEF Spec, NoFaultIsLost

(* While it clears flags, the driver has the clear enable set, and what it   *)
(* has cleared in FLAG1 is gone or newly latched.                            *)
Clearing == call.at \in {"flag1", "flag2"} =>
                /\ "LTCLR" \in sconf2
                /\ call.at = "flag2" => call.arg \cap Flag1 \cap latched \subseteq fresh

LEMMA ClearWrites ==
    ASSUME TypeOK, Clearing, Write, call.op = "clear", call.at # "ltclr"
    PROVE  /\ call.at \in {"flag1", "flag2"} /\ "LTCLR" \in sconf2'
           /\ call.arg \cap Flag1 \cap latched' \subseteq fresh
           /\ call.at = "flag2" => call.arg \cap latched' \subseteq fresh
<1>1. call \in ClearCalls /\ call.at \in {"flag1", "flag2"} BY DEF TypeOK, Write, NoCall, BalanceRegisters
<1>2. latched' = ClearedBy(IF call.at = "flag1" THEN Flag1 ELSE Flag2) /\ sconf2' = sconf2
  BY <1>1 DEF Write, BalanceRegisters
<1>3. "LTCLR" \in sconf2 BY <1>1 DEF Clearing
<1>4. latched' = latched \ (call.arg \cap (IF call.at = "flag1" THEN Flag1 ELSE Flag2))
  BY <1>1, <1>2, <1>3 DEF ClearedBy, KeptFlags, Flags
<1>5. QED BY <1>1, <1>2, <1>3, <1>4 DEF Clearing, Flags

LEMMA ClearingPreserved == TypeOK /\ Progress /\ Clearing /\ [Next]_vars => Clearing'
<1> SUFFICES ASSUME TypeOK, Progress, Clearing, [Next]_vars PROVE Clearing' OBVIOUS
<1>. USE DEF NoCall
<1>1. CASE Acknowledged
  <2>1. CASE Following = "return" BY <1>1, <2>1 DEF Acknowledged, Proceed, Return, Clearing
  <2>2. CASE Following # "return" /\ call.op = "clear"
    <3>1. call \in ClearCalls BY <2>2 DEF TypeOK
    <3>2. call'.at = Following /\ call'.arg = call.arg /\ fresh' = fresh
      BY <1>1, <2>2, <3>1 DEF Acknowledged, Proceed
    <3>3. CASE call.at = "ltclr"
      <4>1. "LTCLR" \in sconf2' BY <1>1, <3>3 DEF Acknowledged, Write, BalanceRegisters
      <4>2. Following = "flag2" => call.arg \cap Flag1 = {} BY <3>3 DEF Following
      <4>3. QED BY <3>2, <4>1, <4>2 DEF Clearing
    <3>4. CASE call.at # "ltclr" BY <1>1, <2>2, <3>2, <3>4, ClearWrites DEF Acknowledged, Clearing
    <3>5. QED BY <3>3, <3>4
  <2>3. CASE Following # "return" /\ call.op # "clear"
    BY <1>1, <2>3 DEF Acknowledged, Proceed, TypeOK, Following, Clearing, BalanceRegisters
  <2>4. QED BY <2>1, <2>2, <2>3
<1>2. CASE Read BY <1>2 DEF Read, TypeOK, Following, Clearing, BalanceRegisters
<1>3. CASE AcknowledgeLost \/ TransferFails BY <1>3 DEF AcknowledgeLost, TransferFails, Return, Clearing
<1>4. CASE Operation
  BY <1>4 DEF Operation, SetPower, SetBalance, SetPowerMode, ClearFlags, Begin, Answer, Call, Clearing, registers
<1>5. ASSUME NEW flag \in Flags, Latch(flag) PROVE Clearing'
  <2>1. call.at = "flag2" => call.op = "clear" BY DEF TypeOK, BalanceRegisters
  <2>2. QED BY <1>5, <2>1 DEF Latch, Clearing
<1>6. CASE UNCHANGED vars BY <1>6 DEF vars, registers, Clearing
<1>7. QED BY <1>1, <1>2, <1>3, <1>4, <1>5, <1>6 DEF Next

(* A clear that reports success has cleared every selected flag, save those  *)
(* the chip has latched again meanwhile.                                     *)
THEOREM ClearSucceeds == Spec => ClearIsEffective
<1>1. Init => Clearing /\ Progress BY DEF Init, Clearing, Progress, NoCall
<1>2. ASSUME TypeOK, Progress, Clearing, [Next]_vars,
             result' = [op |-> "clear", status |-> "ok"], call.op = "clear"
      PROVE  call.arg \cap latched' \subseteq fresh
  <2>1. call \in ClearCalls /\ call # NoCall /\ result.status = "none" BY <1>2 DEF TypeOK, Progress, NoCall
  <2>2. Acknowledged /\ Following = "return"
    BY <1>2, <2>1 DEF Next, Operation, SetPower, SetBalance, SetPowerMode, ClearFlags, Begin, Answer, Read,
                      Acknowledged, Proceed, AcknowledgeLost, TransferFails, Return, Latch, vars
  <2>4. call.at # "ltclr" BY <2>2 DEF Following
  <2>5. CASE call.at = "flag1"
    <3>1. call.arg \cap Flag2 = {} BY <2>2, <2>5 DEF Following
    <3>2. call.arg \subseteq Flag1 BY <2>1, <3>1 DEF Flags
    <3>3. QED BY <1>2, <2>2, <2>5, <3>2, ClearWrites DEF Acknowledged
  <2>6. CASE call.at = "flag2" BY <1>2, <2>2, <2>6, ClearWrites DEF Acknowledged
  <2>7. call.at # "read" BY <2>2 DEF Acknowledged, Write, BalanceRegisters
  <2>8. QED BY <2>1, <2>4, <2>5, <2>6, <2>7
<1>3. QED BY <1>1, <1>2, DriverTypeCorrect, ProgressPreserved, ClearingPreserved, PTL DEF Spec, ClearIsEffective

(* A register two features share keeps the bits of the one that is not being *)
(* written: clear enable, precharge time, power path.                        *)
THEOREM OtherBitsAreKept == Spec => SharedRegistersKept
<1>. DEFINE Kept == /\ sconf4 \cap {"PDSGT"} = sconf4' \cap {"PDSGT"}
                    /\ call.op # "clear" => sconf2 \cap {"LTCLR"} = sconf2' \cap {"LTCLR"}
                    /\ call.op # "power" => sconf2 \ {"LTCLR"} = sconf2' \ {"LTCLR"}
<1>1. Init => Progress BY DEF Init, Progress, NoCall
<1>2. ASSUME TypeOK, Progress, [Next]_vars PROVE Kept
  <2>1. CASE Write
    <3>1. CASE call.op = "power"
      <4>1. call.at = "sconf2" /\ call.arg \subseteq PowerBits
        BY <1>2, <2>1, <3>1, Sh36735Assumption DEF TypeOK, NoCall, Write, BalanceRegisters
      <4>2. sconf2' = WithPower(sconf2, call.arg) /\ sconf4' = sconf4
        BY <1>2, <2>1, <3>1, <4>1 DEF Write, Progress, BalanceRegisters
      <4>3. QED BY <3>1, <4>1, <4>2 DEF WithPower, PowerBits
    <3>2. CASE call.op = "clear"
      BY <1>2, <2>1, <3>2 DEF TypeOK, NoCall, Write, Progress, BalanceRegisters
    <3>3. CASE call.op = "cells"
      BY <1>2, <2>1, <3>3 DEF TypeOK, NoCall, Write, Progress, BalanceRegisters
    <3>4. CASE call.op \in {"balance", "mode"}
      BY <1>2, <2>1, <3>4 DEF TypeOK, NoCall, Write, BalanceRegisters
    <3>5. call # NoCall BY <1>2, <2>1, WriteType
    <3>6. QED BY <1>2, <3>1, <3>2, <3>3, <3>4, <3>5 DEF TypeOK
  <2>2. CASE ~ Write
    BY <1>2, <2>2 DEF Next, Operation, SetPower, SetBalance, SetPowerMode, ClearFlags, Begin, Answer, Read,
                      Acknowledged, AcknowledgeLost, TransferFails, Latch, vars, registers
  <2>3. QED BY <2>1, <2>2
<1>3. QED BY <1>1, <1>2, DriverTypeCorrect, ProgressPreserved, PTL DEF Spec, SharedRegistersKept
====
