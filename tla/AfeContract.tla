---- MODULE AfeContract ----
(* What bms_platform_poll relies on when it drives the power path and the    *)
(* balance switches through afe_interface.h: a call that returns ok has done *)
(* what it was asked, a refused one nothing, and one that fails may have     *)
(* done a part of it, but never anything else.                               *)

CONSTANTS Commands,  \* power commands: the sets of switches one may close
          Cells      \* cells that have a balance switch

VARIABLES path,      \* the power switches that are closed
          switched,  \* the cells being balanced
          call,      \* the call in progress
          result     \* what the last call returned, "none" while one is in progress

vars == <<path, switched, call, result>>

NoCall == [op |-> "none", to |-> {}]
Calls == [op : {"power"}, to : Commands] \union [op : {"balance"}, to : SUBSET Cells]

Init == /\ switched \subseteq Cells
        /\ call = NoCall /\ result = "none"

(* Not ready, or an argument the AFE cannot take.                            *)
Reject(status) == /\ call = NoCall /\ result' = status
                  /\ UNCHANGED <<path, switched, call>>

(* A call of another operation: the two drives are left alone.               *)
Other == /\ call = NoCall /\ result' = "none"
         /\ UNCHANGED <<path, switched, call>>

Begin(c) == /\ call = NoCall
            /\ call' = c /\ result' = "none"
            /\ UNCHANGED <<path, switched>>

(* Power is one register, balancing takes effect for any cells at a time.    *)
Effect == \/ UNCHANGED <<path, switched>>
          \/ call.op = "power" /\ path' = call.to /\ UNCHANGED switched
          \/ /\ call.op = "balance"
             /\ \E some \in SUBSET Cells : switched' = (switched \ some) \union (some \cap call.to)
             /\ UNCHANGED path

Step == /\ call # NoCall /\ Effect
        /\ UNCHANGED <<call, result>>

Done == IF call.op = "power" THEN path' = call.to ELSE switched' = call.to

Return(status) == /\ call # NoCall /\ Effect
                  /\ status = "ok" => Done
                  /\ call' = NoCall /\ result' = status

Next == \/ \E status \in {"refused", "error"} : Reject(status)
        \/ Other \/ Step
        \/ \E c \in Calls : Begin(c)
        \/ \E status \in {"ok", "error"} : Return(status)

Spec == Init /\ [][Next]_vars
====
