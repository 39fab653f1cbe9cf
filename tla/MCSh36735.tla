---- MODULE MCSh36735 ----
(* A cell in each of the three balance registers, the last one not connected.*)
EXTENDS Sh36735, Integers

MCCells == 1 .. 3
MCConnected == 1 .. 2
MCRegisterOf == [c \in MCCells |-> CASE c = 1 -> "low" [] c = 2 -> "middle" [] OTHER -> "high"]
MCCommands == {{}, {"CHG", "DSG"}, {"PDSG_CTL"}}
====
