---- MODULE MCBmsApplication ----
(* Five parameters on pages of three, with one pair on either page and one   *)
(* parameter of its own; a log of four events on pages of two.               *)
EXTENDS BmsApplication

MCPairs == {<<2, 3>>, <<4, 5>>}
MCRange == [id \in 1 .. 5 |-> IF id = 1 THEN {0} ELSE 0 .. 2]
MCDefaults == <<0, 0, 1, 1, 2>>

(* Half a pair, a whole pair in either order, a value out of range behind    *)
(* one in range, a parameter that does not exist.                            *)
Write(id, value) == [id |-> id, value |-> value]
MCWrites == {<<Write(id, value)>> : id \in 2 .. 5, value \in 0 .. 2}
            \union {<<Write(pair[1], low), Write(pair[2], low + 1)>> : pair \in MCPairs, low \in 0 .. 1}
            \union {<<Write(3, 2), Write(2, 1)>>, <<Write(2, 0), Write(3, 3)>>, <<Write(6, 0)>>}
====
