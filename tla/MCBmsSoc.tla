---- MODULE MCBmsSoc ----
(* Six permille, of 4 or 8 charge units each: a step of 2 ms moves up to 10, *)
(* and with the residual a current of 5 leaves the 5 bits, one of 4 does not.*)
EXTENDS BmsSoc

MCCurrents == -5 .. 5
====
