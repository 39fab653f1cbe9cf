---- MODULE LossyQueue ----
(* What the SDK's rings of reports promise: a queue that forgets its oldest  *)
(* item when it is full.                                                     *)
EXTENDS Naturals, Sequences

CONSTANTS Items, Num

VARIABLE queue

Init == queue = <<>>

After(item) == LET longer == Append(queue, item)
               IN  IF Len(longer) > Num THEN Tail(longer) ELSE longer

Push == \E item \in Items : queue' = After(item)
Pop == queue # <<>> /\ queue' = Tail(queue)

Spec == Init /\ [][Push \/ Pop]_queue
====
