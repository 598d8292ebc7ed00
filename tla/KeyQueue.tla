------------------------------ MODULE KeyQueue ------------------------------
(***************************************************************************)
(* What the keyboard buffer promises its readers: a queue of bounded       *)
(* length.  A key pressed while the queue is full is lost, every other key *)
(* is read once, in the order the keys were pressed, and nothing else is   *)
(* read.                                                                   *)
(***************************************************************************)
EXTENDS Naturals, Sequences

CONSTANTS Char, Capacity

VARIABLES queue, last    \* the keys not yet read, and the key read last

TypeOK == queue \in Seq(Char) /\ Len(queue) <= Capacity

Init == queue = <<>> /\ last \notin Char

Press(ch) ==
  /\ queue' = IF Len(queue) < Capacity THEN Append(queue, ch) ELSE queue
  /\ UNCHANGED last

Read ==
  /\ queue # <<>>
  /\ last' = Head(queue)
  /\ queue' = Tail(queue)

Next == (\E ch \in Char : Press(ch)) \/ Read

Spec == Init /\ [][Next]_<<queue, last>>
=============================================================================
