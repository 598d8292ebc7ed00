----------------------------- MODULE ListQueues -----------------------------
(***************************************************************************)
(* What utils/list.c promises the scheduler: every list is a queue, from   *)
(* which the first item with a given wait field can also be taken.  These  *)
(* are the operations of ListOps that Process is built from.               *)
(***************************************************************************)
EXTENDS ListOps

CONSTANTS List, Item, Wait, NULL

VARIABLES
  queue,      \* the items of each list, first to last
  wait,       \* the wait field of each item
  returned    \* what the last operation returned

queueVars == <<queue, wait, returned>>

Init ==
  /\ queue = [l \in List |-> <<>>]
  /\ wait \in [Item -> Wait]
  /\ returned = NULL

Queued(x) == \E l \in List : Contains(queue[l], x)

\* The callers append what is on no list, with its wait field set before.
Appended(l, x, w) ==
  /\ ~ Queued(x)
  /\ wait' = [wait EXCEPT ![x] = w]
  /\ queue' = [queue EXCEPT ![l] = Append(@, x)]
  /\ returned' = NULL

HeadTaken(l) ==
  /\ queue' = [queue EXCEPT ![l] = IF @ = <<>> THEN @ ELSE Tail(@)]
  /\ returned' = IF queue[l] = <<>> THEN NULL ELSE Head(queue[l])
  /\ UNCHANGED wait

\* The first item that matches, or none.
MatchTaken(l, w) ==
  /\ LET I == Matches(queue[l], wait, w)
     IN  IF I = {}
         THEN returned' = NULL /\ UNCHANGED queue
         ELSE /\ returned' = queue[l][Min(I)]
              /\ queue' = [queue EXCEPT ![l] = Unlink(@, Min(I))]
  /\ UNCHANGED wait

Next ==
  \E l \in List :
    \/ \E x \in Item, w \in Wait : Appended(l, x, w)
    \/ HeadTaken(l)
    \/ \E w \in Wait : MatchTaken(l, w)

Spec == Init /\ [][Next]_queueVars
=============================================================================
