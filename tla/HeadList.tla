------------------------------ MODULE HeadList ------------------------------
(***************************************************************************)
(* utils/list.c with its pointers.  A struct HeadList is the first and the *)
(* last item of a list, an item is a struct Process whose first field is   *)
(* the link to the next one.  A HeadList starts with its own link, so      *)
(* remove_list() follows a list from the head as if that were an item:     *)
(* next has a value for heads and for items.                               *)
(*                                                                         *)
(* The operations do not sleep and interrupts are masked, so each is one   *)
(* action.  An item leaves a list with its old link still in it.           *)
(*                                                                         *)
(* Operators whose names start with Wrong: see Process.                    *)
(***************************************************************************)
EXTENDS Integers, Sequences, FiniteSets

CONSTANTS
  List,     \* ready_list, wait_list, kill_list
  Item,     \* the slots of process_table
  Wait,     \* values of the wait field
  NULL

ASSUME HeadListAssumption ==
  IsFiniteSet(Item) /\ List \cap Item = {} /\ NULL \notin List \cup Item

VARIABLES
  next,     \* HeadList.next and List.next
  tail,     \* HeadList.tail
  wait,     \* Process.wait
  returned  \* what the last operation returned

listVars == <<next, tail, wait, returned>>

Init ==
  /\ next = [n \in List \cup Item |-> NULL]
  /\ tail = [l \in List |-> NULL]
  /\ wait \in [Item -> Wait]
  /\ returned = NULL

\* The items from x on: node[n] is where n links lead from there.
From(x) ==
  LET node[n \in 0 .. Cardinality(Item)] ==
        IF n = 0 THEN x ELSE IF node[n - 1] = NULL THEN NULL ELSE next[node[n - 1]]
      count == Cardinality({n \in 0 .. Cardinality(Item) : node[n] # NULL})
  IN  [k \in 1 .. count |-> node[k - 1]]

Items(l)  == From(next[l])
OnAList(x) == \E l \in List : \E k \in DOMAIN Items(l) : Items(l)[k] = x

-----------------------------------------------------------------------------
is_list_empty(l) == next[l] = NULL

\* The link that points to the new item, and the item's own, now the last.
AppendLinks(l, x) ==
  IF is_list_empty(l)
  THEN [next EXCEPT ![x] = NULL, ![l] = x]
  ELSE [next EXCEPT ![x] = NULL, ![tail[l]] = x]

\* A caller sets the wait field of a process on no list, then appends it.
append_list_tail(l, x, w) ==
  /\ ~ OnAList(x)
  /\ wait' = [wait EXCEPT ![x] = w]
  /\ next' = AppendLinks(l, x)
  /\ tail' = [tail EXCEPT ![l] = x]
  /\ returned' = NULL

remove_list_head(l) ==
  /\ IF is_list_empty(l)
     THEN returned' = NULL /\ UNCHANGED <<next, tail>>
     ELSE /\ returned' = next[l]
          /\ next' = [next EXCEPT ![l] = next[next[l]]]
          /\ tail' = [tail EXCEPT ![l] = IF next[next[l]] = NULL THEN NULL ELSE @]
  /\ UNCHANGED wait

\* remove_list(): the first item that matches, and what points to it.
First(l, w) ==
  LET I == {k \in DOMAIN Items(l) : wait[Items(l)[k]] = w}
  IN  IF I = {} THEN 0 ELSE CHOOSE k \in I : \A j \in I : k <= j

WrongPrev(l, k) == l

Prev(l, k) == IF k = 1 THEN l ELSE Items(l)[k - 1]

\* The tail after an item was taken from between prev and rest.
WrongTailAfter(l, prev, rest) == IF rest = NULL THEN prev ELSE tail[l]

TailAfter(l, prev, rest) ==
  IF prev = l /\ rest = NULL THEN NULL
  ELSE IF rest = NULL THEN prev
  ELSE tail[l]

remove_list(l, w) ==
  /\ LET k == First(l, w)
     IN  IF k = 0
         THEN returned' = NULL /\ UNCHANGED <<next, tail>>
         ELSE LET x == Items(l)[k]
              IN  /\ returned' = x
                  /\ next' = [next EXCEPT ![Prev(l, k)] = next[x]]
                  /\ tail' = [tail EXCEPT ![l] = TailAfter(l, Prev(l, k), next[x])]
  /\ UNCHANGED wait

Next ==
  \E l \in List :
    \/ \E x \in Item, w \in Wait : append_list_tail(l, x, w)
    \/ remove_list_head(l)
    \/ \E w \in Wait : remove_list(l, w)

Spec == Init /\ [][Next]_listVars

-----------------------------------------------------------------------------
(* Properties.                                                             *)

\* The tail is the last of the items the links lead to, so that an append
\* neither drops items nor hangs the new one on one that has left; and the
\* links of a list end.
TailIsLast ==
  \A l \in List :
    IF is_list_empty(l) THEN tail[l] = NULL
    ELSE tail[l] = Items(l)[Len(Items(l))] /\ next[tail[l]] = NULL

\* The lists are the queues of ListOps, whatever stale links items still have
\* from the lists they were on: nothing is lost, repeated, reordered, or moved
\* to another list, and what is returned is what was taken.
Abstract == INSTANCE ListQueues WITH queue <- [l \in List |-> Items(l)]

IsListQueues == Abstract!Spec
=============================================================================
