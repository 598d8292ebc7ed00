------------------------------ MODULE ListOps ------------------------------
(***************************************************************************)
(* The linked lists of utils/list.c as sequences.  A struct HeadList is a  *)
(* sequence of process slots, its head first.  append_list_tail is Append, *)
(* remove_list_head is Head and Tail, is_list_empty is a comparison with   *)
(* the empty sequence; what is left is removal from the middle, which      *)
(* keeps the order of the items that stay.                                 *)
(***************************************************************************)
EXTENDS Integers, Sequences, FiniteSets, SequencesExt

\* The place of i among the positions I, counted from 1.
Rank(I, i) == Cardinality({j \in I : j <= i})

\* The items of s at the positions I, in the order they have in s.
Sublist(s, I) ==
  [k \in 1 .. Cardinality(I) |-> s[CHOOSE i \in I : Rank(I, i) = k]]

\* remove_list(list, w), whose search stops at the first item that matches:
\* here the positions of the items whose wait field (wait) is w ...
Matches(list, wait, w) == {i \in DOMAIN list : wait[list[i]] = w}

\* ... and the list without the item at position i.
Unlink(list, i) == Sublist(list, DOMAIN list \ {i})

\* No item is on the list twice.
OnceEach(list) == \A i, j \in DOMAIN list : list[i] = list[j] => i = j
=============================================================================
