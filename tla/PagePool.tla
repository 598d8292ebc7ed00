------------------------------ MODULE PagePool ------------------------------
(***************************************************************************)
(* What the page allocator and the page tables promise to the processes:   *)
(* each gets a number of pages of its own, no page has two owners or an    *)
(* owner while it is free, and a process that is freed gives all its pages *)
(* back.  An operation that runs out of pages stops the kernel.            *)
(***************************************************************************)
EXTENDS Naturals, FiniteSets

CONSTANTS Proc, PerProcess

VARIABLES free, owned, halted

poolVars == <<free, owned, halted>>

Init ==
  /\ IsFiniteSet(free)
  /\ owned = [p \in Proc |-> {}]
  /\ halted = FALSE

Take(pages) == pages \subseteq free /\ free' = free \ pages

\* The kernel takes a page for itself.
Reserve ==
  /\ ~ halted
  /\ \E page \in free \ free' : Take({page})
  /\ UNCHANGED <<owned, halted>>

Create(p) ==
  /\ ~ halted
  /\ owned[p] = {}
  /\ \E pages \in {owned'[p]} :
       /\ Cardinality(pages) = PerProcess
       /\ Take(pages)
       /\ owned' = [owned EXCEPT ![p] = pages]
  /\ UNCHANGED halted

Destroy(p) ==
  /\ ~ halted
  /\ owned[p] # {}
  /\ free' = free \cup owned[p]
  /\ owned' = [owned EXCEPT ![p] = {}]
  /\ UNCHANGED halted

Halt == halted' = TRUE /\ free' \subseteq free /\ UNCHANGED owned

Next == Reserve \/ (\E p \in Proc : Create(p) \/ Destroy(p)) \/ Halt

Spec == Init /\ [][Next]_poolVars
=============================================================================
