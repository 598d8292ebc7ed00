------------------------------ MODULE Keyboard ------------------------------
(***************************************************************************)
(* The keyboard driver, keyboard.c: the ring buffer the UART interrupt     *)
(* fills and the processes that read it.                                   *)
(*                                                                         *)
(* Interrupts are masked in the kernel, so the interrupt handler and each  *)
(* part of read_key_buffer() on one side of its sleep() are one action.    *)
(* The scheduler is left open: a reader that was woken goes on at any time *)
(* later, after any number of other steps.  Process.tla has the lists it   *)
(* is on meanwhile; here pc says on which side of the sleep it is.         *)
(*                                                                         *)
(* Operators whose names start with Wrong: see Process.                    *)
(***************************************************************************)
EXTENDS Integers, Sequences

CONSTANTS
  Reader,    \* the processes that read keys
  Char,      \* the characters a terminal sends
  Nul,       \* the value of a slot no key was written to
  Size       \* KEYBOARD_BUFFER_MAX

ASSUME KeyboardAssumption == Size \in Nat /\ Size >= 2 /\ Nul \notin Char

Index == 0 .. Size - 1

VARIABLES
  buffer, front, end,   \* struct KeyboardBuffer key_buffer
  pc,                   \* "user", "asleep" in sleep(-2), or "woken" from it
  local,                \* the local variable front of a call that sleeps, or 0
  last                  \* what read_key_buffer() returned last

keyVars == <<buffer, front, end, pc, local, last>>

Init ==
  /\ buffer = [i \in Index |-> Nul]
  /\ front = 0
  /\ end = 0
  /\ pc = [r \in Reader |-> "user"]
  /\ local = [r \in Reader |-> 0]
  /\ last = Nul

-----------------------------------------------------------------------------
\* write_key_buffer(): the slot before front stays free, so that a full
\* buffer is not taken for an empty one.
WrongWriteNoFullTest(ch) ==
  buffer' = [buffer EXCEPT ![end] = ch] /\ end' = (end + 1) % Size

WrongWriteNoWrap(ch) ==
  IF end + 1 = Size
  THEN UNCHANGED <<buffer, end>>
  ELSE buffer' = [buffer EXCEPT ![end] = ch] /\ end' = end + 1

write_key_buffer(ch) ==
  IF (end + 1) % Size = front
  THEN UNCHANGED <<buffer, end>>
  ELSE /\ buffer' = [buffer EXCEPT ![end] = ch]
       /\ end' = (end + 1) % Size

\* keyboard_handler(), on a UART interrupt: write, then wake_up(-2).
keyboard_handler(ch) ==
  /\ write_key_buffer(ch)
  /\ pc' = [r \in Reader |-> IF pc[r] = "asleep" THEN "woken" ELSE pc[r]]
  /\ UNCHANGED <<front, local, last>>

\* The end of read_key_buffer(): the read index moves on, and the key at the
\* index the call saw at its start is returned.
TakeKey(seen) ==
  /\ front' = (front + 1) % Size
  /\ last' = buffer[seen]
  /\ UNCHANGED <<buffer, end>>

\* read_key_buffer() up to its sleep, or to its end when there is a key.
ReadKey(r) ==
  /\ pc[r] = "user"
  /\ IF front = end
     THEN /\ pc' = [pc EXCEPT ![r] = "asleep"]
          /\ local' = [local EXCEPT ![r] = front]
          /\ UNCHANGED <<buffer, front, end, last>>
     ELSE TakeKey(front) /\ UNCHANGED <<pc, local>>

\* ... and from there, once the reader has been woken: nothing is tested again.
ReadKeyWoken(r) ==
  /\ pc[r] = "woken"
  /\ TakeKey(local[r])
  /\ pc' = [pc EXCEPT ![r] = "user"]
  /\ local' = [local EXCEPT ![r] = 0]

Next ==
  \/ \E ch \in Char : keyboard_handler(ch)
  \/ \E r \in Reader : ReadKey(r) \/ ReadKeyWoken(r)

Spec == Init /\ [][Next]_keyVars

-----------------------------------------------------------------------------
(* Properties.                                                             *)

\* The keys in the buffer, oldest first.
Count == (end - front + Size) % Size
Keys  == [i \in 1 .. Count |-> buffer[(front + i - 1) % Size]]

\* The driver is the bounded queue, as long as one process at a time reads:
\* keys are neither repeated nor reordered nor made up, across the wrap of
\* both indices, the sleep and the keys that arrive before the reader runs.
Abstract == INSTANCE KeyQueue WITH queue <- Keys, Capacity <- Size - 1

IsKeyQueue == Abstract!Spec

\* wake_up(-2) in the handler and the test before sleep(-2) leave no gap: a
\* reader is asleep only while there is nothing to read, and one that was
\* woken finds a key, at the index it saw before it slept.
NoLostKeyPress ==
  \A r \in Reader :
    /\ pc[r] = "asleep" => front = end
    /\ pc[r] = "woken"  => front # end /\ local[r] = front

\* keyboard.h: a key is returned "if buffer not empty".  No call takes a key
\* out of an empty buffer.
ReadsOnlyKeys == [][front' # front => front # end]_keyVars
=============================================================================
