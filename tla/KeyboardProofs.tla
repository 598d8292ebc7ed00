--------------------------- MODULE KeyboardProofs ---------------------------
(***************************************************************************)
(* Proofs about Keyboard with one reader, for every size of the ring and   *)
(* every set of characters: the driver implements the bounded queue of     *)
(* KeyQueue.                                                               *)
(***************************************************************************)
EXTENDS Keyboard, SequenceTheorems, TLAPS

\* The shell is the one process that reads keys.
OneReader == \A r, s \in Reader : r = s

\* What a slot of the ring holds.
Value == Char \cup {Nul}

TypeOK ==
  /\ buffer \in [Index -> Value]
  /\ front \in Index /\ end \in Index
  /\ pc \in [Reader -> {"user", "asleep", "woken"}]
  /\ local \in [Reader -> Index]

\* A reader sleeps on the key at front, whose index it has seen.
SleepsAtFront == \A r \in Reader : pc[r] = "asleep" => local[r] = front

\* The inductive invariant.
RingInv == TypeOK /\ NoLostKeyPress /\ SleepsAtFront

-----------------------------------------------------------------------------
(* The arithmetic of the ring.                                             *)

\* Going round: the remainder of a number less than twice the size.
LEMMA Wrap ==
  ASSUME NEW x \in 0 .. 2 * Size - 1
  PROVE  x % Size = IF x < Size THEN x ELSE x - Size
<1>1. Size \in Nat /\ Size > 0
  BY KeyboardAssumption
<1>2. CASE x < Size
  BY <1>1, <1>2
<1>3. CASE ~ (x < Size)
  <2>1. PICK y \in 0 .. Size - 1 : x = y + Size
    <3>1. x - Size \in 0 .. Size - 1 /\ x = (x - Size) + Size
      BY <1>1, <1>3
    <3> QED BY <3>1
  <2>2. (y + Size) % Size = y
    BY <1>1
  <2> QED BY <1>1, <1>3, <2>1, <2>2
<1> QED BY <1>2, <1>3

\* The slot after slot k, as both halves of the driver compute it.
Next1(k) == IF k + 1 = Size THEN 0 ELSE k + 1

LEMMA Advance ==
  ASSUME NEW k \in Index
  PROVE  (k + 1) % Size = Next1(k) /\ Next1(k) \in Index
<1> DEFINE x == k + 1
<1>1. x \in 0 .. 2 * Size - 1
  BY KeyboardAssumption DEF Index
<1> HIDE DEF x
<1>2. x % Size = IF x < Size THEN x ELSE x - Size
  BY <1>1, Wrap
<1> USE DEF x
<1>3. x < Size \/ k + 1 = Size
  BY KeyboardAssumption DEF Index
<1> QED BY <1>2, <1>3, KeyboardAssumption DEF Index, Next1

\* The keys of a ring b with its indices at f and e.
KeysOf(b, f, e) ==
  [i \in 1 .. (e - f + Size) % Size |-> b[(f + i - 1) % Size]]

\* ... how many they are,
CountOf(f, e) == IF f <= e THEN e - f ELSE e - f + Size

\* ... and where the i-th of them is.
SlotOf(f, i) == IF f + i - 1 < Size THEN f + i - 1 ELSE f + i - 1 - Size

LEMMA KeysOfRing ==
  ASSUME NEW b \in [Index -> Value], NEW f \in Index, NEW e \in Index
  PROVE  /\ KeysOf(b, f, e) \in Seq(Value)
         /\ Len(KeysOf(b, f, e)) = CountOf(f, e)
         /\ \A i \in 1 .. CountOf(f, e) : KeysOf(b, f, e)[i] = b[SlotOf(f, i)]
<1>1. (e - f + Size) % Size = CountOf(f, e)
  <2> DEFINE x == e - f + Size
  <2>1. x \in 0 .. 2 * Size - 1
    BY KeyboardAssumption DEF Index
  <2>2. CountOf(f, e) = IF x < Size THEN x ELSE x - Size
    BY KeyboardAssumption DEF Index, CountOf
  <2> HIDE DEF x
  <2>3. x % Size = CountOf(f, e)
    BY <2>1, <2>2, Wrap
  <2> QED BY <2>3 DEF x
<1>2. CountOf(f, e) \in 0 .. Size - 1
  BY KeyboardAssumption DEF Index, CountOf
<1>3. ASSUME NEW i \in 1 .. CountOf(f, e)
      PROVE  (f + i - 1) % Size = SlotOf(f, i) /\ SlotOf(f, i) \in Index
  <2> DEFINE x == f + i - 1
  <2>1. x \in 0 .. 2 * Size - 1
    BY <1>2, KeyboardAssumption DEF Index
  <2>2. SlotOf(f, i) = IF x < Size THEN x ELSE x - Size
    BY <1>2, KeyboardAssumption DEF Index, SlotOf
  <2>3. SlotOf(f, i) \in Index
    BY <2>1, <2>2, KeyboardAssumption DEF Index
  <2> HIDE DEF x
  <2>4. x % Size = SlotOf(f, i)
    BY <2>1, <2>2, Wrap
  <2> QED BY <2>3, <2>4 DEF x
<1>4. KeysOf(b, f, e) = [i \in 1 .. CountOf(f, e) |-> b[SlotOf(f, i)]]
  BY <1>1, <1>3 DEF KeysOf
<1>5. KeysOf(b, f, e) \in [1 .. CountOf(f, e) -> Value]
  BY <1>3, <1>4
<1>6. KeysOf(b, f, e) \in Seq(Value)
  BY <1>2, <1>5, SeqDef
<1>7. Len(KeysOf(b, f, e)) = CountOf(f, e)
  BY <1>2, <1>5, <1>6, LenProperties
<1> QED BY <1>4, <1>6, <1>7

-----------------------------------------------------------------------------
(* The two ends of the queue.                                              *)

\* A key written behind the others is the last of the queue; there is no room
\* exactly when the next slot is the first key's.
LEMMA WriteAppends ==
  ASSUME NEW b \in [Index -> Value], NEW f \in Index, NEW e \in Index, NEW ch \in Char
  PROVE  /\ Next1(e) = f <=> ~ (Len(KeysOf(b, f, e)) < Size - 1)
         /\ Next1(e) # f
              => KeysOf([b EXCEPT ![e] = ch], f, Next1(e)) = Append(KeysOf(b, f, e), ch)
<1> DEFINE s == KeysOf(b, f, e)
           c == [b EXCEPT ![e] = ch]
           t == KeysOf(c, f, Next1(e))
           n == CountOf(f, e)
<1>1. s \in Seq(Value) /\ Len(s) = n /\ \A i \in 1 .. n : s[i] = b[SlotOf(f, i)]
  BY KeysOfRing
<1>2. n \in 0 .. Size - 1
  BY KeyboardAssumption DEF Index, CountOf
<1>3. Next1(e) = f <=> ~ (n < Size - 1)
  BY KeyboardAssumption DEF Index, CountOf, Next1
<1>4. ASSUME Next1(e) # f
      PROVE  t = Append(s, ch)
  <2>1. c \in [Index -> Value] /\ \A k \in Index : c[k] = IF k = e THEN ch ELSE b[k]
    BY DEF Value
  <2>2. CountOf(f, Next1(e)) = n + 1
    BY <1>4, KeyboardAssumption DEF Index, CountOf, Next1
  <2>3. /\ t \in Seq(Value) /\ Len(t) = n + 1
        /\ \A i \in 1 .. n + 1 : t[i] = c[SlotOf(f, i)]
    <3>1. Next1(e) \in Index
      BY Advance
    <3> HIDE DEF c, n
    <3> QED BY <2>1, <2>2, <3>1, KeysOfRing
  <2>4. SlotOf(f, n + 1) = e
    BY KeyboardAssumption DEF Index, CountOf, SlotOf
  <2>5. \A i \in 1 .. n : SlotOf(f, i) \in Index /\ SlotOf(f, i) # e
    BY KeyboardAssumption DEF Index, CountOf, SlotOf
  <2> HIDE DEF s, t, c, n
  <2>6. /\ Append(s, ch) \in Seq(Value) /\ Len(Append(s, ch)) = n + 1
        /\ \A i \in 1 .. n : Append(s, ch)[i] = s[i]
        /\ Append(s, ch)[n + 1] = ch
    BY <1>1, <1>2 DEF Value
  <2>7. \A i \in 1 .. n + 1 : t[i] = Append(s, ch)[i]
    <3> SUFFICES ASSUME NEW i \in 1 .. n + 1 PROVE t[i] = Append(s, ch)[i]
      OBVIOUS
    <3>1. CASE i = n + 1
      BY <2>1, <2>3, <2>4, <2>6, <3>1
    <3>2. CASE i \in 1 .. n
      BY <1>1, <2>1, <2>3, <2>5, <2>6, <3>2
    <3>3. i = n + 1 \/ i \in 1 .. n
      BY <1>2
    <3> QED BY <3>1, <3>2, <3>3
  <2> QED BY <2>3, <2>6, <2>7, SeqEqual
<1> QED BY <1>1, <1>3, <1>4

\* The key at front is the first of the queue, and moving front on takes it
\* off; there is none exactly when front is at end.
LEMMA TakeRemovesHead ==
  ASSUME NEW b \in [Index -> Value], NEW f \in Index, NEW e \in Index
  PROVE  /\ f = e <=> KeysOf(b, f, e) = <<>>
         /\ f # e => /\ b[f] = Head(KeysOf(b, f, e))
                     /\ KeysOf(b, Next1(f), e) = Tail(KeysOf(b, f, e))
<1> DEFINE s == KeysOf(b, f, e)
           t == KeysOf(b, Next1(f), e)
           n == CountOf(f, e)
<1>1. s \in Seq(Value) /\ Len(s) = n /\ \A i \in 1 .. n : s[i] = b[SlotOf(f, i)]
  BY KeysOfRing
<1>2. n \in 0 .. Size - 1 /\ (n = 0 <=> f = e)
  BY KeyboardAssumption DEF Index, CountOf
<1>3. f = e <=> s = <<>>
  <2> HIDE DEF s, n
  <2> QED BY <1>1, <1>2, EmptySeq
<1>4. ASSUME f # e
      PROVE  b[f] = Head(s) /\ t = Tail(s)
  <2>1. CountOf(Next1(f), e) = n - 1
    BY <1>4, KeyboardAssumption DEF Index, CountOf, Next1
  <2>2. /\ t \in Seq(Value) /\ Len(t) = n - 1
        /\ \A i \in 1 .. n - 1 : t[i] = b[SlotOf(Next1(f), i)]
    <3>1. Next1(f) \in Index
      BY Advance
    <3> HIDE DEF n
    <3> QED BY <2>1, <3>1, KeysOfRing
  <2>3. SlotOf(f, 1) = f
    BY KeyboardAssumption DEF Index, SlotOf
  <2>4. \A i \in 1 .. n - 1 : SlotOf(Next1(f), i) = SlotOf(f, i + 1)
    BY <1>4, KeyboardAssumption DEF Index, CountOf, SlotOf, Next1
  <2> HIDE DEF s, t, n
  <2>5. s # <<>>
    BY <1>3, <1>4
  <2>6. /\ Tail(s) \in Seq(Value) /\ Len(Tail(s)) = n - 1
        /\ \A i \in 1 .. n - 1 : Tail(s)[i] = s[i + 1]
    BY <1>1, <2>5, HeadTailProperties
  <2>7. \A i \in 1 .. n - 1 : t[i] = Tail(s)[i]
    <3> SUFFICES ASSUME NEW i \in 1 .. n - 1 PROVE t[i] = Tail(s)[i]
      OBVIOUS
    <3>1. i + 1 \in 1 .. n
      BY <1>2
    <3> QED BY <1>1, <2>2, <2>4, <2>6, <3>1
  <2>8. t = Tail(s)
    BY <2>2, <2>6, <2>7, SeqEqual
  <2>9. Head(s) = s[1] /\ 1 \in 1 .. n
    BY <1>1, <1>2, <1>4
  <2> QED BY <1>1, <2>3, <2>8, <2>9
<1> QED BY <1>3, <1>4

-----------------------------------------------------------------------------
(* The invariant.                                                          *)

LEMMA InitInv == Init => RingInv
BY KeyboardAssumption DEF Init, RingInv, TypeOK, NoLostKeyPress, SleepsAtFront, Index, Value

\* A key is written where it wraps round, or not at all; either way a reader
\* that sleeps finds one when it wakes.
LEMMA HandlerInv ==
  ASSUME RingInv, NEW ch \in Char, keyboard_handler(ch)
  PROVE  RingInv'
<1>1. /\ front \in Index /\ end \in Index /\ Next1(end) \in Index
      /\ (end + 1) % Size = Next1(end) /\ Next1(end) # end
  <2>1. front \in Index /\ end \in Index
    BY DEF RingInv, TypeOK
  <2>2. Next1(end) # end
    BY <2>1, KeyboardAssumption DEF Index, Next1
  <2> QED BY <2>1, <2>2, Advance
<1>2. \/ Next1(end) = front /\ UNCHANGED <<buffer, end>>
      \/ /\ Next1(end) # front
         /\ buffer' = [buffer EXCEPT ![end] = ch] /\ end' = Next1(end)
  BY <1>1 DEF keyboard_handler, write_key_buffer
<1>3. /\ pc' = [r \in Reader |-> IF pc[r] = "asleep" THEN "woken" ELSE pc[r]]
      /\ UNCHANGED <<front, local, last>>
  BY DEF keyboard_handler
<1>4. buffer' \in [Index -> Value]
  BY <1>2 DEF RingInv, TypeOK, Value
<1>5. TypeOK'
  BY <1>1, <1>2, <1>3, <1>4 DEF RingInv, TypeOK
<1>6. front' # end'
  BY <1>1, <1>2, <1>3
<1>7. \A r \in Reader : pc'[r] = "woken" => local[r] = front
  BY <1>3 DEF RingInv, NoLostKeyPress, SleepsAtFront
<1> QED BY <1>3, <1>5, <1>6, <1>7 DEF RingInv, NoLostKeyPress, SleepsAtFront

\* The one reader takes the key at front.
LEMMA TakeInv ==
  ASSUME OneReader, RingInv, NEW r \in Reader,
         TakeKey(front), pc'[r] = "user",
         pc' = [pc EXCEPT ![r] = "user"], local' \in [Reader -> Index]
  PROVE  RingInv'
<1>1. front \in Index /\ Next1(front) \in Index /\ front' = Next1(front)
  <2>1. front \in Index
    BY DEF RingInv, TypeOK
  <2> QED BY <2>1, Advance DEF TakeKey
<1>2. \A q \in Reader : pc'[q] = "user"
  BY DEF OneReader
<1>3. TypeOK'
  BY <1>1 DEF RingInv, TypeOK, TakeKey
<1> QED BY <1>2, <1>3 DEF RingInv, NoLostKeyPress, SleepsAtFront

LEMMA NextInv ==
  ASSUME OneReader, RingInv, [Next]_keyVars
  PROVE  RingInv'
<1>1. ASSUME NEW ch \in Char, keyboard_handler(ch)
      PROVE  RingInv'
  BY <1>1, HandlerInv
<1>2. ASSUME NEW r \in Reader, ReadKey(r)
      PROVE  RingInv'
  <2>1. CASE front = end
    <3>1. /\ pc' = [pc EXCEPT ![r] = "asleep"] /\ local' = [local EXCEPT ![r] = front]
          /\ UNCHANGED <<buffer, front, end>>
      BY <1>2, <2>1 DEF ReadKey
    <3>2. TypeOK'
      BY <3>1 DEF RingInv, TypeOK
    <3>3. \A q \in Reader : pc'[q] = "asleep" /\ local'[q] = front
      BY <3>1 DEF OneReader, RingInv, TypeOK
    <3> QED BY <2>1, <3>1, <3>2, <3>3 DEF RingInv, NoLostKeyPress, SleepsAtFront
  <2>2. CASE front # end
    <3>1. TakeKey(front) /\ pc[r] = "user" /\ UNCHANGED <<pc, local>>
      BY <1>2, <2>2 DEF ReadKey
    <3>2. pc' = [pc EXCEPT ![r] = "user"] /\ local' \in [Reader -> Index] /\ pc'[r] = "user"
      BY <3>1 DEF RingInv, TypeOK
    <3> QED BY <3>1, <3>2, TakeInv
  <2> QED BY <2>1, <2>2
<1>3. ASSUME NEW r \in Reader, ReadKeyWoken(r)
      PROVE  RingInv'
  <2>1. TakeKey(front) /\ pc' = [pc EXCEPT ![r] = "user"] /\ local' = [local EXCEPT ![r] = 0]
    BY <1>3 DEF ReadKeyWoken, RingInv, NoLostKeyPress
  <2>2. local' \in [Reader -> Index] /\ pc'[r] = "user"
    BY <2>1, KeyboardAssumption DEF RingInv, TypeOK, Index
  <2> QED BY <2>1, <2>2, TakeInv
<1>4. CASE UNCHANGED keyVars
  BY <1>4 DEF keyVars, RingInv, TypeOK, NoLostKeyPress, SleepsAtFront
<1> QED BY <1>1, <1>2, <1>3, <1>4 DEF Next

LEMMA RingInvariant == ASSUME OneReader PROVE Spec => []RingInv
BY OneReader, InitInv, NextInv, PTL DEF Spec

\* With one reader no key press is lost between the test of the buffer and
\* the sleep: it sleeps only while there is nothing to read, and wakes to a
\* key at the index it looked at.
THEOREM NoKeyPressIsLost == ASSUME OneReader PROVE Spec => []NoLostKeyPress
BY OneReader, RingInvariant, PTL DEF RingInv

-----------------------------------------------------------------------------
(* The refinement.                                                         *)

LEMMA KeysAreOfRing == Keys = KeysOf(buffer, front, end)
BY DEF Keys, Count, KeysOf

LEMMA InitRefines == Init => Abstract!Init
<1> SUFFICES ASSUME Init PROVE Abstract!Init
  OBVIOUS
<1>1. Keys = <<>>
  BY InitInv, KeysAreOfRing, TakeRemovesHead DEF RingInv, TypeOK, Init
<1> QED BY <1>1, KeyboardAssumption DEF Init, Abstract!Init

LEMMA HandlerRefines ==
  ASSUME RingInv, NEW ch \in Char, keyboard_handler(ch)
  PROVE  Abstract!Press(ch)
<1>1. /\ buffer \in [Index -> Value] /\ front \in Index /\ end \in Index
      /\ (end + 1) % Size = Next1(end)
  BY Advance DEF RingInv, TypeOK
<1>2. /\ Keys = KeysOf(buffer, front, end)
      /\ Keys' = KeysOf(buffer', front', end')
  BY DEF Keys, Count, KeysOf
<1>3. /\ Next1(end) = front <=> ~ (Len(Keys) < Size - 1)
      /\ Next1(end) # front
           => KeysOf([buffer EXCEPT ![end] = ch], front, Next1(end)) = Append(Keys, ch)
  BY <1>1, <1>2, WriteAppends
<1>4. Keys' = IF Len(Keys) < Size - 1 THEN Append(Keys, ch) ELSE Keys
  <2>1. CASE Next1(end) = front
    <3>1. UNCHANGED <<buffer, front, end>>
      BY <1>1, <2>1 DEF keyboard_handler, write_key_buffer
    <3> QED BY <1>2, <1>3, <2>1, <3>1
  <2>2. CASE Next1(end) # front
    <3>1. buffer' = [buffer EXCEPT ![end] = ch] /\ end' = Next1(end) /\ front' = front
      BY <1>1, <2>2 DEF keyboard_handler, write_key_buffer
    <3> QED BY <1>2, <1>3, <2>2, <3>1
  <2> QED BY <2>1, <2>2
<1>5. last' = last
  BY DEF keyboard_handler
<1> QED BY <1>4, <1>5 DEF Abstract!Press

LEMMA TakeRefines ==
  ASSUME RingInv, front # end, TakeKey(front)
  PROVE  Abstract!Read
<1>1. /\ buffer \in [Index -> Value] /\ front \in Index /\ end \in Index
      /\ (front + 1) % Size = Next1(front)
  BY Advance DEF RingInv, TypeOK
<1>2. /\ Keys = KeysOf(buffer, front, end)
      /\ Keys' = KeysOf(buffer', front', end')
  BY DEF Keys, Count, KeysOf
<1>3. UNCHANGED <<buffer, end>> /\ front' = Next1(front) /\ last' = buffer[front]
  BY <1>1 DEF TakeKey
<1>4. Keys # <<>> /\ last' = Head(Keys) /\ Keys' = Tail(Keys)
  BY <1>1, <1>2, <1>3, TakeRemovesHead
<1> QED BY <1>4 DEF Abstract!Read

LEMMA NextRefines ==
  ASSUME RingInv, [Next]_keyVars
  PROVE  [Abstract!Next]_<<Keys, last>>
<1>1. ASSUME NEW ch \in Char, keyboard_handler(ch)
      PROVE  Abstract!Next
  BY <1>1, HandlerRefines DEF Abstract!Next
<1>2. ASSUME NEW r \in Reader, ReadKey(r)
      PROVE  Abstract!Next \/ UNCHANGED <<Keys, last>>
  <2>1. CASE front = end
    BY <1>2, <2>1 DEF ReadKey, Keys, Count
  <2>2. CASE front # end
    BY <1>2, <2>2, TakeRefines DEF ReadKey, Abstract!Next
  <2> QED BY <2>1, <2>2
<1>3. ASSUME NEW r \in Reader, ReadKeyWoken(r)
      PROVE  Abstract!Next
  <2>1. front # end /\ TakeKey(front)
    BY <1>3 DEF ReadKeyWoken, RingInv, NoLostKeyPress
  <2> QED BY <2>1, TakeRefines DEF Abstract!Next
<1>4. CASE UNCHANGED keyVars
  BY <1>4 DEF keyVars, Keys, Count
<1> QED BY <1>1, <1>2, <1>3, <1>4 DEF Next

\* With one reader the ring, its interrupt handler and the sleeping read are
\* a bounded queue, for every size of the ring: keys come out in the order
\* they were pressed, each once, and only those pressed while it was full are
\* missing.
THEOREM DriverIsKeyQueue == ASSUME OneReader PROVE Spec => IsKeyQueue
BY OneReader, RingInvariant, InitRefines, NextRefines, PTL DEF Spec, IsKeyQueue, Abstract!Spec
=============================================================================
