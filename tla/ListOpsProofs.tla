--------------------------- MODULE ListOpsProofs ---------------------------
(***************************************************************************)
(* What the operations on lists do to the items of a list, as far as the   *)
(* proofs about processes need it: which items there are, that each is     *)
(* there once, and that the result is a list again.                        *)
(***************************************************************************)
EXTENDS ListOps, FiniteSetTheorems, SequenceTheorems, WellFoundedInduction, TLAPS

\* The first position of a search exists: a nonempty set of naturals, of the
\* slots find_unused_process() or the items remove_list() looks at, has a
\* least element, and Min is it.
LEMMA MinOfNats ==
  ASSUME NEW T \in SUBSET Nat, T # {}
  PROVE  Min(T) \in T /\ \A y \in T : Min(T) <= y
<1> DEFINE R == {ss \in Nat \X Nat : ss[1] < ss[2]}
<1>1. IsWellFoundedOn(R, Nat)
  BY NatLessThanWellFounded DEF OpToRel
<1>2. PICK x \in T : \A y \in T : ~ (<<y, x>> \in R)
  <2> HIDE DEF R
  <2> QED BY <1>1, WFMin
<1>3. \A y \in T : x <= y
  <2> TAKE y \in T
  <2>1. x \in Nat /\ y \in Nat
    OBVIOUS
  <2>2. ~ (y < x)
    BY <1>2, <2>1
  <2> QED BY <2>1, <2>2
<1>4. \E z \in T : \A y \in T : z <= y
  BY <1>3
<1> QED BY <1>4 DEF Min

\* A set of positions is finite.
LEMMA PositionsFinite ==
  ASSUME NEW n \in Nat, NEW I \in SUBSET (1 .. n)
  PROVE  IsFiniteSet(I) /\ Cardinality(I) \in Nat
<1>1. IsFiniteSet(1 .. n)
  BY FS_Interval
<1>2. IsFiniteSet(I)
  BY <1>1, FS_Subset
<1> QED BY <1>2, FS_CardinalityType

\* Positions are ranked from 1 to their number.
LEMMA RankBounds ==
  ASSUME NEW n \in Nat, NEW I \in SUBSET (1 .. n), NEW i \in I
  PROVE  Rank(I, i) \in 1 .. Cardinality(I)
<1> DEFINE T == {j \in I : j <= i}
<1>1. IsFiniteSet(I) /\ Cardinality(I) \in Nat
  BY PositionsFinite
<1>2. IsFiniteSet(T) /\ Cardinality(T) \in Nat /\ Cardinality(T) <= Cardinality(I)
  BY <1>1, FS_Subset, FS_CardinalityType
<1>3. Cardinality(T) # 0
  <2>1. i \in T
    OBVIOUS
  <2> QED BY <2>1, <1>2, FS_EmptySet
<1> QED BY <1>1, <1>2, <1>3 DEF Rank

\* A later position has a higher rank.
LEMMA RankMonotonic ==
  ASSUME NEW n \in Nat, NEW I \in SUBSET (1 .. n), NEW i \in I, NEW j \in I, i < j
  PROVE  Rank(I, i) < Rank(I, j)
<1> DEFINE T == {k \in I : k <= i}
           U == {k \in I : k <= j}
<1>1. IsFiniteSet(I)
  BY PositionsFinite
<1>2. IsFiniteSet(U) /\ Cardinality(U) \in Nat
  BY <1>1, FS_Subset, FS_CardinalityType
<1>3. T \in SUBSET U /\ T # U
  <2>1. j \in U /\ j \notin T
    OBVIOUS
  <2>2. \A k \in I : k <= i => k <= j
    OBVIOUS
  <2> QED BY <2>1, <2>2
<1>4. Cardinality(T) \in Nat /\ Cardinality(T) <= Cardinality(U) /\ Cardinality(T) # Cardinality(U)
  BY <1>2, <1>3, FS_Subset, FS_CardinalityType
<1> QED BY <1>2, <1>4 DEF Rank

\* Every number up to the number of positions is the rank of one.
LEMMA RankOnto ==
  ASSUME NEW n \in Nat, NEW I \in SUBSET (1 .. n), NEW k \in 1 .. Cardinality(I)
  PROVE  \E i \in I : Rank(I, i) = k
<1> DEFINE f == [i \in I |-> Rank(I, i)]
           T == 1 .. Cardinality(I)
<1>1. IsFiniteSet(I) /\ Cardinality(I) \in Nat
  BY PositionsFinite
<1>2. IsFiniteSet(T) /\ Cardinality(T) = Cardinality(I)
  BY <1>1, FS_Interval
<1>3. f \in [I -> T]
  BY RankBounds
<1>4. \A i, j \in I : f[i] = f[j] => i = j
  <2> SUFFICES ASSUME NEW i \in I, NEW j \in I, Rank(I, i) = Rank(I, j), i # j
               PROVE  FALSE
    OBVIOUS
  <2>1. Rank(I, i) \in 1 .. Cardinality(I)
    BY RankBounds
  <2>2. CASE i < j
    <3>1. Rank(I, i) < Rank(I, j)
      BY <2>2, RankMonotonic
    <3> QED BY <3>1, <2>1, <1>1
  <2>3. CASE j < i
    <3>1. Rank(I, j) < Rank(I, i)
      BY <2>3, RankMonotonic
    <3> QED BY <3>1, <2>1, <1>1
  <2> QED BY <2>2, <2>3
<1>5. f \in Injection(I, T)
  BY <1>3, <1>4 DEF Injection, IsInjective
<1>6. f \in Surjection(I, T)
  BY <1>1, <1>2, <1>5, FS_Injection
<1>7. \E i \in I : f[i] = k
  BY <1>6 DEF Surjection
<1> QED BY <1>7

\* Sublist, and with it the loop of wake_up() and remove_list(), keeps the
\* items at the positions it is given, and these only, once each.
LEMMA SublistProperties ==
  ASSUME NEW S, NEW s \in Seq(S), NEW I \in SUBSET DOMAIN s
  PROVE  /\ Sublist(s, I) \in Seq(S)
         /\ ToSet(Sublist(s, I)) = {s[i] : i \in I}
         /\ OnceEach(s) => OnceEach(Sublist(s, I))
<1> DEFINE n == Len(s)
           c == Cardinality(I)
           at(k) == CHOOSE i \in I : Rank(I, i) = k
           t == Sublist(s, I)
<1>1. n \in Nat /\ DOMAIN s = 1 .. n
  BY LenProperties
<1>2. I \in SUBSET (1 .. n)
  BY <1>1
<1>3. c \in Nat
  BY <1>1, <1>2, PositionsFinite
<1>4. \A k \in 1 .. c : at(k) \in I /\ Rank(I, at(k)) = k
  <2> TAKE k \in 1 .. c
  <2>1. \E i \in I : Rank(I, i) = k
    BY <1>1, <1>2, RankOnto
  <2> QED BY <2>1
<1>5. t = [k \in 1 .. c |-> s[at(k)]]
  BY DEF Sublist
<1>6. \A i \in I : Rank(I, i) \in 1 .. c /\ at(Rank(I, i)) = i
  <2> TAKE i \in I
  <2>1. Rank(I, i) \in 1 .. c
    BY <1>1, <1>2, RankBounds
  <2> DEFINE j == at(Rank(I, i))
  <2>2. j \in I /\ Rank(I, j) = Rank(I, i)
    BY <2>1, <1>4
  <2>3. j = i
    <3> HIDE DEF j
    <3>1. i \in Nat /\ j \in Nat
      BY <2>2, <1>2
    <3>2. CASE i < j
      <4>1. Rank(I, i) < Rank(I, j)
        BY <3>2, <2>2, <1>1, <1>2, RankMonotonic
      <4> QED BY <4>1, <2>1, <2>2, <1>3
    <3>3. CASE j < i
      <4>1. Rank(I, j) < Rank(I, i)
        BY <3>3, <2>2, <1>1, <1>2, RankMonotonic
      <4> QED BY <4>1, <2>1, <2>2, <1>3
    <3> QED BY <3>1, <3>2, <3>3
  <2> QED BY <2>1, <2>3
<1> HIDE DEF at, c, n, t
<1>7. t \in Seq(S) /\ DOMAIN t = 1 .. c
  <2>1. \A k \in 1 .. c : s[at(k)] \in S
    BY <1>1, <1>2, <1>4, ElementOfSeq DEF n
  <2>2. t \in [1 .. c -> S]
    BY <1>5, <2>1
  <2> QED BY <1>3, <2>2, SeqDef
<1>8. ToSet(t) = {s[i] : i \in I}
  <2>1. ToSet(t) = {t[k] : k \in 1 .. c}
    BY <1>7 DEF ToSet
  <2>2. ASSUME NEW x \in ToSet(t) PROVE x \in {s[i] : i \in I}
    BY <2>1, <1>4, <1>5
  <2>3. ASSUME NEW i \in I PROVE s[i] \in ToSet(t)
    BY <2>1, <1>5, <1>6
  <2> QED BY <2>2, <2>3
<1>9. ASSUME OnceEach(s) PROVE OnceEach(t)
  <2> SUFFICES ASSUME NEW k \in 1 .. c, NEW l \in 1 .. c, t[k] = t[l]
               PROVE  k = l
    BY <1>7 DEF OnceEach
  <2>1. s[at(k)] = s[at(l)]
    BY <1>5
  <2>2. at(k) = at(l)
    BY <2>1, <1>4, <1>9 DEF OnceEach
  <2> QED BY <2>2, <1>4
<1> QED BY <1>7, <1>8, <1>9 DEF t

\* remove_list() of the item at position i moves those after it one place up.
LEMMA UnlinkIs ==
  ASSUME NEW S, NEW s \in Seq(S), NEW i \in DOMAIN s
  PROVE  /\ Unlink(s, i) = [k \in 1 .. Len(s) - 1 |-> IF k < i THEN s[k] ELSE s[k + 1]]
         /\ Unlink(s, i) \in Seq(S) /\ Len(Unlink(s, i)) = Len(s) - 1
<1> DEFINE n == Len(s)
           I == DOMAIN s \ {i}
           at(k) == CHOOSE j \in I : Rank(I, j) = k
           place(k) == IF k < i THEN k ELSE k + 1
<1>1. n \in Nat /\ DOMAIN s = 1 .. n /\ i \in 1 .. n
  BY LenProperties
<1>2. I \in SUBSET (1 .. n)
  BY <1>1
<1>3. \A k \in 1 .. n : IsFiniteSet(1 .. k) /\ Cardinality(1 .. k) = k
  <2> TAKE k \in 1 .. n
  <2>1. 1 \in Int /\ k \in Int /\ 1 <= k
    BY <1>1
  <2>2. IsFiniteSet(1 .. k) /\ Cardinality(1 .. k) = IF 1 > k THEN 0 ELSE k - 1 + 1
    BY <2>1, FS_Interval
  <2> QED BY <2>1, <2>2
<1> HIDE DEF n
<1>4. Cardinality(I) = n - 1
  <2>1. n \in 1 .. n
    BY <1>1
  <2>2. IsFiniteSet(1 .. n) /\ Cardinality(1 .. n) = n
    BY <1>3, <2>1
  <2>3. Cardinality((1 .. n) \ {i}) = Cardinality(1 .. n) - 1
    BY <1>1, <2>2, FS_RemoveElement
  <2> QED BY <1>1, <2>2, <2>3
<1>5. \A j \in I : Rank(I, j) = IF j < i THEN j ELSE j - 1
  <2> TAKE j \in I
  <2> DEFINE T == {k \in I : k <= j}
  <2>1. j \in 1 .. n /\ j # i
    BY <1>1
  <2>2. IsFiniteSet(1 .. j) /\ Cardinality(1 .. j) = j
    BY <1>3, <2>1
  <2>3. CASE j < i
    <3>1. T = 1 .. j
      BY <1>1, <2>1, <2>3
    <3> QED BY <2>2, <2>3, <3>1 DEF Rank
  <2>4. CASE ~ (j < i)
    <3>1. T = (1 .. j) \ {i} /\ i \in 1 .. j
      BY <1>1, <2>1, <2>4
    <3>2. Cardinality((1 .. j) \ {i}) = Cardinality(1 .. j) - 1
      BY <2>2, <3>1, FS_RemoveElement
    <3> QED BY <2>2, <2>4, <3>1, <3>2 DEF Rank
  <2> QED BY <2>3, <2>4
<1>6. \A k \in 1 .. n - 1 : place(k) \in I /\ at(k) = place(k)
  <2> TAKE k \in 1 .. n - 1
  <2>1. place(k) \in I /\ Rank(I, place(k)) = k
    <3>1. place(k) \in 1 .. n /\ place(k) # i /\ (place(k) < i <=> k < i)
      BY <1>1
    <3>2. place(k) \in I
      BY <1>1, <3>1
    <3>3. Rank(I, place(k)) = IF place(k) < i THEN place(k) ELSE place(k) - 1
      <4> HIDE DEF place
      <4> QED BY <1>5, <3>2
    <3> QED BY <3>1, <3>2, <3>3
  <2>2. \A j \in I : Rank(I, j) = k => j = place(k)
    BY <1>1, <1>2, <1>5
  <2> HIDE DEF I, place
  <2>3. at(k) \in I /\ Rank(I, at(k)) = k
    BY <2>1
  <2> HIDE DEF at
  <2> QED BY <2>1, <2>2, <2>3
<1>7. Unlink(s, i) = [k \in 1 .. n - 1 |-> s[at(k)]]
  BY <1>4 DEF Unlink, Sublist
<1> HIDE DEF at, I
<1>8. \A k \in 1 .. n - 1 : s[at(k)] = IF k < i THEN s[k] ELSE s[k + 1]
  BY <1>6
<1>9. Unlink(s, i) = [k \in 1 .. n - 1 |-> IF k < i THEN s[k] ELSE s[k + 1]]
  BY <1>7, <1>8
<1>10. Unlink(s, i) \in Seq(S) /\ DOMAIN Unlink(s, i) = 1 .. n - 1
  <2>1. DOMAIN Unlink(s, i) = 1 .. n - 1
    BY <1>9
  <2>2. Unlink(s, i) \in Seq(S)
    BY SublistProperties DEF Unlink
  <2> QED BY <2>1, <2>2
<1>11. Len(Unlink(s, i)) = n - 1
  <2>1. Len(Unlink(s, i)) \in Nat /\ DOMAIN Unlink(s, i) = 1 .. Len(Unlink(s, i))
    BY <1>10, LenProperties
  <2>2. n - 1 \in Nat /\ 1 .. n - 1 = 1 .. Len(Unlink(s, i))
    BY <1>1, <1>10, <2>1
  <2> QED BY <2>1, <2>2
<1> QED BY <1>9, <1>10, <1>11 DEF n

\* remove_list_head takes the first item off, and no other.
LEMMA TailItems ==
  ASSUME NEW S, NEW s \in Seq(S), s # <<>>, OnceEach(s)
  PROVE  /\ Head(s) \in ToSet(s)
         /\ Tail(s) \in Seq(S)
         /\ OnceEach(Tail(s))
         /\ ToSet(Tail(s)) = ToSet(s) \ {Head(s)}
<1>1. Len(s) \in Nat \ {0} /\ DOMAIN s = 1 .. Len(s)
  BY EmptySeq, LenProperties
<1>2. Head(s) = s[1] /\ 1 \in DOMAIN s
  BY <1>1
<1>3. /\ Tail(s) \in Seq(S)
      /\ DOMAIN Tail(s) = 1 .. (Len(s) - 1)
      /\ \A i \in 1 .. (Len(s) - 1) : Tail(s)[i] = s[i + 1]
  BY <1>1, HeadTailProperties, LenProperties
<1>4. OnceEach(Tail(s))
  <2> SUFFICES ASSUME NEW i \in 1 .. (Len(s) - 1), NEW j \in 1 .. (Len(s) - 1),
                      Tail(s)[i] = Tail(s)[j]
               PROVE  i = j
    BY <1>3 DEF OnceEach
  <2>1. s[i + 1] = s[j + 1] /\ i + 1 \in DOMAIN s /\ j + 1 \in DOMAIN s
    BY <1>1, <1>3
  <2>2. i + 1 = j + 1
    BY <2>1 DEF OnceEach
  <2> QED BY <2>2, <1>1
<1>5. ASSUME NEW x \in ToSet(Tail(s)) PROVE x \in ToSet(s) \ {Head(s)}
  <2>1. PICK i \in 1 .. (Len(s) - 1) : x = s[i + 1]
    BY <1>3 DEF ToSet
  <2>2. i + 1 \in DOMAIN s /\ i + 1 # 1
    BY <1>1
  <2>3. s[i + 1] # s[1]
    BY <1>2, <2>2 DEF OnceEach
  <2> QED BY <1>2, <2>1, <2>2, <2>3 DEF ToSet
<1>6. ASSUME NEW x \in ToSet(s) \ {Head(s)} PROVE x \in ToSet(Tail(s))
  <2>1. PICK i \in DOMAIN s : x = s[i]
    BY DEF ToSet
  <2>2. i # 1
    BY <1>2, <2>1
  <2>3. i - 1 \in 1 .. (Len(s) - 1) /\ (i - 1) + 1 = i
    BY <1>1, <2>2
  <2>4. x = Tail(s)[i - 1]
    BY <1>3, <2>1, <2>3
  <2> QED BY <1>3, <2>3, <2>4 DEF ToSet
<1> QED BY <1>2, <1>3, <1>4, <1>5, <1>6 DEF ToSet

\* A prefix, item by item.
LEMMA PrefixItems ==
  ASSUME NEW S, NEW s \in Seq(S), NEW t \in Seq(S)
  PROVE  IsPrefix(s, t) <=> Len(s) <= Len(t) /\ \A i \in 1 .. Len(s) : t[i] = s[i]
<1> DEFINE n == Len(s)
<1>1. n \in Nat /\ Len(t) \in Nat /\ SubSeq(s, 1, n) = s
  BY LenProperties, SubSeqFull
<1>2. ASSUME n <= Len(t)
      PROVE  SubSeq(t, 1, n) = s <=> \A i \in 1 .. n : t[i] = s[i]
  <2>1. \A i \in 1 .. n : t[i] \in S
    BY <1>1, <1>2, ElementOfSeq
  <2>2. SubSeq(t, 1, n) \in Seq(S) /\ Len(SubSeq(t, 1, n)) = n
        /\ \A i \in 1 .. n : SubSeq(t, 1, n)[i] = t[i]
    BY <1>1, <2>1, SubSeqProperties
  <2> QED BY <2>2, SeqEqual
<1> QED BY <1>1, <1>2 DEF IsPrefix

\* What stays a prefix when the list grows twice, and when its head is taken off.
LEMMA PrefixOfPrefix ==
  ASSUME NEW S, NEW s \in Seq(S), NEW t \in Seq(S), NEW u \in Seq(S),
         IsPrefix(s, t), IsPrefix(t, u)
  PROVE  IsPrefix(s, u)
<1>1. Len(s) \in Nat /\ Len(t) \in Nat /\ Len(u) \in Nat
  BY LenProperties
<1>2. /\ Len(s) <= Len(t) /\ \A i \in 1 .. Len(s) : t[i] = s[i]
      /\ Len(t) <= Len(u) /\ \A i \in 1 .. Len(t) : u[i] = t[i]
  BY PrefixItems
<1>3. \A i \in 1 .. Len(s) : u[i] = s[i]
  BY <1>1, <1>2
<1> QED BY <1>1, <1>2, <1>3, PrefixItems

LEMMA PrefixTail ==
  ASSUME NEW S, NEW s \in Seq(S), NEW t \in Seq(S), IsPrefix(s, t), s # <<>>
  PROVE  t # <<>> /\ Head(t) = Head(s) /\ IsPrefix(Tail(s), Tail(t))
<1>1. Len(s) \in Nat /\ Len(t) \in Nat /\ Len(s) # 0
  BY EmptySeq, LenProperties
<1>2. Len(s) <= Len(t) /\ \A i \in 1 .. Len(s) : t[i] = s[i]
  BY PrefixItems
<1>3. t # <<>> /\ Len(t) # 0
  BY <1>1, <1>2, EmptySeq
<1>4. /\ Tail(s) \in Seq(S) /\ Len(Tail(s)) = Len(s) - 1
      /\ \A i \in 1 .. (Len(s) - 1) : Tail(s)[i] = s[i + 1]
      /\ Tail(t) \in Seq(S) /\ Len(Tail(t)) = Len(t) - 1
      /\ \A i \in 1 .. (Len(t) - 1) : Tail(t)[i] = t[i + 1]
  BY <1>1, <1>3, HeadTailProperties
<1>5. \A i \in 1 .. (Len(s) - 1) : Tail(t)[i] = Tail(s)[i]
  <2> TAKE i \in 1 .. (Len(s) - 1)
  <2>1. i \in 1 .. (Len(t) - 1) /\ i + 1 \in 1 .. Len(s)
    BY <1>1, <1>2
  <2> QED BY <1>2, <1>4, <2>1
<1>6. Head(t) = Head(s)
  <2>1. 1 \in 1 .. Len(s) /\ Head(s) = s[1] /\ Head(t) = t[1]
    BY <1>1, <1>3
  <2> QED BY <1>2, <2>1
<1>7. IsPrefix(Tail(s), Tail(t))
  <2> DEFINE p == Tail(s)
             q == Tail(t)
  <2>1. /\ p \in Seq(S) /\ q \in Seq(S) /\ Len(p) <= Len(q)
        /\ \A i \in 1 .. Len(p) : q[i] = p[i]
    BY <1>1, <1>2, <1>4, <1>5
  <2> HIDE DEF p, q
  <2>2. IsPrefix(p, q)
    BY <2>1, PrefixItems
  <2> QED BY <2>2 DEF p, q
<1> QED BY <1>3, <1>6, <1>7

\* append_list_tail puts the item behind all others.
LEMMA AppendItems ==
  ASSUME NEW S, NEW s \in Seq(S), NEW e \in S
  PROVE  /\ Append(s, e) \in Seq(S)
         /\ ToSet(Append(s, e)) = ToSet(s) \cup {e}
         /\ OnceEach(s) /\ e \notin ToSet(s) => OnceEach(Append(s, e))
         /\ IsPrefix(s, Append(s, e))
<1> DEFINE n == Len(s)
           t == Append(s, e)
<1>1. n \in Nat /\ DOMAIN s = 1 .. n
  BY LenProperties
<1>2. /\ t \in Seq(S) /\ Len(t) = n + 1 /\ DOMAIN t = 1 .. (n + 1)
      /\ \A i \in 1 .. n : t[i] = s[i]
      /\ t[n + 1] = e
  BY AppendProperties, LenProperties
<1> HIDE DEF n, t
<1>3. ToSet(t) = ToSet(s) \cup {e}
  <2>1. ASSUME NEW x \in ToSet(t) PROVE x \in ToSet(s) \cup {e}
    <3>1. PICK i \in 1 .. (n + 1) : x = t[i]
      BY <1>2 DEF ToSet
    <3>2. CASE i = n + 1
      BY <3>1, <3>2, <1>2
    <3>3. CASE i # n + 1
      <4>1. i \in 1 .. n
        BY <3>3, <1>1
      <4> QED BY <4>1, <3>1, <1>1, <1>2 DEF ToSet
    <3> QED BY <3>2, <3>3
  <2>2. ASSUME NEW x \in ToSet(s) PROVE x \in ToSet(t)
    <3>1. PICK i \in 1 .. n : x = s[i]
      BY <1>1 DEF ToSet
    <3>2. i \in 1 .. (n + 1) /\ x = t[i]
      BY <1>1, <1>2, <3>1
    <3> QED BY <1>2, <3>2 DEF ToSet
  <2>3. e \in ToSet(t)
    <3>1. n + 1 \in 1 .. (n + 1)
      BY <1>1
    <3> QED BY <3>1, <1>2 DEF ToSet
  <2> QED BY <2>1, <2>2, <2>3
<1>4. ASSUME OnceEach(s), e \notin ToSet(s) PROVE OnceEach(t)
  <2> SUFFICES ASSUME NEW i \in 1 .. (n + 1), NEW j \in 1 .. (n + 1), t[i] = t[j]
               PROVE  i = j
    BY <1>2 DEF OnceEach
  <2>1. \A k \in 1 .. n : t[k] # t[n + 1]
    BY <1>1, <1>2, <1>4 DEF ToSet
  <2>2. CASE i \in 1 .. n /\ j \in 1 .. n
    BY <2>2, <1>1, <1>2, <1>4 DEF OnceEach
  <2>3. CASE i \notin 1 .. n \/ j \notin 1 .. n
    BY <2>1, <2>3, <1>1
  <2> QED BY <2>2, <2>3
<1>5. IsPrefix(s, t)
  BY <1>1, <1>2, PrefixItems DEF n
<1> QED BY <1>2, <1>3, <1>4, <1>5 DEF t

\* Items woken together go behind those that are ready.
LEMMA ConcatItems ==
  ASSUME NEW S, NEW s \in Seq(S), NEW t \in Seq(S)
  PROVE  /\ s \o t \in Seq(S)
         /\ ToSet(s \o t) = ToSet(s) \cup ToSet(t)
         /\ OnceEach(s) /\ OnceEach(t) /\ ToSet(s) \cap ToSet(t) = {} => OnceEach(s \o t)
         /\ IsPrefix(s, s \o t)
<1> DEFINE m == Len(s)
           n == Len(t)
           u == s \o t
<1>1. m \in Nat /\ n \in Nat /\ DOMAIN s = 1 .. m /\ DOMAIN t = 1 .. n
  BY LenProperties
<1>2. /\ u \in Seq(S) /\ Len(u) = m + n /\ DOMAIN u = 1 .. (m + n)
      /\ \A i \in 1 .. (m + n) : u[i] = IF i <= m THEN s[i] ELSE t[i - m]
  BY ConcatProperties, LenProperties
<1> HIDE DEF m, n, u
<1>3. \A i \in 1 .. m : i \in 1 .. (m + n) /\ u[i] = s[i]
  BY <1>1, <1>2
<1>4. \A i \in 1 .. n : m + i \in 1 .. (m + n) /\ u[m + i] = t[i]
  <2> TAKE i \in 1 .. n
  <2>1. m + i \in 1 .. (m + n) /\ ~ (m + i <= m) /\ (m + i) - m = i
    BY <1>1
  <2> QED BY <2>1, <1>2
<1>5. \A i \in 1 .. (m + n) : i \in 1 .. m \/ \E k \in 1 .. n : i = m + k
  <2> TAKE i \in 1 .. (m + n)
  <2>1. CASE i <= m
    BY <2>1, <1>1
  <2>2. CASE ~ (i <= m)
    <3>1. i - m \in 1 .. n /\ i = m + (i - m)
      BY <2>2, <1>1
    <3> QED BY <3>1
  <2> QED BY <2>1, <2>2
<1>6. ToSet(u) = ToSet(s) \cup ToSet(t)
  <2>1. ASSUME NEW x \in ToSet(u) PROVE x \in ToSet(s) \cup ToSet(t)
    <3>1. PICK i \in 1 .. (m + n) : x = u[i]
      BY <1>2 DEF ToSet
    <3>2. CASE i \in 1 .. m
      BY <3>1, <3>2, <1>1, <1>3 DEF ToSet
    <3>3. ASSUME NEW k \in 1 .. n, i = m + k PROVE x \in ToSet(t)
      BY <3>1, <3>3, <1>1, <1>4 DEF ToSet
    <3> QED BY <3>2, <3>3, <1>5
  <2>2. ASSUME NEW x \in ToSet(s) PROVE x \in ToSet(u)
    BY <1>1, <1>2, <1>3 DEF ToSet
  <2>3. ASSUME NEW x \in ToSet(t) PROVE x \in ToSet(u)
    <3>1. PICK i \in 1 .. n : x = t[i]
      BY <1>1 DEF ToSet
    <3> QED BY <3>1, <1>2, <1>4 DEF ToSet
  <2> QED BY <2>1, <2>2, <2>3
<1>7. ASSUME OnceEach(s), OnceEach(t), ToSet(s) \cap ToSet(t) = {} PROVE OnceEach(u)
  <2> SUFFICES ASSUME NEW i \in 1 .. (m + n), NEW j \in 1 .. (m + n), u[i] = u[j]
               PROVE  i = j
    BY <1>2 DEF OnceEach
  <2>1. \A k \in 1 .. m, l \in 1 .. n : s[k] # t[l]
    BY <1>1, <1>7 DEF ToSet
  <2>2. CASE i \in 1 .. m /\ j \in 1 .. m
    BY <2>2, <1>1, <1>3, <1>7 DEF OnceEach
  <2>3. ASSUME NEW k \in 1 .. n, NEW l \in 1 .. n, i = m + k, j = m + l PROVE i = j
    <3>1. t[k] = t[l]
      BY <2>3, <1>4
    <3>2. k = l
      BY <3>1, <1>1, <1>7 DEF OnceEach
    <3> QED BY <2>3, <3>2
  <2>4. ASSUME i \in 1 .. m, NEW l \in 1 .. n, j = m + l PROVE FALSE
    BY <2>1, <2>4, <1>3, <1>4
  <2>5. ASSUME j \in 1 .. m, NEW l \in 1 .. n, i = m + l PROVE FALSE
    BY <2>1, <2>5, <1>3, <1>4
  <2> QED BY <2>2, <2>3, <2>4, <2>5, <1>5
<1>8. IsPrefix(s, u)
  BY <1>1, <1>2, <1>3, PrefixItems DEF m
<1> QED BY <1>2, <1>6, <1>7, <1>8 DEF u

\* The items at some positions and the items at the others part a list.
LEMMA SplitItems ==
  ASSUME NEW S, NEW s \in Seq(S), OnceEach(s), NEW I \in SUBSET DOMAIN s
  PROVE  ToSet(Sublist(s, DOMAIN s \ I)) = ToSet(s) \ ToSet(Sublist(s, I))
<1>1. ToSet(Sublist(s, DOMAIN s \ I)) = {s[i] : i \in DOMAIN s \ I}
  BY SublistProperties
<1>2. ToSet(Sublist(s, I)) = {s[i] : i \in I}
  BY SublistProperties
<1>3. \A i \in DOMAIN s \ I, j \in I : s[i] # s[j]
  BY DEF OnceEach
<1> QED BY <1>1, <1>2, <1>3 DEF ToSet
=============================================================================
