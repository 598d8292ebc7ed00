--------------------------- MODULE HeadListProofs ---------------------------
(***************************************************************************)
(* Proofs about HeadList: that the links and tails of utils/list.c are     *)
(* queues, for every number of lists and items.                            *)
(***************************************************************************)
EXTENDS HeadList, ListOpsProofs

-----------------------------------------------------------------------------
(* A list and its links.                                                   *)

N     == Cardinality(Item)
Links == [List \cup Item -> Item \cup {NULL}]

\* The items of s are linked, from x to NULL.
Linked(nxt, x, s) ==
  /\ x = IF s = <<>> THEN NULL ELSE s[1]
  /\ \A k \in 1 .. Len(s) : nxt[s[k]] = IF k = Len(s) THEN NULL ELSE s[k + 1]

\* A list has each item once, so no more items than there are.
LEMMA ListLength ==
  ASSUME NEW s \in Seq(Item), OnceEach(s)
  PROVE  Len(s) \in Nat /\ N \in Nat /\ Len(s) <= N
<1>1. Len(s) \in Nat /\ DOMAIN s = 1 .. Len(s) /\ s \in [1 .. Len(s) -> Item]
  BY LenProperties
<1>2. s \in Injection(1 .. Len(s), Item)
  BY <1>1 DEF OnceEach, Injection, IsInjective
<1>3. IsFiniteSet(1 .. Len(s)) /\ Cardinality(1 .. Len(s)) = Len(s)
  <2>1. 1 \in Int /\ Len(s) \in Int
    BY <1>1
  <2>2. /\ IsFiniteSet(1 .. Len(s))
        /\ Cardinality(1 .. Len(s)) = IF 1 > Len(s) THEN 0 ELSE Len(s) - 1 + 1
    BY <2>1, FS_Interval
  <2> QED BY <1>1, <2>2
<1>4. IsFiniteSet(Item) /\ N \in Nat
  BY HeadListAssumption, FS_CardinalityType DEF N
<1>5. Cardinality(1 .. Len(s)) <= Cardinality(Item)
  BY <1>2, <1>3, <1>4, FS_Injection
<1> QED BY <1>1, <1>3, <1>4, <1>5 DEF N

\* at[n] is where n links lead from x, and Visited(at) the items on the way.
Walk(x, at) ==
  at = [n \in 0 .. N |-> IF n = 0 THEN x
                         ELSE IF at[n - 1] = NULL THEN NULL ELSE next[at[n - 1]]]
Visited(at) == [k \in 1 .. Cardinality({n \in 0 .. N : at[n] # NULL}) |-> at[k - 1]]

\* From is what any function says that gives the node that so many links lead to.
LEMMA FromIs ==
  ASSUME NEW x, N \in Nat, NEW at, Walk(x, at)
  PROVE  From(x) = Visited(at)
<1> DEFINE node[n \in 0 .. N] ==
             IF n = 0 THEN x ELSE IF node[n - 1] = NULL THEN NULL ELSE next[node[n - 1]]
<1>1. Walk(x, node)
  BY DEF Walk
<1>2. From(x) = Visited(node)
  BY DEF From, N, Visited
<1> HIDE DEF node
<1>3. /\ \A n \in 0 .. N : node[n] = IF n = 0 THEN x
                         ELSE IF node[n - 1] = NULL THEN NULL ELSE next[node[n - 1]]
      /\ \A n \in 0 .. N : at[n] = IF n = 0 THEN x
                         ELSE IF at[n - 1] = NULL THEN NULL ELSE next[at[n - 1]]
  BY <1>1 DEF Walk
<1> DEFINE D == {n \in 0 .. N : node[n] # at[n]}
<1>4. D = {}
  <2> SUFFICES ASSUME D # {} PROVE FALSE
    OBVIOUS
  <2>1. D \in SUBSET Nat
    OBVIOUS
  <2> DEFINE b == Min(D)
  <2>2. b \in D /\ \A n \in D : b <= n
    BY <2>1, MinOfNats
  <2> HIDE DEF b
  <2>3. b \in 0 .. N /\ node[b] # at[b]
    BY <2>2
  <2>4. CASE b = 0
    BY <1>3, <2>3, <2>4
  <2>5. CASE b # 0
    <3>1. b - 1 \in 0 .. N /\ ~ (b <= b - 1)
      BY <2>3, <2>5
    <3>2. node[b - 1] = at[b - 1]
      BY <2>2, <3>1
    <3> QED BY <1>3, <2>3, <2>5, <3>2
  <2> QED BY <2>4, <2>5
<1>5. node = at
  <2>1. \A n \in 0 .. N : node[n] = at[n]
    BY <1>4
  <2>2. node = [n \in 0 .. N |-> node[n]] /\ at = [n \in 0 .. N |-> at[n]]
    BY <1>1 DEF Walk
  <2> QED BY <2>1, <2>2
<1> QED BY <1>2, <1>5

\* From follows the links of a list to its end.
LEMMA LinkedIs ==
  ASSUME NEW x, NEW s \in Seq(Item), OnceEach(s), Linked(next, x, s)
  PROVE  From(x) = s
<1> DEFINE c == Len(s)
           at == [n \in 0 .. N |-> IF n < c THEN s[n + 1] ELSE NULL]
           D == {n \in 0 .. N : at[n] # NULL}
<1>1. c \in Nat /\ N \in Nat /\ c <= N
  BY ListLength
<1>2. s \in [1 .. c -> Item] /\ s = [k \in 1 .. c |-> s[k]]
  BY LenProperties
<1>3. NULL \notin Item
  BY HeadListAssumption
<1>4. s = <<>> => c = 0
  BY EmptySeq
<1>5. s # <<>> => c # 0
  BY EmptySeq
<1>6. x = IF c = 0 THEN NULL ELSE s[1]
  BY <1>4, <1>5 DEF Linked
<1>7. \A k \in 1 .. c : s[k] # NULL /\ next[s[k]] = IF k = c THEN NULL ELSE s[k + 1]
  <2>1. \A k \in 1 .. c : next[s[k]] = IF k = c THEN NULL ELSE s[k + 1]
    BY DEF Linked
  <2> HIDE DEF c
  <2> QED BY <1>2, <1>3, <2>1
<1>8. \A n \in 0 .. N : at[n] = IF n < c THEN s[n + 1] ELSE NULL
  OBVIOUS
<1> HIDE DEF c
<1>9. \A n \in 0 .. N : at[n] = IF n = 0 THEN x
                                ELSE IF at[n - 1] = NULL THEN NULL ELSE next[at[n - 1]]
  <2> TAKE n \in 0 .. N
  <2>1. CASE n = 0
    BY <1>1, <1>6, <1>8, <2>1
  <2>2. CASE n # 0 /\ ~ (n - 1 < c)
    <3>1. n - 1 \in 0 .. N /\ ~ (n < c)
      BY <1>1, <2>2
    <3>2. at[n - 1] = NULL /\ at[n] = NULL
      BY <1>8, <2>2, <3>1
    <3> QED BY <2>2, <3>2
  <2>3. CASE n # 0 /\ n - 1 < c
    <3>1. n - 1 \in 0 .. N /\ n \in 1 .. c /\ (n - 1) + 1 = n /\ (n < c <=> n # c)
      BY <1>1, <2>3
    <3>2. at[n - 1] = s[n] /\ at[n] = IF n = c THEN NULL ELSE s[n + 1]
      BY <1>8, <2>3, <3>1
    <3> HIDE DEF at
    <3> QED BY <1>7, <2>3, <3>1, <3>2
  <2> QED BY <2>1, <2>2, <2>3
<1>10. Walk(x, at)
  <2> DEFINE h == [n \in 0 .. N |-> IF n = 0 THEN x
                                    ELSE IF at[n - 1] = NULL THEN NULL ELSE next[at[n - 1]]]
  <2>1. \A n \in 0 .. N : h[n] = at[n]
    BY <1>9
  <2>2. at = [n \in 0 .. N |-> at[n]] /\ h = [n \in 0 .. N |-> h[n]]
    OBVIOUS
  <2> HIDE DEF at
  <2>3. at = h
    BY <2>1, <2>2
  <2> QED BY <2>3 DEF Walk
<1>11. D = 0 .. c - 1 /\ Cardinality(D) = c
  <2>1. \A n \in 0 .. N : at[n] # NULL <=> n < c
    <3> TAKE n \in 0 .. N
    <3>1. n < c => n + 1 \in 1 .. c
      BY <1>1
    <3> QED BY <1>7, <1>8, <3>1
  <2>2. D = 0 .. c - 1
    BY <1>1, <2>1
  <2>3. 0 \in Int /\ c - 1 \in Int
    BY <1>1
  <2>4. Cardinality(0 .. c - 1) = IF 0 > c - 1 THEN 0 ELSE c - 1 - 0 + 1
    BY <2>3, FS_Interval
  <2>5. Cardinality(0 .. c - 1) = c
    BY <1>1, <2>4
  <2> QED BY <2>2, <2>5
<1>12. From(x) = [k \in 1 .. Cardinality(D) |-> at[k - 1]]
  <2> HIDE DEF at
  <2>1. From(x) = Visited(at)
    BY <1>1, <1>10, FromIs
  <2> QED BY <2>1 DEF Visited
<1>13. \A k \in 1 .. c : at[k - 1] = s[k]
  <2> TAKE k \in 1 .. c
  <2>1. k - 1 \in 0 .. N /\ k - 1 < c /\ (k - 1) + 1 = k
    BY <1>1
  <2> QED BY <1>8, <2>1
<1> HIDE DEF at, D
<1> QED BY <1>2, <1>11, <1>12, <1>13

-----------------------------------------------------------------------------
(* The invariant.                                                          *)

\* The items of list l are s, and its tail is the last of them.
IsQueue(nxt, tl, l, s) ==
  /\ s \in Seq(Item) /\ OnceEach(s) /\ Linked(nxt, nxt[l], s)
  /\ tl[l] = IF s = <<>> THEN NULL ELSE s[Len(s)]

ListsInv ==
  /\ next \in Links /\ tail \in [List -> Item \cup {NULL}] /\ wait \in [Item -> Wait]
  /\ \A l \in List : IsQueue(next, tail, l, Items(l))
  /\ \A l, m \in List : l # m => ToSet(Items(l)) \cap ToSet(Items(m)) = {}

\* The items of a list are known from its links and tail.
LEMMA ItemsAre ==
  \A l \in List : \A s : IsQueue(next, tail, l, s) => Items(l) = s
BY LinkedIs DEF IsQueue, Items

\* ItemsAre, of the state after a step.
LEMMA ItemsAreNext ==
  (\A l \in List : \A s : IsQueue(next, tail, l, s) => Items(l) = s)'
BY ItemsAre, PTL

\* A step that makes the lists q.
LEMMA NextLists ==
  ASSUME next' \in Links, tail' \in [List -> Item \cup {NULL}], wait' \in [Item -> Wait],
         NEW q, \A l \in List : IsQueue(next', tail', l, q[l]),
         \A l, m \in List : l # m => ToSet(q[l]) \cap ToSet(q[m]) = {}
  PROVE  ListsInv' /\ \A l \in List : Items(l)' = q[l]
<1>1. \A l \in List : Items(l)' = q[l]
  BY ItemsAreNext
<1> QED BY <1>1 DEF ListsInv

\* A list stays as it is when no link of its is changed.
LEMMA QueueFrame ==
  ASSUME NEW nxt, NEW tl, NEW nxt2, NEW tl2, NEW l, NEW s, IsQueue(nxt, tl, l, s),
         nxt2[l] = nxt[l], tl2[l] = tl[l], \A y \in ToSet(s) : nxt2[y] = nxt[y]
  PROVE  IsQueue(nxt2, tl2, l, s)
<1>1. s \in Seq(Item) /\ Linked(nxt, nxt[l], s)
  BY DEF IsQueue
<1>2. \A k \in 1 .. Len(s) : s[k] \in ToSet(s)
  BY <1>1 DEF ToSet
<1>3. Linked(nxt2, nxt2[l], s)
  BY <1>1, <1>2 DEF Linked
<1> QED BY <1>3 DEF IsQueue

-----------------------------------------------------------------------------
(* The operations.                                                         *)

\* What the invariant says of one list.
LEMMA ListFacts ==
  ASSUME ListsInv, NEW l \in List
  PROVE  /\ Items(l) \in Seq(Item) /\ OnceEach(Items(l)) /\ Linked(next, next[l], Items(l))
         /\ Len(Items(l)) \in Nat /\ DOMAIN Items(l) = 1 .. Len(Items(l))
         /\ Items(l) \in [1 .. Len(Items(l)) -> Item] /\ l \notin Item
         /\ Items(l) = <<>> <=> Len(Items(l)) = 0
         /\ next[l] = IF Items(l) = <<>> THEN NULL ELSE Items(l)[1]
         /\ tail[l] = IF Items(l) = <<>> THEN NULL ELSE Items(l)[Len(Items(l))]
         /\ is_list_empty(l) <=> Items(l) = <<>>
         /\ ToSet(Items(l)) \in SUBSET Item
<1> DEFINE s == Items(l)
<1>1. s \in Seq(Item) /\ OnceEach(s) /\ Linked(next, next[l], s)
      /\ tail[l] = IF s = <<>> THEN NULL ELSE s[Len(s)]
  BY DEF ListsInv, IsQueue
<1> HIDE DEF s
<1>2. Len(s) \in Nat /\ DOMAIN s = 1 .. Len(s) /\ s \in [1 .. Len(s) -> Item]
  BY <1>1, LenProperties
<1>3. s = <<>> <=> Len(s) = 0
  BY <1>1, EmptySeq
<1>4. next[l] = IF s = <<>> THEN NULL ELSE s[1]
  BY <1>1 DEF Linked
<1>5. s # <<>> => s[1] \in Item /\ s[1] # NULL
  <2>1. s # <<>> => 1 \in 1 .. Len(s)
    BY <1>2, <1>3
  <2> QED BY <1>2, <2>1, HeadListAssumption
<1>6. is_list_empty(l) <=> s = <<>>
  BY <1>4, <1>5 DEF is_list_empty
<1>7. l \notin Item
  BY HeadListAssumption
<1>8. ToSet(s) \in SUBSET Item
  BY <1>2 DEF ToSet
<1> QED BY <1>1, <1>2, <1>3, <1>4, <1>6, <1>7, <1>8 DEF s

\* The other lists: a step that changes next at the head and at the items of l
\* only, or at an item on no list, and the tail of l only.
LEMMA OthersStay ==
  ASSUME ListsInv, NEW l \in List, NEW m \in List \ {l}, NEW nxt, NEW tl, NEW D,
         D \cap ToSet(Items(m)) = {}, m \notin D,
         \A y \in List \cup Item : y \notin D => nxt[y] = next[y], tl[m] = tail[m]
  PROVE  IsQueue(nxt, tl, m, Items(m))
<1>1. IsQueue(next, tail, m, Items(m))
  BY DEF ListsInv
<1>2. ToSet(Items(m)) \in SUBSET Item
  BY ListFacts
<1> QED BY <1>1, <1>2, QueueFrame

\* append_list_tail() puts the item last.
LEMMA AppendDoes ==
  ASSUME ListsInv, NEW l \in List, NEW x \in Item, NEW w \in Wait, append_list_tail(l, x, w)
  PROVE  ListsInv' /\ \A m \in List : Items(m)' = IF m = l THEN Append(Items(l), x) ELSE Items(m)
<1> DEFINE s == Items(l)
           c == Len(s)
           t == Append(s, x)
           D == {l, x} \cup ToSet(s)
           q == [m \in List |-> IF m = l THEN t ELSE Items(m)]
<1>1. /\ s \in Seq(Item) /\ OnceEach(s) /\ Linked(next, next[l], s)
      /\ c \in Nat /\ DOMAIN s = 1 .. c /\ s \in [1 .. c -> Item] /\ l \notin Item
      /\ s = <<>> <=> c = 0
      /\ next[l] = IF s = <<>> THEN NULL ELSE s[1]
      /\ tail[l] = IF s = <<>> THEN NULL ELSE s[c]
      /\ is_list_empty(l) <=> s = <<>>
  BY ListFacts
<1>2. \A m \in List : x \notin ToSet(Items(m))
  BY DEF append_list_tail, OnAList, ToSet
<1>3. /\ next \in Links /\ tail \in [List -> Item \cup {NULL}] /\ wait \in [Item -> Wait]
      /\ wait' = [wait EXCEPT ![x] = w] /\ tail' = [tail EXCEPT ![l] = x]
      /\ next' = AppendLinks(l, x)
  BY DEF ListsInv, append_list_tail
<1>4. \A k \in 1 .. c : s[k] \in ToSet(s) /\ s[k] # x /\ s[k] # l /\ s[k] \in Item
  BY <1>1, <1>2 DEF ToSet
<1>5. /\ t \in Seq(Item) /\ Len(t) = c + 1 /\ t # <<>> /\ t[c + 1] = x
      /\ \A k \in 1 .. c : t[k] = s[k]
      /\ OnceEach(t) /\ ToSet(t) = ToSet(s) \cup {x}
  <2>1. OnceEach(t) /\ ToSet(t) = ToSet(s) \cup {x} /\ t \in Seq(Item)
    BY <1>1, <1>2, AppendItems
  <2>2. Len(t) = c + 1 /\ t[c + 1] = x /\ \A k \in 1 .. c : t[k] = s[k]
    BY <1>1
  <2>3. t # <<>>
    BY <1>1, <2>1, <2>2, EmptySeq
  <2> QED BY <2>1, <2>2, <2>3
<1> HIDE DEF s, c, t
<1>6. /\ next' \in Links /\ next'[x] = NULL
      /\ s = <<>> => next'[l] = x
      /\ s # <<>> => next'[l] = next[l] /\ next'[s[c]] = x
      /\ \A y \in List \cup Item : y \notin {x, l} /\ (s # <<>> => y # s[c]) => next'[y] = next[y]
  <2>1. CASE s = <<>>
    <3>1. next' = [next EXCEPT ![x] = NULL, ![l] = x]
      BY <1>1, <1>3, <2>1 DEF AppendLinks
    <3> QED BY <1>1, <1>3, <2>1, <3>1 DEF Links
  <2>2. CASE s # <<>>
    <3>1. next' = [next EXCEPT ![x] = NULL, ![s[c]] = x]
      BY <1>1, <1>3, <2>2 DEF AppendLinks
    <3>2. c \in 1 .. c
      BY <1>1, <2>2
    <3> QED BY <1>1, <1>3, <1>4, <2>2, <3>1, <3>2 DEF Links
  <2> QED BY <2>1, <2>2
<1>7. tail' \in [List -> Item \cup {NULL}] /\ tail'[l] = x /\ wait' \in [Item -> Wait]
      /\ \A m \in List : m # l => tail'[m] = tail[m]
  BY <1>3
<1>8. IsQueue(next', tail', l, t)
  <2>1. next'[l] = t[1]
    <3>1. CASE s = <<>>
      BY <1>1, <1>5, <1>6, <3>1
    <3>2. CASE s # <<>>
      <4>1. 1 \in 1 .. c
        BY <1>1, <3>2
      <4> QED BY <1>1, <1>5, <1>6, <3>2, <4>1
    <3> QED BY <3>1, <3>2
  <2>2. \A k \in 1 .. c + 1 : next'[t[k]] = IF k = c + 1 THEN NULL ELSE t[k + 1]
    <3> TAKE k \in 1 .. c + 1
    <3>1. CASE k = c + 1
      BY <1>5, <1>6, <3>1
    <3>2. CASE k \in 1 .. c /\ k = c
      BY <1>1, <1>5, <1>6, <3>2
    <3>3. CASE k \in 1 .. c /\ k # c
      <4>1. k + 1 \in 1 .. c /\ c \in 1 .. c /\ k # c + 1 /\ s # <<>>
        BY <1>1, <3>3
      <4>2. s[k] # s[c]
        BY <1>1, <3>3, <4>1 DEF OnceEach
      <4>3. next[s[k]] = s[k + 1]
        BY <1>1, <3>3 DEF Linked, c
      <4>4. next'[s[k]] = next[s[k]]
        BY <1>4, <1>6, <3>3, <4>2
      <4> QED BY <1>5, <3>3, <4>1, <4>3, <4>4
    <3> QED BY <1>1, <3>1, <3>2, <3>3
  <2>3. Linked(next', next'[l], t)
    BY <1>5, <2>1, <2>2 DEF Linked
  <2> QED BY <1>5, <1>7, <2>3 DEF IsQueue
<1>9. \A m \in List : m # l => IsQueue(next', tail', m, Items(m))
  <2> TAKE m \in List
  <2> SUFFICES ASSUME m # l PROVE IsQueue(next', tail', m, Items(m))
    OBVIOUS
  <2>1. ToSet(s) \cap ToSet(Items(m)) = {} /\ ToSet(Items(m)) \in SUBSET Item
    BY ListFacts DEF ListsInv, s
  <2>2. D \cap ToSet(Items(m)) = {} /\ m \notin D
    BY <1>1, <1>2, <1>4, <2>1, HeadListAssumption DEF ToSet
  <2>3. \A y \in List \cup Item : y \notin D => next'[y] = next[y]
    <3>1. s # <<>> => s[c] \in D
      <4>1. s # <<>> => c \in 1 .. c
        BY <1>1
      <4> QED BY <1>4, <4>1
    <3> QED BY <1>6, <3>1
  <2> HIDE DEF D
  <2> QED BY <1>7, <2>2, <2>3, OthersStay
<1>10. /\ \A m \in List : q[m] = IF m = l THEN t ELSE Items(m)
       /\ \A m \in List : IsQueue(next', tail', m, q[m])
       /\ \A m, n \in List : m # n => ToSet(q[m]) \cap ToSet(q[n]) = {}
  <2>1. \A m \in List : q[m] = IF m = l THEN t ELSE Items(m)
    OBVIOUS
  <2> HIDE DEF q
  <2>2. \A m, n \in List : m # n => ToSet(q[m]) \cap ToSet(q[n]) = {}
    BY <1>2, <1>5, <2>1 DEF ListsInv, s
  <2> QED BY <1>8, <1>9, <2>1, <2>2
<1> HIDE DEF q
<1>11. ListsInv' /\ \A m \in List : Items(m)' = q[m]
  BY <1>6, <1>7, <1>10, NextLists
<1> QED BY <1>10, <1>11 DEF t, s

\* Taking the item at position i makes the one before it, or the head of the
\* list, point to the one after it, and the tail too if it was the last.
LEMMA RemoveDoes ==
  ASSUME ListsInv, NEW l \in List, NEW i \in 1 .. Len(Items(l)), NEW t \in Seq(Item),
         Len(t) = Len(Items(l)) - 1,
         \A k \in 1 .. Len(t) : t[k] = IF k < i THEN Items(l)[k] ELSE Items(l)[k + 1],
         next' = [next EXCEPT ![Prev(l, i)] = next[Items(l)[i]]],
         tail' = [tail EXCEPT ![l] = TailAfter(l, Prev(l, i), next[Items(l)[i]])],
         UNCHANGED wait
  PROVE  ListsInv' /\ \A m \in List : Items(m)' = IF m = l THEN t ELSE Items(m)
<1> DEFINE s == Items(l)
           c == Len(s)
           x == s[i]
           prev == Prev(l, i)
           D == {l} \cup ToSet(s)
           q == [m \in List |-> IF m = l THEN t ELSE Items(m)]
<1>1. /\ s \in Seq(Item) /\ OnceEach(s) /\ Linked(next, next[l], s)
      /\ c \in Nat /\ DOMAIN s = 1 .. c /\ s \in [1 .. c -> Item] /\ l \notin Item
      /\ s = <<>> <=> c = 0
      /\ next[l] = IF s = <<>> THEN NULL ELSE s[1]
      /\ tail[l] = IF s = <<>> THEN NULL ELSE s[c]
      /\ ToSet(s) \in SUBSET Item
  BY ListFacts
<1>2. /\ next \in Links /\ tail \in [List -> Item \cup {NULL}] /\ wait \in [Item -> Wait]
  BY DEF ListsInv
<1>3. prev = IF i = 1 THEN l ELSE s[i - 1]
  BY DEF Prev
<1>4. \A k \in 1 .. c : next[s[k]] = IF k = c THEN NULL ELSE s[k + 1]
  BY <1>1 DEF Linked
<1>5. /\ i \in 1 .. c /\ t \in Seq(Item) /\ Len(t) = c - 1
      /\ \A k \in 1 .. c - 1 : t[k] = IF k < i THEN s[k] ELSE s[k + 1]
      /\ next' = [next EXCEPT ![prev] = next[x]]
      /\ tail' = [tail EXCEPT ![l] = TailAfter(l, prev, next[x])]
  OBVIOUS
<1> HIDE DEF s, c, prev
<1>6. \A k \in 1 .. c : s[k] \in Item /\ s[k] \in ToSet(s) /\ s[k] # l /\ s[k] # NULL
  BY <1>1, HeadListAssumption DEF ToSet
<1>7. next[x] = IF i = c THEN NULL ELSE s[i + 1]
  BY <1>4, <1>5
<1> HIDE DEF x
<1>8. next[x] \in Item \cup {NULL} /\ (next[x] = NULL <=> i = c)
  <2>1. i # c => i + 1 \in 1 .. c
    BY <1>1, <1>5
  <2> QED BY <1>6, <1>7, <2>1
<1>9. prev \in List \cup Item /\ prev \in D /\ (prev = l <=> i = 1)
  <2>1. CASE i = 1
    BY <1>3, <2>1
  <2>2. CASE i # 1
    <3>1. i - 1 \in 1 .. c
      BY <1>1, <1>5, <2>2
    <3> QED BY <1>3, <1>6, <2>2, <3>1
  <2> QED BY <2>1, <2>2
<1>10. /\ next' \in Links /\ next'[prev] = next[x]
       /\ \A y \in List \cup Item : y # prev => next'[y] = next[y]
  BY <1>2, <1>5, <1>8, <1>9 DEF Links
<1>11. /\ TailAfter(l, prev, next[x]) = IF i = c THEN (IF i = 1 THEN NULL ELSE s[i - 1]) ELSE s[c]
  <2>1. s # <<>>
    BY <1>1, <1>5
  <2> QED BY <1>1, <1>3, <1>8, <1>9, <2>1 DEF TailAfter
<1>12. /\ tail' \in [List -> Item \cup {NULL}] /\ tail'[l] = TailAfter(l, prev, next[x])
       /\ \A m \in List : m # l => tail'[m] = tail[m]
  <2>1. TailAfter(l, prev, next[x]) \in Item \cup {NULL}
    <3>1. c \in 1 .. c /\ (i # 1 => i - 1 \in 1 .. c)
      BY <1>1, <1>5
    <3> QED BY <1>6, <1>11, <3>1
  <2> QED BY <1>2, <1>5, <2>1
<1>13. t = <<>> <=> c = 1
  <2>1. t = <<>> <=> Len(t) = 0
    BY EmptySeq
  <2> QED BY <1>1, <1>5, <2>1
<1>14. \A k \in 1 .. c - 1 : /\ k \in 1 .. c /\ k + 1 \in 1 .. c
                             /\ \E j \in 1 .. c : t[k] = s[j] /\ j = IF k < i THEN k ELSE k + 1
  BY <1>1, <1>5
<1>15. OnceEach(t) /\ ToSet(t) \in SUBSET ToSet(s)
  <2>1. DOMAIN t = 1 .. c - 1
    BY <1>5, LenProperties
  <2>2. ToSet(t) \in SUBSET ToSet(s)
    BY <1>6, <1>14, <2>1 DEF ToSet
  <2>3. OnceEach(t)
    <3> SUFFICES ASSUME NEW j \in 1 .. c - 1, NEW k \in 1 .. c - 1, t[j] = t[k] PROVE j = k
      BY <2>1 DEF OnceEach
    <3>1. (IF j < i THEN j ELSE j + 1) = (IF k < i THEN k ELSE k + 1)
      BY <1>1, <1>14 DEF OnceEach
    <3> QED BY <1>1, <1>5, <3>1
  <2> QED BY <2>2, <2>3
<1>16. IsQueue(next', tail', l, t)
  <2>1. next'[l] = IF t = <<>> THEN NULL ELSE t[1]
    <3>1. CASE i = 1
      <4>1. next'[l] = IF c = 1 THEN NULL ELSE s[2]
        BY <1>7, <1>9, <1>10, <3>1
      <4>2. c # 1 => 1 \in 1 .. c - 1
        BY <1>1, <1>5
      <4> QED BY <1>5, <1>13, <3>1, <4>1, <4>2
    <3>2. CASE i # 1
      <4>1. next'[l] = next[l] /\ s # <<>> /\ c # 1 /\ 1 < i /\ 1 \in 1 .. c - 1
        BY <1>1, <1>5, <1>9, <1>10, <3>2
      <4> QED BY <1>1, <1>5, <1>13, <4>1
    <3> QED BY <3>1, <3>2
  <2>2. \A k \in 1 .. c - 1 : next'[t[k]] = IF k = c - 1 THEN NULL ELSE t[k + 1]
    <3> TAKE k \in 1 .. c - 1
    <3>1. CASE k + 1 = i
      <4>1. t[k] = s[i - 1] /\ prev = s[i - 1]
        BY <1>1, <1>3, <1>5, <3>1
      <4>2. next'[t[k]] = IF i = c THEN NULL ELSE s[i + 1]
        BY <1>7, <1>10, <4>1
      <4>3. i # c => k + 1 \in 1 .. c - 1 /\ t[k + 1] = s[i + 1]
        BY <1>1, <1>5, <3>1
      <4>4. i = c <=> k = c - 1
        BY <1>1, <3>1
      <4> QED BY <4>2, <4>3, <4>4
    <3>2. CASE k + 1 # i
      <4> DEFINE j == IF k < i THEN k ELSE k + 1
      <4>1. j \in 1 .. c /\ t[k] = s[j]
        BY <1>5, <1>14
      <4>2. s[j] # prev
        <5>1. i # 1 => i - 1 \in 1 .. c /\ i - 1 # j
          BY <1>1, <1>5, <3>2
        <5> HIDE DEF j
        <5> QED BY <1>1, <1>3, <1>6, <4>1, <5>1 DEF OnceEach
      <4>3. next'[t[k]] = IF j = c THEN NULL ELSE s[j + 1]
        <5> HIDE DEF j
        <5>1. s[j] \in Item
          BY <1>6, <4>1
        <5> QED BY <1>4, <1>10, <4>1, <4>2, <5>1
      <4>4. j = c <=> k = c - 1
        BY <1>1, <1>5, <3>2
      <4>5. k # c - 1 => k + 1 \in 1 .. c - 1 /\ t[k + 1] = s[j + 1]
        BY <1>1, <1>5, <3>2
      <4> HIDE DEF j
      <4> QED BY <4>3, <4>4, <4>5
    <3> QED BY <3>1, <3>2
  <2>3. Linked(next', next'[l], t)
    BY <1>5, <2>1, <2>2 DEF Linked
  <2>4. tail'[l] = IF t = <<>> THEN NULL ELSE t[c - 1]
    <3>1. CASE c = 1
      BY <1>5, <1>11, <1>12, <1>13, <3>1
    <3>2. CASE c # 1
      <4>1. c - 1 \in 1 .. c - 1 /\ (i = c => c - 1 < i /\ i - 1 = c - 1) /\ (c - 1) + 1 = c
            /\ (i # c => ~ (c - 1 < i))
        BY <1>1, <1>5, <3>2
      <4>2. i = c => i # 1 /\ t[c - 1] = s[i - 1]
        BY <1>5, <3>2, <4>1
      <4>3. i # c => t[c - 1] = s[c]
        BY <1>5, <4>1
      <4> QED BY <1>11, <1>12, <1>13, <3>2, <4>2, <4>3
    <3> QED BY <3>1, <3>2
  <2> QED BY <1>5, <1>15, <2>3, <2>4 DEF IsQueue
<1>17. \A m \in List : m # l => IsQueue(next', tail', m, Items(m))
  <2> TAKE m \in List
  <2> SUFFICES ASSUME m # l PROVE IsQueue(next', tail', m, Items(m))
    OBVIOUS
  <2>1. ToSet(s) \cap ToSet(Items(m)) = {} /\ ToSet(Items(m)) \in SUBSET Item
    BY ListFacts DEF ListsInv, s
  <2>2. D \cap ToSet(Items(m)) = {} /\ m \notin D
    BY <1>1, <2>1, HeadListAssumption
  <2>3. \A y \in List \cup Item : y \notin D => next'[y] = next[y]
    BY <1>9, <1>10
  <2> HIDE DEF D
  <2> QED BY <1>12, <2>2, <2>3, OthersStay
<1>18. /\ \A m \in List : q[m] = IF m = l THEN t ELSE Items(m)
       /\ \A m \in List : IsQueue(next', tail', m, q[m])
       /\ \A m, n \in List : m # n => ToSet(q[m]) \cap ToSet(q[n]) = {}
  <2>1. \A m \in List : q[m] = IF m = l THEN t ELSE Items(m)
    OBVIOUS
  <2> HIDE DEF q
  <2>2. \A m, n \in List : m # n => ToSet(q[m]) \cap ToSet(q[n]) = {}
    BY <1>15, <2>1 DEF ListsInv, s
  <2> QED BY <1>16, <1>17, <2>1, <2>2
<1> HIDE DEF q
<1>19. wait' \in [Item -> Wait]
  BY <1>2
<1>20. ListsInv' /\ \A m \in List : Items(m)' = q[m]
  BY <1>10, <1>12, <1>18, <1>19, NextLists
<1> QED BY <1>18, <1>20 DEF s

\* A remove_list() or remove_list_head() that finds nothing.
LEMMA NothingRemoved ==
  ASSUME ListsInv, UNCHANGED <<next, tail, wait>>
  PROVE  ListsInv' /\ \A m \in List : Items(m)' = Items(m)
<1> DEFINE q == [m \in List |-> Items(m)]
<1>1. \A m \in List : q[m] = Items(m)
  OBVIOUS
<1> HIDE DEF q
<1>2. /\ \A m \in List : IsQueue(next', tail', m, q[m])
      /\ \A m, n \in List : m # n => ToSet(q[m]) \cap ToSet(q[n]) = {}
      /\ next' \in Links /\ tail' \in [List -> Item \cup {NULL}] /\ wait' \in [Item -> Wait]
  BY <1>1 DEF ListsInv
<1>3. ListsInv' /\ \A m \in List : Items(m)' = q[m]
  BY <1>2, NextLists
<1> QED BY <1>1, <1>3

\* remove_list_head() takes the first item.
LEMMA HeadDoes ==
  ASSUME ListsInv, NEW l \in List, remove_list_head(l)
  PROVE  /\ ListsInv'
         /\ \A m \in List : Items(m)' = IF m = l /\ Items(l) # <<>> THEN Tail(Items(l)) ELSE Items(m)
         /\ returned' = IF Items(l) = <<>> THEN NULL ELSE Head(Items(l))
<1> DEFINE s == Items(l)
<1>1. /\ s \in Seq(Item) /\ Len(s) \in Nat /\ DOMAIN s = 1 .. Len(s)
      /\ s = <<>> <=> Len(s) = 0
      /\ next[l] = IF s = <<>> THEN NULL ELSE s[1]
      /\ is_list_empty(l) <=> s = <<>>
  BY ListFacts
<1>2. CASE s = <<>>
  BY <1>1, <1>2, NothingRemoved DEF remove_list_head
<1>3. CASE s # <<>>
  <2> DEFINE t == Tail(s)
  <2>1. /\ returned' = s[1] /\ next' = [next EXCEPT ![l] = next[s[1]]]
        /\ tail' = [tail EXCEPT ![l] = IF next[s[1]] = NULL THEN NULL ELSE tail[l]]
        /\ UNCHANGED wait
    BY <1>1, <1>3 DEF remove_list_head
  <2>2. /\ t \in Seq(Item) /\ Len(t) = Len(s) - 1 /\ Head(s) = s[1]
        /\ \A k \in 1 .. Len(t) : t[k] = s[k + 1] /\ ~ (k < 1)
    BY <1>1, <1>3, HeadTailProperties
  <2>3. 1 \in 1 .. Len(s)
    BY <1>1, <1>3
  <2>4. Prev(l, 1) = l /\ TailAfter(l, l, next[s[1]]) = IF next[s[1]] = NULL THEN NULL ELSE tail[l]
    BY DEF Prev, TailAfter
  <2>5. /\ next' = [next EXCEPT ![Prev(l, 1)] = next[s[1]]]
        /\ tail' = [tail EXCEPT ![l] = TailAfter(l, Prev(l, 1), next[s[1]])]
        /\ \A k \in 1 .. Len(t) : t[k] = IF k < 1 THEN s[k] ELSE s[k + 1]
    BY <2>1, <2>2, <2>4
  <2> DEFINE i == 1
  <2>6. /\ i \in 1 .. Len(s) /\ next' = [next EXCEPT ![Prev(l, i)] = next[s[i]]]
        /\ tail' = [tail EXCEPT ![l] = TailAfter(l, Prev(l, i), next[s[i]])]
        /\ \A k \in 1 .. Len(t) : t[k] = IF k < i THEN s[k] ELSE s[k + 1]
        /\ t \in Seq(Item) /\ Len(t) = Len(s) - 1 /\ wait' = wait
    BY <2>1, <2>2, <2>3, <2>5
  <2> HIDE DEF t, s, i
  <2>7. ListsInv' /\ \A m \in List : Items(m)' = IF m = l THEN t ELSE Items(m)
    BY <2>6, RemoveDoes DEF s
  <2> QED BY <1>3, <2>1, <2>2, <2>7 DEF s, t
<1> QED BY <1>2, <1>3

\* remove_list() takes the first item with the wait field asked for.
LEMMA MatchDoes ==
  ASSUME ListsInv, NEW l \in List, NEW w \in Wait, remove_list(l, w),
         NEW I, I = Matches(Items(l), wait, w)
  PROVE  /\ ListsInv' /\ UNCHANGED wait
         /\ I = {} => returned' = NULL /\ \A m \in List : Items(m)' = Items(m)
         /\ I # {} =>
              /\ Min(I) \in DOMAIN Items(l) /\ returned' = Items(l)[Min(I)]
              /\ \A m \in List : Items(m)' = IF m = l THEN Unlink(Items(l), Min(I)) ELSE Items(m)
<1> DEFINE s == Items(l)
           k == First(l, w)
<1>1. /\ s \in Seq(Item) /\ Len(s) \in Nat /\ DOMAIN s = 1 .. Len(s)
  BY ListFacts
<1>2. k = IF I = {} THEN 0 ELSE Min(I)
  BY DEF First, Matches, Min
<1>3. UNCHANGED wait
  BY DEF remove_list
<1> HIDE DEF s, k
<1>4. CASE I = {}
  <2>1. returned' = NULL /\ UNCHANGED <<next, tail>>
    BY <1>2, <1>4 DEF remove_list, k
  <2> QED BY <1>3, <1>4, <2>1, NothingRemoved
<1>5. CASE I # {}
  <2> DEFINE t == Unlink(s, k)
  <2>1. k = Min(I) /\ k \in DOMAIN s
    <3>1. I \in SUBSET DOMAIN s
      BY DEF Matches, s
    <3>2. I \in SUBSET Nat
      BY <1>1, <3>1
    <3> QED BY <1>2, <1>5, <3>1, <3>2, MinOfNats
  <2>2. k # 0 /\ k \in 1 .. Len(s)
    BY <1>1, <2>1
  <2>3. /\ returned' = s[k] /\ next' = [next EXCEPT ![Prev(l, k)] = next[s[k]]]
        /\ tail' = [tail EXCEPT ![l] = TailAfter(l, Prev(l, k), next[s[k]])]
    BY <2>2 DEF remove_list, s, k
  <2>4. /\ t \in Seq(Item) /\ Len(t) = Len(s) - 1
        /\ \A j \in 1 .. Len(t) : t[j] = IF j < k THEN s[j] ELSE s[j + 1]
    <3>1. /\ t = [j \in 1 .. Len(s) - 1 |-> IF j < k THEN s[j] ELSE s[j + 1]]
          /\ t \in Seq(Item) /\ Len(t) = Len(s) - 1
      BY <1>1, <2>1, UnlinkIs
    <3> HIDE DEF t
    <3> QED BY <3>1
  <2> HIDE DEF t
  <2>5. ListsInv' /\ \A m \in List : Items(m)' = IF m = l THEN t ELSE Items(m)
    BY <1>3, <2>2, <2>3, <2>4, RemoveDoes DEF s
  <2> QED BY <1>3, <1>5, <2>1, <2>3, <2>5 DEF s, t
<1> QED BY <1>4, <1>5

-----------------------------------------------------------------------------
(* The invariant holds.                                                    *)

\* A loaded kernel's lists are empty.
LEMMA InitDoes ==
  Init => ListsInv /\ \A l \in List : Items(l) = <<>>
<1> SUFFICES ASSUME Init PROVE ListsInv /\ \A l \in List : Items(l) = <<>>
  OBVIOUS
<1>1. /\ next \in Links /\ tail \in [List -> Item \cup {NULL}] /\ wait \in [Item -> Wait]
      /\ \A l \in List : next[l] = NULL /\ tail[l] = NULL
  BY DEF Init, Links
<1>2. <<>> \in Seq(Item) /\ Len(<<>>) = 0 /\ DOMAIN <<>> = {} /\ OnceEach(<<>>)
  BY DEF OnceEach
<1>3. \A l \in List : IsQueue(next, tail, l, <<>>)
  <2> TAKE l \in List
  <2>1. Linked(next, next[l], <<>>)
    BY <1>1, <1>2 DEF Linked
  <2> QED BY <1>1, <1>2, <2>1 DEF IsQueue
<1>4. \A l \in List : Items(l) = <<>>
  BY <1>3, ItemsAre
<1>5. ToSet(<<>>) = {}
  BY <1>2 DEF ToSet
<1> QED BY <1>1, <1>3, <1>4, <1>5 DEF ListsInv

\* Every operation keeps the invariant.
LEMMA StepKeeps ==
  ListsInv /\ [Next]_listVars => ListsInv'
<1> SUFFICES ASSUME ListsInv, [Next]_listVars PROVE ListsInv'
  OBVIOUS
<1>1. ASSUME NEW l \in List, NEW x \in Item, NEW w \in Wait, append_list_tail(l, x, w)
      PROVE  ListsInv'
  BY <1>1, AppendDoes
<1>2. ASSUME NEW l \in List, remove_list_head(l)
      PROVE  ListsInv'
  BY <1>2, HeadDoes
<1>3. ASSUME NEW l \in List, NEW w \in Wait, remove_list(l, w)
      PROVE  ListsInv'
  BY <1>3, MatchDoes
<1>4. CASE UNCHANGED listVars
  BY <1>4, NothingRemoved DEF listVars
<1> QED BY <1>1, <1>2, <1>3, <1>4 DEF Next

\* The links of every list lead from its head through different items to NULL,
\* its tail is the last of them, and no item is on two lists.
THEOREM ListsInvariant == Spec => []ListsInv
<1>1. Init => ListsInv
  BY InitDoes
<1> QED BY <1>1, StepKeeps, PTL DEF Spec

\* append_list_tail() hangs the new item on the last one and remove_list() sets
\* the tail back when it takes the last: tail is never an item that has left.
THEOREM TailsAreLast == Spec => []TailIsLast
<1>1. ListsInv => TailIsLast
  <2> SUFFICES ASSUME ListsInv, NEW l \in List, Items(l) # <<>>
               PROVE  next[tail[l]] = NULL
    BY ListFacts DEF TailIsLast
  <2>1. Len(Items(l)) \in 1 .. Len(Items(l)) /\ tail[l] = Items(l)[Len(Items(l))]
    BY ListFacts
  <2> QED BY <2>1, ListFacts DEF Linked
<1> QED BY <1>1, ListsInvariant, PTL

-----------------------------------------------------------------------------
(* HeadList implements ListQueues.                                         *)

\* The queues that links and tails stand for.
Queues == [l \in List |-> Items(l)]

\* The queues after a step that makes list l the sequence s.
LEMMA QueuesNext ==
  ASSUME NEW l \in List, NEW s, \A m \in List : Items(m)' = IF m = l THEN s ELSE Items(m)
  PROVE  Queues' = [Queues EXCEPT ![l] = s] /\ Queues[l] = Items(l)
BY DEF Queues

\* The operators of ListOps, under their two names.
LEMMA SameMatches ==
  \A s, v, w : Abstract!Matches(s, v, w) = Matches(s, v, w)
BY DEF Matches, Abstract!Matches

\* The least position, under its two names.
LEMMA SameMin == \A S : Abstract!Min(S) = Min(S)
BY DEF Min, Abstract!Min

\* A list without an item, under its two names.
LEMMA SameUnlink == \A s, i : Abstract!Unlink(s, i) = Unlink(s, i)
BY DEF Unlink, Abstract!Unlink, Sublist, Abstract!Sublist, Rank, Abstract!Rank,
       Cardinality, Abstract!Cardinality

\* Each operation on the links is the operation on the queues.
LEMMA AppendIsAppended ==
  ASSUME ListsInv, NEW l \in List, NEW x \in Item, NEW w \in Wait, append_list_tail(l, x, w)
  PROVE  Abstract!Appended(l, x, w)
<1>1. ~ Abstract!Queued(x)
  <2>1. \A m \in List : Queues[m] = Items(m) /\ DOMAIN Items(m) = 1 .. Len(Items(m))
    BY ListFacts DEF Queues
  <2>2. \A m \in List : ~ Abstract!Contains(Queues[m], x)
    BY <2>1 DEF append_list_tail, OnAList, Abstract!Contains
  <2> QED BY <2>2 DEF Abstract!Queued, Queues
<1>2. Queues' = [Queues EXCEPT ![l] = Append(Queues[l], x)]
  <2> DEFINE s == Append(Items(l), x)
  <2>1. \A m \in List : Items(m)' = IF m = l THEN s ELSE Items(m)
    BY AppendDoes
  <2> HIDE DEF s
  <2>2. Queues' = [Queues EXCEPT ![l] = s] /\ Queues[l] = Items(l)
    BY <2>1, QueuesNext
  <2> QED BY <2>2 DEF s
<1> QED BY <1>1, <1>2 DEF append_list_tail, Abstract!Appended, Queues

\* remove_list_head() is HeadTaken.
LEMMA HeadIsHeadTaken ==
  ASSUME ListsInv, NEW l \in List, remove_list_head(l)
  PROVE  Abstract!HeadTaken(l)
<1> DEFINE s == IF Items(l) = <<>> THEN Items(l) ELSE Tail(Items(l))
<1>1. /\ \A m \in List : Items(m)' = IF m = l THEN s ELSE Items(m)
      /\ returned' = IF Items(l) = <<>> THEN NULL ELSE Head(Items(l))
  BY HeadDoes
<1> HIDE DEF s
<1>2. Queues' = [Queues EXCEPT ![l] = s] /\ Queues[l] = Items(l)
  BY <1>1, QueuesNext
<1>3. UNCHANGED wait
  BY DEF remove_list_head
<1> QED BY <1>1, <1>2, <1>3 DEF Abstract!HeadTaken, Queues, s

\* remove_list() is MatchTaken.
LEMMA MatchIsMatchTaken ==
  ASSUME ListsInv, NEW l \in List, NEW w \in Wait, remove_list(l, w)
  PROVE  Abstract!MatchTaken(l, w)
<1> DEFINE I == Matches(Items(l), wait, w)
           s == IF I = {} THEN Items(l) ELSE Unlink(Items(l), Min(I))
<1>1. /\ UNCHANGED wait
      /\ returned' = IF I = {} THEN NULL ELSE Items(l)[Min(I)]
      /\ \A m \in List : Items(m)' = IF m = l THEN s ELSE Items(m)
  BY MatchDoes
<1>2. I = Abstract!Matches(Queues[l], wait, w) /\ Queues[l] = Items(l)
  BY SameMatches DEF Queues
<1>3. s = IF I = {} THEN Items(l) ELSE Abstract!Unlink(Items(l), Abstract!Min(I))
  BY SameUnlink, SameMin
<1>4. Min(I) = Abstract!Min(I)
  BY SameMin
<1> HIDE DEF I, s
<1>5. Queues' = [Queues EXCEPT ![l] = s]
  BY <1>1, QueuesNext
<1>6. Queues' = IF I = {} THEN Queues
                ELSE [Queues EXCEPT ![l] = Abstract!Unlink(Queues[l], Abstract!Min(I))]
  <2>1. Queues = [m \in List |-> Queues[m]]
    BY DEF Queues
  <2> QED BY <1>2, <1>3, <1>5, <2>1
<1> QED BY <1>1, <1>2, <1>4, <1>6 DEF Abstract!MatchTaken, Queues

\* The links and tails of utils/list.c are the queues the scheduler is built
\* from: whatever stale links items carry, nothing is lost, repeated, reordered
\* or moved to another list, and what an operation returns is what it took.
THEOREM ListsAreQueues == Spec => IsListQueues
<1>1. Init => Abstract!Init
  BY InitDoes DEF Init, Abstract!Init
<1>2. ListsInv /\ [Next]_listVars => [Abstract!Next]_Abstract!queueVars
  <2> SUFFICES ASSUME ListsInv, [Next]_listVars PROVE [Abstract!Next]_Abstract!queueVars
    OBVIOUS
  <2>1. ASSUME NEW l \in List, NEW x \in Item, NEW w \in Wait, append_list_tail(l, x, w)
        PROVE  Abstract!Next
    BY <2>1, AppendIsAppended DEF Abstract!Next
  <2>2. ASSUME NEW l \in List, remove_list_head(l)
        PROVE  Abstract!Next
    BY <2>2, HeadIsHeadTaken DEF Abstract!Next
  <2>3. ASSUME NEW l \in List, NEW w \in Wait, remove_list(l, w)
        PROVE  Abstract!Next
    BY <2>3, MatchIsMatchTaken DEF Abstract!Next
  <2>4. CASE UNCHANGED listVars
    <3>1. \A l \in List : Items(l)' = Items(l)
      BY <2>4, NothingRemoved DEF listVars
    <3> QED BY <2>4, <3>1 DEF Abstract!queueVars, listVars
  <2> QED BY <2>1, <2>2, <2>3, <2>4 DEF Next
<1> QED BY <1>1, <1>2, ListsInvariant, PTL DEF Spec, IsListQueues, Abstract!Spec
=============================================================================
