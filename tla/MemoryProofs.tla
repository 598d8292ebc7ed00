---------------------------- MODULE MemoryProofs ----------------------------
(***************************************************************************)
(* Proofs about Memory: that no page is shared and none is lost, for every *)
(* number of processes and every heap, whichever allocation fails.         *)
(***************************************************************************)
EXTENDS Memory, ListOpsProofs

-----------------------------------------------------------------------------
(* The free list.  It is a stack: counted from its end, kfree() adds the   *)
(* page at the highest place and kalloc() takes that one again.            *)

\* The c pages at[1] .. at[c] are linked, the last of them, at[1], to NULL.
Chain(n, w, at, c) ==
  /\ c \in Nat /\ at \in [0 .. c -> Pages(n) \cup {NULL}]
  /\ at[0] = NULL
  /\ \A k \in 1 .. c : at[k] # NULL /\ w[at[k]][0].page = at[k - 1]
  /\ \A j, k \in 0 .. c : at[j] = at[k] => j = k

\* F is the set of the pages on the free list that starts at free.
FreeList(n, free, w, F) ==
  \E c \in Nat : \E at \in [0 .. c -> Pages(n) \cup {NULL}] :
    Chain(n, w, at, c) /\ at[c] = free /\ F = {at[k] : k \in 1 .. c}

\* A valid entry has the address of a page.
Sound(n) == {x \in Word(n) : x.v => x.page \in Pages(n)}
Words(n) == [Pages(n) -> [Slots -> Sound(n)]]

Memories(n) ==
  [free : Pages(n) \cup {NULL}, word : Words(n), addr : Pages(n) \cup {NULL}, failed : BOOLEAN]

\* A memory of n pages of which the pages in F are free.
Good(n, m, F) ==
  /\ m \in Memories(n)
  /\ F \in SUBSET Pages(n)
  /\ FreeList(n, m.free, m.word, F)

\* The pages outside S hold what they held.
SameOutside(n, w, v, S) == \A p \in Pages(n) \ S : v[p] = w[p]

\* The free list is in the free pages: writing to others does not change it.
LEMMA FreeListFrame ==
  ASSUME NEW n \in Nat, NEW free, NEW w, NEW v, NEW F,
         FreeList(n, free, w, F), \A p \in F : v[p] = w[p]
  PROVE  FreeList(n, free, v, F)
<1>0. PICK c \in Nat : \E at \in [0 .. c -> Pages(n) \cup {NULL}] :
        Chain(n, w, at, c) /\ at[c] = free /\ F = {at[k] : k \in 1 .. c}
  BY DEF FreeList
<1>1. PICK at \in [0 .. c -> Pages(n) \cup {NULL}] :
        Chain(n, w, at, c) /\ at[c] = free /\ F = {at[k] : k \in 1 .. c}
  BY <1>0
<1>2. Chain(n, v, at, c)
  <2>1. \A k \in 1 .. c : at[k] \in F
    BY <1>1
  <2> QED BY <1>1, <2>1 DEF Chain
<1> QED BY <1>1, <1>2 DEF FreeList

\* The list is empty when its head is NULL, and then only.
LEMMA FreeListEmpty ==
  ASSUME NEW n \in Nat, NEW free, NEW w, NEW F, FreeList(n, free, w, F)
  PROVE  /\ F \in SUBSET Pages(n)
         /\ free = NULL => F = {}
         /\ free # NULL => free \in F
<1>0. PICK c \in Nat : \E at \in [0 .. c -> Pages(n) \cup {NULL}] :
        Chain(n, w, at, c) /\ at[c] = free /\ F = {at[k] : k \in 1 .. c}
  BY DEF FreeList
<1>1. PICK at \in [0 .. c -> Pages(n) \cup {NULL}] :
        Chain(n, w, at, c) /\ at[c] = free /\ F = {at[k] : k \in 1 .. c}
  BY <1>0
<1>2. \A k \in 1 .. c : at[k] \in Pages(n)
  <2> TAKE k \in 1 .. c
  <2>1. k \in 0 .. c /\ at[k] # NULL
    BY <1>1 DEF Chain
  <2> QED BY <2>1
<1>3. free = NULL => c = 0
  BY <1>1 DEF Chain
<1>4. free # NULL => c \in 1 .. c
  BY <1>1 DEF Chain
<1> QED BY <1>1, <1>2, <1>3, <1>4

\* kalloc() leaves the list without its head.
LEMMA FreeListPop ==
  ASSUME NEW n \in Nat, NEW free, NEW w, NEW F, FreeList(n, free, w, F), free # NULL
  PROVE  /\ FreeList(n, w[free][0].page, w, F \ {free})
         /\ w[free][0].page \in Pages(n) \cup {NULL}
<1>0. PICK c \in Nat : \E at \in [0 .. c -> Pages(n) \cup {NULL}] :
        Chain(n, w, at, c) /\ at[c] = free /\ F = {at[k] : k \in 1 .. c}
  BY DEF FreeList
<1>1. PICK at \in [0 .. c -> Pages(n) \cup {NULL}] :
        Chain(n, w, at, c) /\ at[c] = free /\ F = {at[k] : k \in 1 .. c}
  BY <1>0
<1>2. c # 0 /\ c - 1 \in Nat /\ 1 .. c - 1 \subseteq 1 .. c /\ 0 .. c - 1 \subseteq 0 .. c
  BY <1>1 DEF Chain
<1> DEFINE b == [k \in 0 .. c - 1 |-> at[k]]
<1>3. b \in [0 .. c - 1 -> Pages(n) \cup {NULL}]
  BY <1>2
<1>4. Chain(n, w, b, c - 1)
  <2>1. b[0] = NULL
    BY <1>1, <1>2 DEF Chain
  <2>2. \A k \in 1 .. c - 1 : b[k] = at[k] /\ b[k - 1] = at[k - 1]
    BY <1>2
  <2>3. \A k \in 1 .. c - 1 : b[k] # NULL /\ w[b[k]][0].page = b[k - 1]
    BY <1>1, <1>2, <2>2 DEF Chain
  <2>4. \A j, k \in 0 .. c - 1 : b[j] = b[k] => j = k
    BY <1>1, <1>2 DEF Chain
  <2> QED BY <1>2, <1>3, <2>1, <2>3, <2>4 DEF Chain
<1>5. b[c - 1] = w[free][0].page
  <2>1. c \in 1 .. c /\ c - 1 \in 0 .. c - 1
    BY <1>2
  <2> QED BY <1>1, <2>1 DEF Chain
<1>6. F \ {free} = {b[k] : k \in 1 .. c - 1}
  <2>1. \A k \in 1 .. c : at[k] = free => k = c
    BY <1>1 DEF Chain
  <2>2. \A k \in 1 .. c - 1 : k \in 1 .. c /\ k # c /\ b[k] = at[k]
    BY <1>2
  <2>3. \A k \in 1 .. c : k # c => k \in 1 .. c - 1
    BY <1>2
  <2> HIDE DEF b
  <2> QED BY <1>1, <2>1, <2>2, <2>3
<1>7. w[free][0].page \in Pages(n) \cup {NULL}
  BY <1>2, <1>3, <1>5
<1> HIDE DEF b
<1> QED BY <1>2, <1>3, <1>4, <1>5, <1>6, <1>7 DEF FreeList

\* kfree() puts a page that is not on the list before its head.
LEMMA FreeListPush ==
  ASSUME NEW n \in Nat, NEW free, NEW w, NEW F, FreeList(n, free, w, F),
         NEW p \in Pages(n), p \notin F, w[p][0].page = free
  PROVE  FreeList(n, p, w, F \cup {p})
<1>0. PICK c \in Nat : \E at \in [0 .. c -> Pages(n) \cup {NULL}] :
        Chain(n, w, at, c) /\ at[c] = free /\ F = {at[k] : k \in 1 .. c}
  BY DEF FreeList
<1>1. PICK at \in [0 .. c -> Pages(n) \cup {NULL}] :
        Chain(n, w, at, c) /\ at[c] = free /\ F = {at[k] : k \in 1 .. c}
  BY <1>0
<1> DEFINE b == [k \in 0 .. c + 1 |-> IF k = c + 1 THEN p ELSE at[k]]
<1>2. b \in [0 .. c + 1 -> Pages(n) \cup {NULL}] /\ c + 1 \in Nat
  OBVIOUS
<1>3. p # NULL
  BY DEF Pages, NULL
<1>4. /\ b[c + 1] = p
      /\ \A k \in 0 .. c : b[k] = at[k]
      /\ \A k \in 0 .. c + 1 : k = c + 1 \/ k \in 0 .. c
      /\ \A k \in 1 .. c + 1 : k = c + 1 \/ k \in 1 .. c
  OBVIOUS
<1>5. \A k \in 0 .. c : at[k] # p
  <2>1. \A k \in 0 .. c : k = 0 \/ k \in 1 .. c
    OBVIOUS
  <2> QED BY <1>1, <1>3, <2>1 DEF Chain
<1>6. Chain(n, w, b, c + 1)
  <2>1. b[0] = NULL
    BY <1>1, <1>4 DEF Chain
  <2>2. \A k \in 1 .. c + 1 : b[k] # NULL /\ w[b[k]][0].page = b[k - 1]
    <3> TAKE k \in 1 .. c + 1
    <3>1. CASE k = c + 1
      <4>1. k - 1 = c /\ c \in 0 .. c
        BY <3>1
      <4> QED BY <1>1, <1>3, <1>4, <3>1, <4>1
    <3>2. CASE k \in 1 .. c
      <4>1. k - 1 \in 0 .. c /\ k \in 0 .. c
        BY <3>2
      <4> QED BY <1>1, <1>4, <3>2, <4>1 DEF Chain
    <3> QED BY <1>4, <3>1, <3>2
  <2>3. \A j, k \in 0 .. c + 1 : b[j] = b[k] => j = k
    <3> HIDE DEF b
    <3> QED BY <1>1, <1>4, <1>5 DEF Chain
  <2> QED BY <1>2, <2>1, <2>2, <2>3 DEF Chain
<1>7. F \cup {p} = {b[k] : k \in 1 .. c + 1}
  <2>1. \A k \in 1 .. c : k \in 0 .. c /\ k \in 1 .. c + 1
    OBVIOUS
  <2>2. c + 1 \in 1 .. c + 1
    OBVIOUS
  <2> HIDE DEF b
  <2> QED BY <1>1, <1>4, <2>1, <2>2
<1> HIDE DEF b
<1> QED BY <1>2, <1>4, <1>6, <1>7 DEF FreeList

-----------------------------------------------------------------------------
(* The functions of memory.c.                                              *)

\* What a memory is made of.
LEMMA MemoryFields ==
  ASSUME NEW n \in Nat, NEW m \in Memories(n)
  PROVE  /\ m.free \in Pages(n) \cup {NULL} /\ m.addr \in Pages(n) \cup {NULL}
         /\ m.word \in Words(n) /\ m.failed \in BOOLEAN
BY DEF Memories

\* A word of the heap holds an address in the heap.
LEMMA WordsTyped ==
  ASSUME NEW n \in Nat, NEW w \in Words(n), NEW p \in Pages(n), NEW i \in Slots
  PROVE  /\ w[p] \in [Slots -> Sound(n)] /\ w[p][i] \in Sound(n)
         /\ w[p][i].page \in Pages(n) \cup {NULL} /\ w[p][i].v \in BOOLEAN
         /\ w[p][i].v => w[p][i].page \in Pages(n)
BY DEF Words, Sound, Word

\* The words that the code writes are sound.
LEMMA WordValues ==
  ASSUME NEW n \in Nat
  PROVE  /\ Blank \in [Slots -> Sound(n)]
         /\ Zero \in Sound(n)
         /\ \A p \in Pages(n) \cup {NULL} : Link(p) \in Sound(n)
         /\ \A p \in Pages(n) : Entry(p) \in Sound(n)
BY DEF Blank, Sound, Word, Zero, Link, Entry

\* A page written with x, what is there for the others.
LEMMA WordsUpdate ==
  ASSUME NEW n \in Nat, NEW w \in Words(n), NEW p \in Pages(n), NEW x \in [Slots -> Sound(n)]
  PROVE  /\ [w EXCEPT ![p] = x] \in Words(n)
         /\ [w EXCEPT ![p] = x][p] = x
         /\ SameOutside(n, w, [w EXCEPT ![p] = x], {p})
BY DEF Words, SameOutside

\* Writing pages that are not free keeps the memory good.
LEMMA WritePage ==
  ASSUME NEW n \in Nat, NEW m, NEW F, Good(n, m, F), NEW S, S \cap F = {},
         NEW k \in Memories(n), k.free = m.free, SameOutside(n, m.word, k.word, S)
  PROVE  Good(n, k, F)
<1>1. \A q \in F : k.word[q] = m.word[q]
  BY DEF Good, SameOutside
<1>2. FreeList(n, k.free, k.word, F)
  BY <1>1, FreeListFrame DEF Good
<1> QED BY <1>2 DEF Good

\* What kfree() of page p did: its first word changed, and no other.
Freed(n, m, k, F, p) ==
  /\ Good(n, k, F \cup {p})
  /\ SameOutside(n, m.word, k.word, {p})
  /\ k.word[p] = [m.word[p] EXCEPT ![0] = Link(m.free)]
  /\ k.failed = m.failed /\ k.addr = m.addr

\* kfree() of a page that is not free.
LEMMA kfreeOK ==
  ASSUME NEW n \in Nat, NEW m, NEW F, Good(n, m, F), NEW p \in Pages(n), p \notin F
  PROVE  Freed(n, m, kfree(m, p), F, p)
<1> DEFINE k == kfree(m, p)
           x == [m.word[p] EXCEPT ![0] = Link(m.free)]
<1>1. m \in Memories(n) /\ m.word \in Words(n) /\ m.free \in Pages(n) \cup {NULL}
  BY MemoryFields DEF Good
<1>2. k = [m EXCEPT !.word = [m.word EXCEPT ![p] = x], !.free = p]
  <2>1. p \in DOMAIN m.word
    BY <1>1 DEF Words
  <2> QED BY <2>1, <1>1 DEF kfree, Memories
<1>3. x \in [Slots -> Sound(n)] /\ x[0] = Link(m.free)
  <2>1. m.word[p] \in [Slots -> Sound(n)] /\ Link(m.free) \in Sound(n)
    BY <1>1, WordsTyped, WordValues DEF Slots
  <2> QED BY <2>1 DEF Slots
<1> HIDE DEF x
<1>4. /\ [m.word EXCEPT ![p] = x] \in Words(n)
      /\ [m.word EXCEPT ![p] = x][p] = x
      /\ SameOutside(n, m.word, [m.word EXCEPT ![p] = x], {p})
  BY <1>1, <1>3, WordsUpdate
<1> DEFINE v == [m.word EXCEPT ![p] = x]
<1> HIDE DEF v
<1>5. k \in Memories(n) /\ k.word = v /\ k.free = p /\ k.failed = m.failed /\ k.addr = m.addr
  BY <1>1, <1>2, <1>4 DEF Memories, v
<1>6. FreeList(n, m.free, v, F)
  BY <1>4, FreeListFrame DEF v, Good, SameOutside
<1>7. FreeList(n, p, v, F \cup {p})
  <2>1. v[p][0].page = m.free
    BY <1>3, <1>4 DEF v, Link
  <2> QED BY <1>6, <2>1, FreeListPush
<1> QED BY <1>3, <1>4, <1>5, <1>7 DEF Good, Freed, v, x

\* What an allocation by AllocCleared() did: k is m with a free page taken and
\* cleared, ...
Took(n, m, k, F) ==
  /\ k.addr \in F
  /\ Good(n, k, F \ {k.addr})
  /\ k.word[k.addr] = Blank
  /\ SameOutside(n, m.word, k.word, {k.addr})
  /\ k.failed = m.failed

\* ... or nothing, as no page was free.
NoneLeft(n, m, k, F) ==
  /\ F = {} /\ k.addr = NULL
  /\ Good(n, k, F)
  /\ k.word = m.word
  /\ k.failed = m.failed

\* A memory with another result is as good.
LEMMA SetAddr ==
  ASSUME NEW n \in Nat, NEW m, NEW F, Good(n, m, F), NEW p \in Pages(n) \cup {NULL}
  PROVE  /\ Good(n, [m EXCEPT !.addr = p], F)
         /\ [m EXCEPT !.addr = p].addr = p
         /\ [m EXCEPT !.addr = p].word = m.word
         /\ [m EXCEPT !.addr = p].failed = m.failed
<1>1. /\ [m EXCEPT !.addr = p] \in Memories(n)
      /\ [m EXCEPT !.addr = p].free = m.free
      /\ [m EXCEPT !.addr = p].addr = p
      /\ [m EXCEPT !.addr = p].word = m.word
      /\ [m EXCEPT !.addr = p].failed = m.failed
  BY DEF Good, Memories
<1> QED BY <1>1 DEF Good

\* kalloc() and memset() take a free page, the head of the list, if there is one.
LEMMA AllocClearedOK ==
  ASSUME NEW n \in Nat, NEW m, NEW F, Good(n, m, F)
  PROVE  Took(n, m, AllocCleared(m), F) \/ NoneLeft(n, m, AllocCleared(m), F)
<1>1. m \in Memories(n) /\ m.word \in Words(n) /\ m.free \in Pages(n) \cup {NULL}
  BY MemoryFields DEF Good
<1>2. CASE m.free = NULL
  <2>1. AllocCleared(m) = [m EXCEPT !.addr = NULL]
    <3>1. kalloc(m) = [m EXCEPT !.addr = NULL]
      BY <1>2 DEF kalloc
    <3>2. [m EXCEPT !.addr = NULL].addr = NULL
      BY <1>1 DEF Memories
    <3> QED BY <3>1, <3>2 DEF AllocCleared
  <2>2. F = {}
    BY <1>2, FreeListEmpty DEF Good
  <2> QED BY <2>1, <2>2, SetAddr DEF NoneLeft
<1>3. CASE m.free # NULL
  <2> DEFINE f == m.word[m.free][0].page
             k == [m EXCEPT !.addr = m.free, !.free = f]
             v == [m.word EXCEPT ![m.free] = Blank]
  <2>1. m.free \in F /\ m.free \in Pages(n)
    BY <1>1, <1>3, FreeListEmpty DEF Good
  <2>2. FreeList(n, f, m.word, F \ {m.free}) /\ f \in Pages(n) \cup {NULL}
    BY <1>3, FreeListPop DEF Good
  <2> HIDE DEF f
  <2>3. k \in Memories(n) /\ k.addr = m.free /\ k.free = f /\ k.word = m.word /\ k.failed = m.failed
    BY <1>1, <2>2 DEF Memories
  <2>4. AllocCleared(m) = [k EXCEPT !.word = v]
    <3>1. kalloc(m) = k
      BY <1>3 DEF kalloc, f
    <3>2. k.addr # NULL /\ [k EXCEPT !.word[k.addr] = Blank] = [k EXCEPT !.word = v]
      BY <1>3, <2>3
    <3> HIDE DEF k
    <3> QED BY <3>1, <3>2 DEF AllocCleared
  <2>5. v \in Words(n) /\ v[m.free] = Blank /\ SameOutside(n, m.word, v, {m.free})
    BY <1>1, <2>1, WordsUpdate, WordValues
  <2> HIDE DEF v, k
  <2> DEFINE r == [k EXCEPT !.word = v]
  <2>6. r \in Memories(n) /\ r.addr = m.free /\ r.free = f /\ r.word = v /\ r.failed = m.failed
    BY <2>3, <2>5 DEF Memories
  <2> HIDE DEF r
  <2>7. FreeList(n, f, v, F \ {m.free})
    <3>1. \A q \in F \ {m.free} : v[q] = m.word[q]
      BY <2>5 DEF Good, SameOutside
    <3> QED BY <2>2, <3>1, FreeListFrame
  <2>8. Took(n, m, r, F)
    BY <2>1, <2>5, <2>6, <2>7 DEF Took, Good
  <2> QED BY <2>4, <2>8 DEF r
<1> QED BY <1>2, <1>3

\* A page whose only valid entry is entry i, for page p.
Only(i, p) == [Blank EXCEPT ![i] = Entry(p)]

\* A table with one entry.
LEMMA OnlyTyped ==
  ASSUME NEW n \in Nat, NEW p \in Pages(n), NEW i \in Slots
  PROVE  /\ Only(i, p) \in [Slots -> Sound(n)]
         /\ \A j \in Slots : Only(i, p)[j] = IF j = i THEN Entry(p) ELSE Zero
BY WordValues DEF Only, Blank, Slots

\* What TableEntry() did that made the table missing in a cleared page t.
Made(n, m, k, F, t) ==
  /\ k.addr \in F /\ k.addr # t /\ k.addr # NULL
  /\ Good(n, k, F \ {k.addr})
  /\ k.word[t] = Only(0, k.addr) /\ k.word[k.addr] = Blank
  /\ SameOutside(n, m.word, k.word, {t, k.addr})
  /\ k.failed = m.failed

\* TableEntry() that may make the missing table, of a cleared page t.
LEMMA TableEntryMakes ==
  ASSUME NEW n \in Nat, NEW m, NEW F, Good(n, m, F), NEW t \in Pages(n), t \notin F,
         m.word[t] = Blank, NEW k, k = TableEntry(m, t, TRUE)
  PROVE  NoneLeft(n, m, k, F) \/ Made(n, m, k, F, t)
<1> DEFINE a == AllocCleared(m)
<1>1. ~ m.word[t][0].v
  BY DEF Blank, Slots, Zero
<1>2. k = IF a.addr = NULL THEN a ELSE [a EXCEPT !.word[t][0] = Entry(a.addr)]
  BY <1>1 DEF TableEntry
<1>3. Took(n, m, a, F) \/ NoneLeft(n, m, a, F)
  BY AllocClearedOK
<1>4. CASE NoneLeft(n, m, a, F)
  BY <1>2, <1>4 DEF NoneLeft
<1>5. CASE Took(n, m, a, F)
  <2> DEFINE x == Only(0, a.addr)
             v == [a.word EXCEPT ![t] = x]
             r == [a EXCEPT !.word = v]
  <2> HIDE DEF a
  <2> DEFINE G == F \ {a.addr}
  <2>0. a.addr \in F /\ Good(n, a, G)
    BY <1>5 DEF Took
  <2>1. /\ a.addr \in Pages(n) /\ a.addr # NULL /\ a.addr # t
        /\ t \notin G
    <3>1. F \in SUBSET Pages(n)
      BY DEF Good
    <3>2. \A p \in Pages(n) : p # NULL
      BY DEF Pages, NULL
    <3> QED BY <2>0, <3>1, <3>2
  <2> HIDE DEF G
  <2>2. a \in Memories(n) /\ a.word \in Words(n)
    BY <2>0, MemoryFields DEF Good
  <2>3. a.word[t] = Blank
    BY <1>5, <2>1 DEF Took, SameOutside
  <2>4. k = r
    <3>1. x = [a.word[t] EXCEPT ![0] = Entry(a.addr)]
      BY <2>3 DEF Only
    <3>2. k = [a EXCEPT !.word[t][0] = Entry(a.addr)]
      BY <1>2, <2>1
    <3> QED BY <3>1, <3>2
  <2>5. x \in [Slots -> Sound(n)]
    BY <2>1, OnlyTyped DEF Slots
  <2> HIDE DEF x
  <2>6. v \in Words(n) /\ v[t] = x /\ SameOutside(n, a.word, v, {t})
    BY <2>2, <2>5, WordsUpdate
  <2> HIDE DEF v
  <2>7. r \in Memories(n) /\ r.word = v /\ r.free = a.free /\ r.addr = a.addr /\ r.failed = a.failed
    BY <2>2, <2>6 DEF Memories
  <2> HIDE DEF r
  <2>8. Good(n, r, G)
    <3>1. {t} \cap G = {}
      BY <2>1
    <3>2. r \in Memories(n) /\ r.free = a.free /\ SameOutside(n, a.word, r.word, {t})
      BY <2>6, <2>7
    <3> QED BY <2>0, <3>1, <3>2, WritePage
  <2> QED BY <1>5, <2>0, <2>1, <2>4, <2>6, <2>7, <2>8 DEF x, G, Took, Made, SameOutside
<1> QED BY <1>3, <1>4, <1>5

\* A memory that was only read, with result p.
Read(n, m, k, F, p) ==
  k.addr = p /\ Good(n, k, F) /\ k.word = m.word /\ k.failed = m.failed

\* TableEntry() of a table with its entry, ...
LEMMA TableEntryFound ==
  ASSUME NEW n \in Nat, NEW m, NEW F, Good(n, m, F), NEW t, NEW alloc,
         m.word[t][0].v, m.word[t][0].page \in Pages(n)
  PROVE  Read(n, m, TableEntry(m, t, alloc), F, m.word[t][0].page)
BY SetAddr DEF TableEntry, Read

\* ... and of one without, when it may not make it.
LEMMA TableEntryMissing ==
  ASSUME NEW n \in Nat, NEW m, NEW F, Good(n, m, F), NEW t, ~ m.word[t][0].v
  PROVE  Read(n, m, TableEntry(m, t, FALSE), F, NULL)
BY SetAddr DEF TableEntry, Read

\* The tables of a map before anything is mapped: the PGD alone, or with a PUD.
\* User is the page at 0x400000 of a map that is whole.
PgdOnly(w, map)             == w[map] = Blank
PgdAndPud(w, map, pud)      == w[map] = Only(0, pud) /\ w[pud] = Blank
Whole(w, map, pud, pmd, user) ==
  w[map] = Only(0, pud) /\ w[pud] = Only(0, pmd) /\ w[pmd] = Only(PMD, user)

\* find_pud_entry() and map_page() on an empty map, when the pages do not do:
\* the map has the tables there were pages for.
MapStops(n, m, k, F, map) ==
  /\ k.addr = NULL /\ k.failed = m.failed
  /\ Good(n, k, {})
  /\ \/ F = {} /\ k.word = m.word
     \/ \E pud \in F : /\ F = {pud}
                       /\ PgdAndPud(k.word, map, pud)
                       /\ SameOutside(n, m.word, k.word, {map, pud})

\* The entry of a page shows where it leads.
LEMMA OnlyLeads ==
  ASSUME NEW p, NEW i \in Slots
  PROVE  /\ Only(i, p)[i].v /\ Only(i, p)[i].page = p
         /\ \A j \in Slots : j # i => ~ Only(i, p)[j].v
         /\ ~ Blank[i].v
BY DEF Only, Blank, Slots, Entry, Zero

\* find_pud_entry(): both tables are made, or as far as the pages go.
LEMMA FindPudMakes ==
  ASSUME NEW n \in Nat, NEW m, NEW F, Good(n, m, F), NEW map \in Pages(n), map \notin F,
         PgdOnly(m.word, map), NEW k, k = find_pud_entry(m, map, TRUE)
  PROVE  \/ MapStops(n, m, k, F, map)
         \/ \E pud, pmd \in F :
              /\ pud # pmd /\ k.addr = pmd /\ k.failed = m.failed
              /\ Good(n, k, F \ {pud, pmd})
              /\ k.word[map] = Only(0, pud) /\ k.word[pud] = Only(0, pmd)
              /\ k.word[pmd] = Blank
              /\ SameOutside(n, m.word, k.word, {map, pud, pmd})
<1> DEFINE a == TableEntry(m, map, TRUE)
           b == TableEntry(a, a.addr, TRUE)
           G == F \ {a.addr}
<1>1. k = IF a.addr = NULL THEN a ELSE b
  BY DEF find_pud_entry
<1>2. NoneLeft(n, m, a, F) \/ Made(n, m, a, F, map)
  BY TableEntryMakes DEF PgdOnly
<1> HIDE DEF a
<1>3. CASE NoneLeft(n, m, a, F)
  BY <1>1, <1>3 DEF NoneLeft, MapStops
<1>4. CASE Made(n, m, a, F, map)
  <2>1. /\ a.addr \in F /\ Good(n, a, G)
        /\ a.word[map] = Only(0, a.addr) /\ a.word[a.addr] = Blank
        /\ SameOutside(n, m.word, a.word, {map, a.addr})
        /\ a.failed = m.failed
    BY <1>4 DEF Made
  <2>2. a.addr \in Pages(n) /\ a.addr # NULL /\ a.addr \notin G /\ a.addr # map
    BY <1>4, <2>1 DEF Good, Made
  <2>3. k = b
    BY <1>1, <2>2
  <2> HIDE DEF G
  <2>4. NoneLeft(n, a, b, G) \/ Made(n, a, b, G, a.addr)
    BY <2>1, <2>2, TableEntryMakes
  <2> HIDE DEF b
  <2>5. CASE NoneLeft(n, a, b, G)
    <3>1. F = {a.addr}
      BY <2>1, <2>5 DEF NoneLeft, G
    <3>2. b.addr = NULL /\ b.word = a.word /\ b.failed = m.failed /\ Good(n, b, {})
      BY <2>1, <2>5 DEF NoneLeft
    <3> QED BY <2>1, <2>3, <3>1, <3>2 DEF MapStops, PgdAndPud
  <2>6. CASE Made(n, a, b, G, a.addr)
    <3>1. /\ b.addr \in G
          /\ Good(n, b, G \ {b.addr})
          /\ b.word[a.addr] = Only(0, b.addr) /\ b.word[b.addr] = Blank
          /\ SameOutside(n, a.word, b.word, {a.addr, b.addr})
          /\ b.failed = a.failed
      BY <2>6 DEF Made
    <3>2. b.addr \in F /\ b.addr # a.addr /\ b.addr # map
      BY <3>1 DEF G
    <3>3. b.word[map] = Only(0, a.addr)
      BY <2>1, <2>2, <3>1, <3>2 DEF SameOutside
    <3>4. SameOutside(n, m.word, b.word, {map, a.addr, b.addr})
      BY <2>1, <3>1 DEF SameOutside
    <3>5. G \ {b.addr} = F \ {a.addr, b.addr}
      BY DEF G
    <3> QED BY <2>1, <2>3, <3>1, <3>2, <3>3, <3>4, <3>5
  <2> QED BY <2>4, <2>5, <2>6
<1> QED BY <1>2, <1>3, <1>4

\* map_page() of an empty map: the assertion holds, and page is mapped if there
\* were pages for both tables.
LEMMA MapPageOK ==
  ASSUME NEW n \in Nat, NEW m, NEW F, Good(n, m, F), NEW map \in Pages(n), map \notin F,
         PgdOnly(m.word, map), NEW page \in Pages(n), NEW k, k = map_page(m, map, page)
  PROVE  \/ MapStops(n, m, k, F, map)
         \/ \E pud, pmd \in F :
              /\ pud # pmd /\ k.addr # NULL /\ k.failed = m.failed
              /\ Good(n, k, F \ {pud, pmd})
              /\ Whole(k.word, map, pud, pmd, page)
              /\ SameOutside(n, m.word, k.word, {map, pud, pmd})
<1> DEFINE a == find_pud_entry(m, map, TRUE)
<1>1. k = IF a.addr = NULL THEN a
          ELSE IF a.word[a.addr][PMD].v THEN [a EXCEPT !.failed = TRUE]
          ELSE [a EXCEPT !.word[a.addr][PMD] = Entry(page)]
  BY DEF map_page
<1>2. \/ MapStops(n, m, a, F, map)
      \/ \E pud, pmd \in F :
           /\ pud # pmd /\ a.addr = pmd /\ a.failed = m.failed
           /\ Good(n, a, F \ {pud, pmd})
           /\ a.word[map] = Only(0, pud) /\ a.word[pud] = Only(0, pmd)
           /\ a.word[pmd] = Blank
           /\ SameOutside(n, m.word, a.word, {map, pud, pmd})
  BY FindPudMakes
<1> HIDE DEF a
<1>3. CASE MapStops(n, m, a, F, map)
  BY <1>1, <1>3 DEF MapStops
<1>4. CASE ~ MapStops(n, m, a, F, map)
  <2>1. PICK pud \in F, pmd \in F :
           /\ pud # pmd /\ a.addr = pmd /\ a.failed = m.failed
           /\ Good(n, a, F \ {pud, pmd})
           /\ a.word[map] = Only(0, pud) /\ a.word[pud] = Only(0, pmd)
           /\ a.word[pmd] = Blank
           /\ SameOutside(n, m.word, a.word, {map, pud, pmd})
    BY <1>2, <1>4
  <2>2. pmd \in Pages(n) /\ pmd # NULL /\ pmd # map /\ pud # map /\ pud \in Pages(n)
    BY <2>1 DEF Good, Pages, NULL
  <2> DEFINE x == Only(PMD, page)
             v == [a.word EXCEPT ![pmd] = x]
             r == [a EXCEPT !.word = v]
  <2>3. k = r
    <3>1. ~ a.word[a.addr][PMD].v
      BY <2>1, OnlyLeads DEF Slots, PMD
    <3>2. k = [a EXCEPT !.word[a.addr][PMD] = Entry(page)]
      BY <1>1, <2>1, <2>2, <3>1
    <3>3. x = [a.word[pmd] EXCEPT ![PMD] = Entry(page)]
      BY <2>1 DEF Only
    <3> QED BY <2>1, <3>2, <3>3
  <2>4. a \in Memories(n) /\ a.word \in Words(n)
    BY <2>1, MemoryFields DEF Good
  <2>5. x \in [Slots -> Sound(n)]
    BY OnlyTyped DEF Slots, PMD
  <2> HIDE DEF x
  <2>6. v \in Words(n) /\ v[pmd] = x /\ SameOutside(n, a.word, v, {pmd})
    BY <2>2, <2>4, <2>5, WordsUpdate
  <2> HIDE DEF v
  <2>7. r \in Memories(n) /\ r.word = v /\ r.free = a.free /\ r.addr = a.addr /\ r.failed = a.failed
    BY <2>4, <2>6 DEF Memories
  <2> HIDE DEF r
  <2>8. Good(n, r, F \ {pud, pmd})
    <3> DEFINE G == F \ {pud, pmd}
    <3>1. {pmd} \cap G = {}
      OBVIOUS
    <3>2. Good(n, a, G) /\ SameOutside(n, a.word, r.word, {pmd})
      BY <2>1, <2>6, <2>7
    <3> HIDE DEF G
    <3>3. Good(n, r, G)
      BY <2>7, <3>1, <3>2, WritePage
    <3> QED BY <3>3 DEF G
  <2>9. Whole(v, map, pud, pmd, page)
    BY <2>1, <2>2, <2>6 DEF Whole, SameOutside, x
  <2>10. SameOutside(n, m.word, v, {map, pud, pmd})
    BY <2>1, <2>6 DEF SameOutside
  <2> QED BY <2>1, <2>2, <2>3, <2>7, <2>8, <2>9, <2>10
<1> QED BY <1>3, <1>4

\* What freeing the page q that table t leads to did: q is on the free list and
\* the table is empty.
Emptied(n, m, k, F, t, q) ==
  /\ Good(n, k, F \cup {q})
  /\ k.word[t] = Blank
  /\ SameOutside(n, m.word, k.word, {t, q})
  /\ k.failed = m.failed

\* The body of the loops of free_vm(): the page of a valid entry is freed.
LEMMA FreeEntryOK ==
  ASSUME NEW n \in Nat, NEW m, NEW F, Good(n, m, F), NEW t \in Pages(n), t \notin F,
         NEW i \in Slots, NEW q \in Pages(n), q \notin F, q # t, m.word[t] = Only(i, q)
  PROVE  Emptied(n, m, FreeEntry(m, t, i), F, t, q)
<1> DEFINE a == kfree(m, q)
           G == F \cup {q}
           v == [a.word EXCEPT ![t] = Blank]
           r == [a EXCEPT !.word = v]
<1>0. Freed(n, m, a, F, q)
  BY kfreeOK
<1> HIDE DEF a
<1>1. /\ Good(n, a, G) /\ SameOutside(n, m.word, a.word, {q})
      /\ a.failed = m.failed
  BY <1>0 DEF Freed
<1>2. a \in Memories(n) /\ a.word \in Words(n) /\ a.word[t] = Only(i, q)
  BY <1>1, MemoryFields DEF Good, SameOutside
<1>3. FreeEntry(m, t, i) = r
  <2>1. m.word[t][i].v /\ m.word[t][i].page = q
    BY OnlyLeads
  <2>2. FreeEntry(m, t, i) = [a EXCEPT !.word[t][i] = Zero]
    BY <2>1 DEF FreeEntry, a
  <2>3. [a.word[t] EXCEPT ![i] = Zero] = Blank
    BY <1>2 DEF Only, Blank
  <2> QED BY <2>2, <2>3
<1>4. v \in Words(n) /\ v[t] = Blank /\ SameOutside(n, a.word, v, {t})
  BY <1>2, WordsUpdate, WordValues
<1> HIDE DEF v
<1>5. r \in Memories(n) /\ r.word = v /\ r.free = a.free /\ r.failed = a.failed
  BY <1>2, <1>4 DEF Memories
<1> HIDE DEF r
<1>6. Good(n, r, G)
  <2>1. {t} \cap G = {} /\ SameOutside(n, a.word, r.word, {t})
    BY <1>4, <1>5
  <2> HIDE DEF G
  <2> QED BY <1>1, <1>5, <2>1, WritePage
<1> QED BY <1>1, <1>3, <1>4, <1>5, <1>6 DEF Emptied, SameOutside

\* An entry that is not valid is passed over.
LEMMA FreeEntryNone ==
  ASSUME NEW m, NEW t, NEW i, ~ m.word[t][i].v
  PROVE  FreeEntry(m, t, i) = m
BY DEF FreeEntry

\* The loop over the entries of a table frees the one page there is.
LEMMA FreeEntriesOK ==
  ASSUME NEW n \in Nat, NEW m, NEW F, Good(n, m, F), NEW t \in Pages(n), t \notin F,
         NEW q \in Pages(n), q \notin F, q # t, m.word[t] = Only(0, q)
  PROVE  Emptied(n, m, FreeEntries(m, t), F, t, q)
<1>1. Emptied(n, m, FreeEntry(m, t, 0), F, t, q)
  BY FreeEntryOK DEF Slots
<1>2. ~ FreeEntry(m, t, 0).word[t][PMD].v
  BY <1>1, OnlyLeads DEF Emptied, Slots, PMD
<1>3. FreeEntries(m, t) = FreeEntry(m, t, 0)
  BY <1>2, FreeEntryNone DEF FreeEntries
<1> QED BY <1>1, <1>3

\* So is every entry of a cleared table.
LEMMA FreeEntriesNone ==
  ASSUME NEW m, NEW t, m.word[t] = Blank
  PROVE  FreeEntries(m, t) = m
<1>1. ~ m.word[t][0].v /\ ~ m.word[t][PMD].v
  BY OnlyLeads DEF Slots, PMD
<1> QED BY <1>1, FreeEntryNone DEF FreeEntries

\* The four steps of free_vm(), each on what the one before left.
LEMMA FreePageWhole ==
  ASSUME NEW n \in Nat, NEW m, NEW F, Good(n, m, F),
         NEW map \in Pages(n), NEW pud \in Pages(n), NEW pmd \in Pages(n), NEW user \in Pages(n),
         pmd \notin F, user \notin F, user # pmd, Whole(m.word, map, pud, pmd, user)
  PROVE  Emptied(n, m, free_page(m, map), F, pmd, user)
<1> DEFINE a == TableEntry(m, map, FALSE)
           b == TableEntry(a, a.addr, FALSE)
<1>0. m.word[map][0].v /\ m.word[map][0].page = pud /\ m.word[pud][0].v /\ m.word[pud][0].page = pmd
  BY OnlyLeads DEF Whole, Slots
<1>1. Read(n, m, a, F, pud)
  BY <1>0, TableEntryFound
<1> HIDE DEF a
<1>2. Read(n, a, b, F, pmd)
  <2>1. /\ a.addr = pud /\ Good(n, a, F)
        /\ a.word[pud][0].v /\ a.word[pud][0].page = pmd
    BY <1>0, <1>1 DEF Read
  <2>2. Read(n, a, TableEntry(a, pud, FALSE), F, pmd)
    BY <2>1, TableEntryFound
  <2> QED BY <2>1, <2>2
<1> HIDE DEF b
<1>3. find_pud_entry(m, map, FALSE) = b
  <2>1. a.addr # NULL
    BY <1>1 DEF Read, Pages, NULL
  <2> QED BY <2>1 DEF find_pud_entry, a, b
<1>4. free_page(m, map) = FreeEntry(b, pmd, PMD)
  <2>1. b.addr = pmd /\ b.addr # NULL
    BY <1>2 DEF Read, Pages, NULL
  <2> QED BY <1>3, <2>1 DEF free_page
<1>5. Good(n, b, F) /\ b.word = m.word /\ b.failed = m.failed
  BY <1>1, <1>2 DEF Read
<1>6. Emptied(n, b, FreeEntry(b, pmd, PMD), F, pmd, user)
  BY <1>5, FreeEntryOK DEF Whole, Slots, PMD
<1> QED BY <1>4, <1>5, <1>6 DEF Emptied

\* free_page() of a map that does not lead to a PMD.
LEMMA FreePageNone ==
  ASSUME NEW n \in Nat, NEW m, NEW F, Good(n, m, F), NEW map \in Pages(n),
         \/ PgdOnly(m.word, map)
         \/ \E pud \in Pages(n) : PgdAndPud(m.word, map, pud)
  PROVE  Read(n, m, free_page(m, map), F, NULL)
<1> DEFINE a == TableEntry(m, map, FALSE)
           b == TableEntry(a, a.addr, FALSE)
           k == find_pud_entry(m, map, FALSE)
<1>1. CASE PgdOnly(m.word, map)
  <2>1. Read(n, m, a, F, NULL)
    BY <1>1, OnlyLeads, TableEntryMissing DEF PgdOnly, Slots
  <2>2. k = a
    BY <2>1 DEF Read, find_pud_entry
  <2> QED BY <2>1, <2>2 DEF Read, free_page
<1>2. CASE \E pud \in Pages(n) : PgdAndPud(m.word, map, pud)
  <2>1. PICK pud \in Pages(n) : PgdAndPud(m.word, map, pud)
    BY <1>2
  <2>2. /\ m.word[map][0].v /\ m.word[map][0].page = pud /\ ~ m.word[pud][0].v
    BY <2>1, OnlyLeads DEF PgdAndPud, Slots
  <2>3. Read(n, m, a, F, pud)
    BY <2>2, TableEntryFound
  <2>4. a.addr # NULL
    <3>1. pud # NULL
      BY DEF Pages, NULL
    <3> QED BY <2>3, <3>1 DEF Read
  <2>5. k = b
    BY <2>4 DEF find_pud_entry
  <2> HIDE DEF a
  <2>6. Read(n, a, b, F, NULL)
    <3>1. Good(n, a, F) /\ a.addr = pud /\ ~ a.word[a.addr][0].v
      BY <2>2, <2>3 DEF Read
    <3> QED BY <3>1, TableEntryMissing
  <2> HIDE DEF b
  <2>7. Read(n, m, b, F, NULL)
    BY <2>3, <2>6 DEF Read
  <2> QED BY <2>5, <2>7 DEF Read, free_page
<1> QED BY <1>1, <1>2

\* free_pmd() frees the PMD of the PUD of a map.
LEMMA FreePmdOK ==
  ASSUME NEW n \in Nat, NEW m, NEW F, Good(n, m, F),
         NEW map \in Pages(n), NEW pud \in Pages(n), NEW pmd \in Pages(n),
         pud \notin F, pmd \notin F, pud # pmd, map # pud, map # pmd,
         m.word[map] = Only(0, pud), m.word[pud] = Only(0, pmd)
  PROVE  Emptied(n, m, free_pmd(m, map), F, pud, pmd)
<1> DEFINE a == FreeEntries(m, pud)
<1>1. m.word[map][0].v /\ m.word[map][0].page = pud
  BY OnlyLeads DEF Slots
<1>2. Emptied(n, m, a, F, pud, pmd)
  BY FreeEntriesOK
<1> HIDE DEF a
<1>3. a.word[map] = Only(0, pud)
  BY <1>2 DEF Emptied, SameOutside
<1>4. ~ a.word[map][PMD].v
  BY <1>3, OnlyLeads DEF Slots, PMD
<1>5. free_pmd(m, map) = a
  BY <1>1, <1>4 DEF free_pmd, a
<1> QED BY <1>2, <1>5

\* free_pmd() of a map without a PMD.
LEMMA FreePmdNone ==
  ASSUME NEW m, NEW map,
         PgdOnly(m.word, map) \/ \E pud : PgdAndPud(m.word, map, pud)
  PROVE  free_pmd(m, map) = m
<1>1. CASE PgdOnly(m.word, map)
  <2>1. ~ m.word[map][0].v /\ ~ m.word[map][PMD].v
    BY <1>1, OnlyLeads DEF PgdOnly, Slots, PMD
  <2> QED BY <2>1 DEF free_pmd
<1>2. CASE \E pud : PgdAndPud(m.word, map, pud)
  <2>1. PICK pud : PgdAndPud(m.word, map, pud)
    BY <1>2
  <2>2. m.word[map][0].v /\ m.word[map][0].page = pud /\ ~ m.word[map][PMD].v
    BY <2>1, OnlyLeads DEF PgdAndPud, Slots, PMD
  <2>3. FreeEntries(m, pud) = m
    BY <2>1, FreeEntriesNone DEF PgdAndPud
  <2> QED BY <2>2, <2>3 DEF free_pmd
<1> QED BY <1>1, <1>2

\* The pages S have been freed, and no page outside S was written.
FreedAll(n, m, k, F, S) ==
  Good(n, k, F \cup S) /\ SameOutside(n, m.word, k.word, S) /\ k.failed = m.failed

\* The five different pages that a map takes with its stack, less the stack.
FourPages(n, map, pud, pmd, user) ==
  /\ map \in Pages(n) /\ pud \in Pages(n) /\ pmd \in Pages(n) /\ user \in Pages(n)
  /\ map # pud /\ map # pmd /\ map # user /\ pud # pmd /\ pud # user /\ pmd # user

\* free_vm() gives back all the pages of a whole map: in the order of the code,
\* no table is read after it was freed.
LEMMA FreeVmWhole ==
  ASSUME NEW n \in Nat, NEW m, NEW F, Good(n, m, F),
         NEW map, NEW pud, NEW pmd, NEW user, FourPages(n, map, pud, pmd, user),
         {map, pud, pmd, user} \cap F = {}, Whole(m.word, map, pud, pmd, user)
  PROVE  FreedAll(n, m, free_vm(m, map), F, {map, pud, pmd, user})
<1> DEFINE a == free_page(m, map)
           b == free_pmd(a, map)
           c == free_pud(b, map)
           d == kfree(c, map)
           Fa == F \cup {user}
           Fb == Fa \cup {pmd}
           Fc == Fb \cup {pud}
           Fd == Fc \cup {map}
<1>0. /\ map \in Pages(n) /\ pud \in Pages(n) /\ pmd \in Pages(n) /\ user \in Pages(n)
      /\ map # pud /\ map # pmd /\ map # user /\ pud # pmd /\ pud # user /\ pmd # user
      /\ map \notin F /\ pud \notin F /\ pmd \notin F /\ user \notin F
  BY DEF FourPages
<1>1. Emptied(n, m, a, F, pmd, user)
  BY <1>0, FreePageWhole
<1> HIDE DEF a
<1>2. /\ Good(n, a, Fa) /\ SameOutside(n, m.word, a.word, {pmd, user}) /\ a.failed = m.failed
      /\ a.word[map] = Only(0, pud) /\ a.word[pud] = Only(0, pmd)
  BY <1>0, <1>1 DEF Emptied, SameOutside, Whole
<1>3. map \notin Fa /\ pud \notin Fa /\ pmd \notin Fa
  BY <1>0
<1> HIDE DEF Fa
<1>4. Emptied(n, a, b, Fa, pud, pmd)
  BY <1>0, <1>2, <1>3, FreePmdOK
<1> HIDE DEF b
<1>5. /\ Good(n, b, Fb) /\ SameOutside(n, a.word, b.word, {pud, pmd}) /\ b.failed = a.failed
      /\ b.word[map] = Only(0, pud)
  BY <1>0, <1>2, <1>4 DEF Emptied, SameOutside
<1>6. map \notin Fb /\ pud \notin Fb
  BY <1>0, <1>3
<1> HIDE DEF Fb
<1>7. Emptied(n, b, c, Fb, map, pud)
  BY <1>0, <1>5, <1>6, FreeEntriesOK DEF free_pud
<1> HIDE DEF c
<1>8. Good(n, c, Fc) /\ SameOutside(n, b.word, c.word, {map, pud}) /\ c.failed = b.failed
  BY <1>7 DEF Emptied
<1>9. map \notin Fc
  BY <1>0, <1>6
<1> HIDE DEF Fc
<1>10. Freed(n, c, d, Fc, map)
  BY <1>0, <1>8, <1>9, kfreeOK
<1> HIDE DEF d
<1>11. Good(n, d, Fd) /\ SameOutside(n, c.word, d.word, {map}) /\ d.failed = c.failed
  BY <1>10 DEF Freed
<1>12. Fd = F \cup {map, pud, pmd, user}
  BY DEF Fa, Fb, Fc
<1>13. free_vm(m, map) = d
  BY DEF free_vm, a, b, c, d
<1>14. SameOutside(n, m.word, d.word, {map, pud, pmd, user})
  BY <1>2, <1>5, <1>8, <1>11 DEF SameOutside
<1>15. d.failed = m.failed
  BY <1>2, <1>5, <1>8, <1>11
<1> HIDE DEF Fd
<1> QED BY <1>11, <1>12, <1>13, <1>14, <1>15 DEF FreedAll

\* free_vm() of a map for which there were no pages: the tables there are.
LEMMA FreeVmPgd ==
  ASSUME NEW n \in Nat, NEW m, NEW F, Good(n, m, F), NEW map \in Pages(n), map \notin F,
         PgdOnly(m.word, map)
  PROVE  FreedAll(n, m, free_vm(m, map), F, {map})
<1> DEFINE a == free_page(m, map)
<1>1. Read(n, m, a, F, NULL)
  BY FreePageNone
<1> HIDE DEF a
<1>2. PgdOnly(a.word, map) /\ Good(n, a, F)
  BY <1>1 DEF Read, PgdOnly
<1>3. free_pmd(a, map) = a
  BY <1>2, FreePmdNone
<1>4. free_pud(a, map) = a
  BY <1>2, FreeEntriesNone DEF PgdOnly, free_pud
<1>5. Freed(n, a, kfree(a, map), F, map)
  BY <1>2, kfreeOK
<1>6. free_vm(m, map) = kfree(a, map)
  BY <1>3, <1>4 DEF free_vm, a
<1>7. a.word = m.word /\ a.failed = m.failed
  BY <1>1 DEF Read
<1> QED BY <1>5, <1>6, <1>7 DEF Freed, FreedAll

\* free_vm() of a map that got no further than its PUD.
LEMMA FreeVmPud ==
  ASSUME NEW n \in Nat, NEW m, NEW F, Good(n, m, F), NEW map \in Pages(n), map \notin F,
         NEW pud \in Pages(n), pud \notin F, pud # map, PgdAndPud(m.word, map, pud)
  PROVE  FreedAll(n, m, free_vm(m, map), F, {map, pud})
<1> DEFINE a == free_page(m, map)
           b == free_pud(a, map)
           G == F \cup {pud}
<1>1. Read(n, m, a, F, NULL)
  BY FreePageNone
<1> HIDE DEF a
<1>2. /\ PgdAndPud(a.word, map, pud) /\ Good(n, a, F)
      /\ a.word = m.word /\ a.failed = m.failed
  BY <1>1 DEF Read, PgdAndPud
<1>3. free_pmd(a, map) = a
  BY <1>2, FreePmdNone
<1>4. Emptied(n, a, b, F, map, pud)
  BY <1>2, FreeEntriesOK DEF PgdAndPud, free_pud
<1> HIDE DEF b
<1>5. Good(n, b, G) /\ SameOutside(n, a.word, b.word, {map, pud}) /\ b.failed = a.failed
  BY <1>4 DEF Emptied
<1>6. map \notin G
  OBVIOUS
<1> HIDE DEF G
<1>7. Freed(n, b, kfree(b, map), G, map)
  BY <1>5, <1>6, kfreeOK
<1>8. free_vm(m, map) = kfree(b, map)
  BY <1>3 DEF free_vm, a, b
<1> DEFINE d == kfree(b, map)
<1> HIDE DEF d
<1>9. Good(n, d, G \cup {map}) /\ SameOutside(n, b.word, d.word, {map}) /\ d.failed = b.failed
  BY <1>7 DEF Freed, d
<1>10. G \cup {map} = F \cup {map, pud}
  BY DEF G
<1>11. SameOutside(n, m.word, d.word, {map, pud}) /\ d.failed = m.failed
  BY <1>2, <1>5, <1>9 DEF SameOutside
<1> QED BY <1>8, <1>9, <1>10, <1>11 DEF FreedAll, d

-----------------------------------------------------------------------------
(* The functions of memory.c that make the memory of a process.            *)

\* A new map has got its user page, cleared, and its two tables: k is m with
\* three free pages taken, ...
NewMap(n, m, k, F, map) ==
  \E pud, pmd, user \in F :
    /\ pud # pmd /\ pud # user /\ pmd # user
    /\ k.addr = user
    /\ Good(n, k, F \ {pud, pmd, user})
    /\ Whole(k.word, map, pud, pmd, user)
    /\ SameOutside(n, m.word, k.word, {map, pud, pmd, user})
    /\ k.failed = m.failed

\* ... or there were fewer, and it has no pages, the map itself apart perhaps.
NoMap(n, m, k, F, map) ==
  /\ k.addr = NULL
  /\ \/ Good(n, k, F)
     \/ Good(n, k, F \cup {map})
  /\ SameOutside(n, m.word, k.word, F \cup {map})
  /\ k.failed = m.failed

\* Fewer than three pages are free.
FewPages(F) == \A a, b, c \in F : a = b \/ a = c \/ b = c

\* A user page and its tables, in full or up to where kalloc() failed.
LEMMA NewUserPageOK ==
  ASSUME NEW n \in Nat, NEW m, NEW F, Good(n, m, F), NEW map \in Pages(n), map \notin F,
         PgdOnly(m.word, map)
  PROVE  LET k == NewUserPage(m, map)
         IN  \/ NewMap(n, m, k, F, map) /\ k.word[k.addr] = Blank
             \/ NoMap(n, m, k, F, map) /\ FewPages(F)
<1> DEFINE a == AllocCleared(m)
           b == map_page(a, map, a.addr)
           c == kfree(b, a.addr)
           d == free_vm(c, map)
           e == [d EXCEPT !.addr = NULL]
           k == NewUserPage(m, map)
           G == F \ {a.addr}
<1>1. k = IF a.addr = NULL THEN a
          ELSE IF b.addr = NULL THEN e ELSE [b EXCEPT !.addr = a.addr]
  BY DEF NewUserPage
<1> SUFFICES \/ NewMap(n, m, k, F, map) /\ k.word[k.addr] = Blank
             \/ NoMap(n, m, k, F, map) /\ FewPages(F)
  OBVIOUS
<1>2. Took(n, m, a, F) \/ NoneLeft(n, m, a, F)
  BY AllocClearedOK
<1> HIDE DEF a, k
<1>3. CASE NoneLeft(n, m, a, F)
  BY <1>1, <1>3 DEF NoneLeft, NoMap, FewPages, SameOutside
<1>4. CASE Took(n, m, a, F)
  <2>1. /\ a.addr \in F /\ Good(n, a, G) /\ SameOutside(n, m.word, a.word, {a.addr})
        /\ a.failed = m.failed /\ a.word[a.addr] = Blank
    BY <1>4 DEF Took
  <2>2. /\ F \in SUBSET Pages(n) /\ G \in SUBSET F
        /\ a.addr \in Pages(n) /\ a.addr # NULL /\ a.addr # map /\ map \notin G /\ a.addr \notin G
    BY <2>1 DEF Good, Pages, NULL
  <2>3. a.word[map] = Blank
    BY <2>1, <2>2 DEF SameOutside, PgdOnly
  <2>4. F = G \cup {a.addr}
    BY <2>1
  <2> HIDE DEF G
  <2>5. \/ MapStops(n, a, b, G, map)
        \/ \E pud, pmd \in G :
             /\ pud # pmd /\ b.addr # NULL /\ b.failed = a.failed
             /\ Good(n, b, G \ {pud, pmd})
             /\ Whole(b.word, map, pud, pmd, a.addr)
             /\ SameOutside(n, a.word, b.word, {map, pud, pmd})
    BY <2>1, <2>2, <2>3, MapPageOK DEF PgdOnly
  <2> HIDE DEF b
  <2>6. CASE MapStops(n, a, b, G, map)
    <3>1. b.addr = NULL /\ b.failed = m.failed /\ Good(n, b, {})
      BY <2>1, <2>6 DEF MapStops
    <3>2. Freed(n, b, c, {}, a.addr)
      BY <2>2, <3>1, kfreeOK
    <3> HIDE DEF c
    <3>3. Good(n, c, {a.addr}) /\ SameOutside(n, b.word, c.word, {a.addr}) /\ c.failed = m.failed
      BY <3>1, <3>2 DEF Freed
    <3>4. \E S \in SUBSET Pages(n) : /\ FreedAll(n, c, d, {a.addr}, S)
                                     /\ {a.addr} \cup S = F \cup {map}
      <4>1. CASE G = {} /\ b.word = a.word
        <5>1. PgdOnly(c.word, map)
          BY <2>2, <2>3, <3>3, <4>1 DEF PgdOnly, SameOutside
        <5>2. FreedAll(n, c, d, {a.addr}, {map})
          BY <2>2, <3>3, <5>1, FreeVmPgd
        <5> QED BY <2>4, <4>1, <5>2
      <4>2. CASE \E pud \in G : /\ G = {pud}
                                /\ PgdAndPud(b.word, map, pud)
                                /\ SameOutside(n, a.word, b.word, {map, pud})
        <5>1. PICK pud \in G : G = {pud} /\ PgdAndPud(b.word, map, pud)
          BY <4>2
        <5>2. pud \in Pages(n) /\ pud # map /\ pud # a.addr
          BY <2>2, <5>1
        <5>3. PgdAndPud(c.word, map, pud)
          BY <2>2, <3>3, <5>1, <5>2 DEF PgdAndPud, SameOutside
        <5>4. FreedAll(n, c, d, {a.addr}, {map, pud})
          BY <2>2, <3>3, <5>2, <5>3, FreeVmPud
        <5> QED BY <2>4, <5>1, <5>2, <5>4
      <4> QED BY <2>6, <4>1, <4>2 DEF MapStops
    <3> HIDE DEF d
    <3>5. Good(n, d, F \cup {map}) /\ d.failed = m.failed
      BY <3>3, <3>4 DEF FreedAll
    <3>6. SameOutside(n, c.word, d.word, F \cup {map})
      BY <3>4 DEF FreedAll, SameOutside
    <3>7. SameOutside(n, a.word, b.word, F \cup {map})
      BY <2>4, <2>6 DEF MapStops, SameOutside
    <3>8. SameOutside(n, m.word, d.word, F \cup {map})
      BY <2>1, <3>3, <3>6, <3>7 DEF SameOutside
    <3>9. k = e
      BY <1>1, <2>2, <3>1
    <3>10. NULL \in Pages(n) \cup {NULL}
      OBVIOUS
    <3>11. Good(n, e, F \cup {map}) /\ e.addr = NULL /\ e.word = d.word /\ e.failed = d.failed
      BY <3>5, <3>10, SetAddr
    <3> HIDE DEF e
    <3>12. FewPages(F)
      BY <2>4, <2>6 DEF MapStops, FewPages
    <3> QED BY <3>5, <3>8, <3>9, <3>11, <3>12 DEF NoMap
  <2>7. CASE ~ MapStops(n, a, b, G, map)
    <3>1. PICK pud \in G, pmd \in G :
             /\ pud # pmd /\ b.addr # NULL /\ b.failed = a.failed
             /\ Good(n, b, G \ {pud, pmd})
             /\ Whole(b.word, map, pud, pmd, a.addr)
             /\ SameOutside(n, a.word, b.word, {map, pud, pmd})
      BY <2>5, <2>7
    <3> DEFINE r == [b EXCEPT !.addr = a.addr]
    <3>2. k = r
      BY <1>1, <2>2, <3>1
    <3>3. pud # a.addr /\ pmd # a.addr /\ pud \in F /\ pmd \in F /\ pud # map /\ pmd # map
      BY <2>2, <3>1
    <3>4. G \ {pud, pmd} = F \ {pud, pmd, a.addr}
      BY <2>2, <2>4
    <3>5. /\ Good(n, r, G \ {pud, pmd}) /\ r.addr = a.addr
          /\ r.word = b.word /\ r.failed = b.failed
      BY <2>2, <3>1, SetAddr
    <3> HIDE DEF r
    <3>6. r.word[a.addr] = Blank
      BY <2>1, <2>2, <3>1, <3>3, <3>5 DEF SameOutside
    <3>7. SameOutside(n, m.word, r.word, {map, pud, pmd, a.addr})
      BY <2>1, <3>1, <3>5 DEF SameOutside
    <3>8. NewMap(n, m, r, F, map)
      <4>1. Whole(r.word, map, pud, pmd, a.addr) /\ r.failed = m.failed
        BY <2>1, <3>1, <3>5
      <4>2. Good(n, r, F \ {pud, pmd, a.addr})
        BY <3>4, <3>5
      <4> QED BY <2>1, <3>1, <3>3, <3>5, <3>7, <4>1, <4>2 DEF NewMap
    <3> QED BY <3>2, <3>5, <3>6, <3>8
  <2> QED BY <2>6, <2>7
<1> QED BY <1>2, <1>3, <1>4

\* setup_uvm() makes a map and fills its page, or gives back what it took when
\* the pages do not do or the file cannot be loaded.
LEMMA SetupUvmOK ==
  ASSUME NEW n \in Nat, NEW m, NEW F, Good(n, m, F), NEW map \in Pages(n), map \notin F,
         PgdOnly(m.word, map), NEW loaded \in BOOLEAN
  PROVE  \/ NewMap(n, m, setup_uvm(m, map, loaded), F, map)
         \/ NoMap(n, m, setup_uvm(m, map, loaded), F, map) /\ (FewPages(F) \/ ~ loaded)
<1> DEFINE a == NewUserPage(m, map)
           b == free_vm(a, map)
           k == setup_uvm(m, map, loaded)
<1> SUFFICES \/ NewMap(n, m, k, F, map)
             \/ NoMap(n, m, k, F, map) /\ (FewPages(F) \/ ~ loaded)
  OBVIOUS
<1>1. k = IF a.addr # NULL /\ ~ loaded THEN [b EXCEPT !.addr = NULL] ELSE a
  BY DEF setup_uvm
<1>2. NewMap(n, m, a, F, map) \/ (NoMap(n, m, a, F, map) /\ FewPages(F))
  BY NewUserPageOK
<1> HIDE DEF a, k
<1>3. CASE ~ NewMap(n, m, a, F, map)
  <2>1. a.addr = NULL
    BY <1>2, <1>3 DEF NoMap
  <2> QED BY <1>1, <1>2, <1>3, <2>1
<1>4. CASE NewMap(n, m, a, F, map) /\ loaded
  BY <1>1, <1>4
<1>5. CASE NewMap(n, m, a, F, map) /\ ~ loaded
  <2>1. PICK pud \in F, pmd \in F, user \in F :
          /\ pud # pmd /\ pud # user /\ pmd # user
          /\ a.addr = user
          /\ Good(n, a, F \ {pud, pmd, user})
          /\ Whole(a.word, map, pud, pmd, user)
          /\ SameOutside(n, m.word, a.word, {map, pud, pmd, user})
          /\ a.failed = m.failed
    BY <1>5 DEF NewMap
  <2> DEFINE G == F \ {pud, pmd, user}
  <2>2. FourPages(n, map, pud, pmd, user) /\ a.addr # NULL
    BY <2>1 DEF FourPages, Good, Pages, NULL
  <2>3. {map, pud, pmd, user} \cap G = {}
    OBVIOUS
  <2>4. G \cup {map, pud, pmd, user} = F \cup {map}
    OBVIOUS
  <2> HIDE DEF G
  <2>5. Good(n, a, G)
    BY <2>1 DEF G
  <2>6. FreedAll(n, a, b, G, {map, pud, pmd, user})
    BY <2>1, <2>2, <2>3, <2>5, FreeVmWhole
  <2> HIDE DEF b
  <2> DEFINE e == [b EXCEPT !.addr = NULL]
  <2>7. k = e
    BY <1>1, <1>5, <2>2
  <2>8. Good(n, b, F \cup {map}) /\ b.failed = m.failed
    BY <2>1, <2>4, <2>6 DEF FreedAll
  <2>9. SameOutside(n, m.word, b.word, F \cup {map})
    BY <2>1, <2>6 DEF FreedAll, SameOutside
  <2>10. NULL \in Pages(n) \cup {NULL}
    OBVIOUS
  <2>11. Good(n, e, F \cup {map}) /\ e.addr = NULL /\ e.word = b.word /\ e.failed = b.failed
    BY <2>8, <2>10, SetAddr
  <2> HIDE DEF e
  <2> QED BY <1>5, <2>7, <2>8, <2>9, <2>11 DEF NoMap
<1> QED BY <1>3, <1>4, <1>5

\* The hardware finds the user page of a whole map.
LEMMA WholeUserPage ==
  ASSUME NEW w, NEW map, NEW pud, NEW pmd, NEW user, Whole(w, map, pud, pmd, user)
  PROVE  UserPage(w, map) = user
BY OnlyLeads DEF Whole, UserPage, Slots, PMD

\* copy_uvm() makes a map and a copy of the other user page, or gives back what
\* it took.  The map that is copied is left as it is.
LEMMA CopyUvmOK ==
  ASSUME NEW n \in Nat, NEW m, NEW F, Good(n, m, F), NEW map \in Pages(n), map \notin F,
         PgdOnly(m.word, map),
         NEW from, NEW pud0, NEW pmd0, NEW user0, FourPages(n, from, pud0, pmd0, user0),
         Whole(m.word, from, pud0, pmd0, user0),
         {from, pud0, pmd0, user0} \cap (F \cup {map}) = {}
  PROVE  \/ /\ NewMap(n, m, copy_uvm(m, map, from), F, map)
            /\ LET k == copy_uvm(m, map, from) IN k.word[k.addr] = m.word[user0]
         \/ NoMap(n, m, copy_uvm(m, map, from), F, map) /\ FewPages(F)
<1> DEFINE a == NewUserPage(m, map)
           k == copy_uvm(m, map, from)
           p == UserPage(a.word, from)
<1> SUFFICES \/ NewMap(n, m, k, F, map) /\ k.word[k.addr] = m.word[user0]
             \/ NoMap(n, m, k, F, map) /\ FewPages(F)
  OBVIOUS
<1>1. k = IF a.addr = NULL THEN a ELSE [a EXCEPT !.word[a.addr] = a.word[p]]
  BY DEF copy_uvm
<1>2. NewMap(n, m, a, F, map) \/ (NoMap(n, m, a, F, map) /\ FewPages(F))
  BY NewUserPageOK
<1> HIDE DEF a, k
<1>3. CASE ~ NewMap(n, m, a, F, map)
  BY <1>1, <1>2, <1>3 DEF NoMap
<1>4. CASE NewMap(n, m, a, F, map)
  <2>1. PICK pud \in F, pmd \in F, user \in F :
          /\ pud # pmd /\ pud # user /\ pmd # user
          /\ a.addr = user
          /\ Good(n, a, F \ {pud, pmd, user})
          /\ Whole(a.word, map, pud, pmd, user)
          /\ SameOutside(n, m.word, a.word, {map, pud, pmd, user})
          /\ a.failed = m.failed
    BY <1>4 DEF NewMap
  <2> DEFINE G == F \ {pud, pmd, user}
             x == a.word[user0]
             v == [a.word EXCEPT ![user] = x]
             r == [a EXCEPT !.word = v]
  <2>2. FourPages(n, map, pud, pmd, user) /\ a.addr # NULL /\ user \notin G
    BY <2>1 DEF FourPages, Good, Pages, NULL
  <2>3. /\ Whole(a.word, from, pud0, pmd0, user0) /\ a.word[user0] = m.word[user0]
        /\ user0 \in Pages(n) /\ user \in Pages(n)
    BY <2>1, <2>2 DEF FourPages, SameOutside, Whole
  <2>4. p = user0
    BY <2>3, WholeUserPage
  <2> HIDE DEF p
  <2>5. k = r
    BY <1>1, <2>1, <2>2, <2>4
  <2> HIDE DEF G
  <2>6. Good(n, a, G)
    BY <2>1 DEF G
  <2>7. a \in Memories(n) /\ a.word \in Words(n)
    BY <2>6, MemoryFields DEF Good
  <2>8. x \in [Slots -> Sound(n)]
    BY <2>3, <2>7 DEF Words
  <2> HIDE DEF x
  <2>9. v \in Words(n) /\ v[user] = x /\ SameOutside(n, a.word, v, {user})
    <3> DEFINE w == a.word
    <3>1. w \in Words(n) /\ user \in Pages(n)
      BY <2>3, <2>7
    <3> HIDE DEF w
    <3>2. /\ [w EXCEPT ![user] = x] \in Words(n) /\ [w EXCEPT ![user] = x][user] = x
          /\ SameOutside(n, w, [w EXCEPT ![user] = x], {user})
      BY <2>8, <3>1, WordsUpdate
    <3> QED BY <3>2 DEF w
  <2> HIDE DEF v
  <2>10. r \in Memories(n) /\ r.word = v /\ r.free = a.free /\ r.addr = a.addr /\ r.failed = a.failed
    BY <2>7, <2>9 DEF Memories
  <2> HIDE DEF r
  <2>11. Good(n, r, G)
    <3>1. {user} \cap G = {} /\ SameOutside(n, a.word, r.word, {user})
      BY <2>2, <2>9, <2>10
    <3> QED BY <2>6, <2>10, <3>1, WritePage
  <2>12. Whole(v, map, pud, pmd, user)
    BY <2>1, <2>2, <2>9 DEF Whole, FourPages, SameOutside
  <2>13. SameOutside(n, m.word, v, {map, pud, pmd, user})
    BY <2>1, <2>9 DEF SameOutside
  <2>14. NewMap(n, m, r, F, map)
    BY <2>1, <2>10, <2>11, <2>12, <2>13 DEF NewMap, G
  <2>15. r.word[r.addr] = m.word[user0]
    BY <2>1, <2>3, <2>9, <2>10 DEF x
  <2> QED BY <2>5, <2>14, <2>15
<1> QED BY <1>3, <1>4

-----------------------------------------------------------------------------
(* FreePages is the set F that the lemmas above speak of.                  *)

\* A chain has no more links than there are pages.
LEMMA ChainLength ==
  ASSUME NEW n \in Nat, NEW w, NEW c \in Nat,
         NEW at \in [0 .. c -> Pages(n) \cup {NULL}], Chain(n, w, at, c)
  PROVE  c <= n
<1> DEFINE b == [k \in 1 .. c |-> at[k]]
<1>1. b \in [1 .. c -> Pages(n)]
  <2>1. \A k \in 1 .. c : k \in 0 .. c /\ at[k] # NULL
    BY DEF Chain
  <2> QED BY <2>1
<1>2. \A j, k \in 1 .. c : b[j] = b[k] => j = k
  BY DEF Chain
<1>3. b \in Injection(1 .. c, Pages(n))
  BY <1>1, <1>2 DEF Injection, IsInjective
<1>4. /\ IsFiniteSet(1 .. c) /\ Cardinality(1 .. c) = c
      /\ IsFiniteSet(1 .. n) /\ Cardinality(1 .. n) = n
  <2>1. 1 \in Int /\ c \in Int /\ n \in Int
    OBVIOUS
  <2>2. IsFiniteSet(1 .. c) /\ IsFiniteSet(1 .. n)
    BY <2>1, FS_Interval
  <2>3. Cardinality(1 .. c) = IF 1 > c THEN 0 ELSE c - 1 + 1
    BY <2>1, FS_Interval
  <2>4. Cardinality(1 .. n) = IF 1 > n THEN 0 ELSE n - 1 + 1
    BY <2>1, FS_Interval
  <2> QED BY <2>2, <2>3, <2>4
<1>5. Cardinality(1 .. c) <= Cardinality(1 .. n)
  BY <1>3, <1>4, FS_Injection DEF Pages
<1> QED BY <1>4, <1>5

\* Followed is the one function that satisfies its definition: two that do
\* agree at 0 and, if at one number, at the next.
LEMMA FollowedUnique ==
  ASSUME NEW f,
         f = [i \in Nat |-> IF i = 0 THEN {free_memory}
                            ELSE UNION {{p, After(p)} : p \in f[i - 1]}]
  PROVE  \A i \in Nat : Followed[i] = f[i]
<1> DEFINE g == Followed
           D == {i \in Nat : g[i] # f[i]}
<1>1. g = [i \in Nat |-> IF i = 0 THEN {free_memory}
                         ELSE UNION {{p, After(p)} : p \in g[i - 1]}]
  BY DEF Followed
<1> HIDE DEF g
<1>2. \A i \in Nat : f[i] = IF i = 0 THEN {free_memory} ELSE UNION {{p, After(p)} : p \in f[i - 1]}
  OBVIOUS
<1>3. \A i \in Nat : g[i] = IF i = 0 THEN {free_memory} ELSE UNION {{p, After(p)} : p \in g[i - 1]}
  BY <1>1
<1>4. D = {}
  <2> SUFFICES ASSUME D # {} PROVE FALSE
    OBVIOUS
  <2>1. D \in SUBSET Nat
    OBVIOUS
  <2> DEFINE b == Min(D)
  <2>2. b \in D /\ \A i \in D : b <= i
    BY <2>1, MinOfNats
  <2> HIDE DEF b
  <2>3. b \in Nat /\ g[b] # f[b]
    BY <2>2
  <2>4. CASE b = 0
    BY <1>2, <1>3, <2>3, <2>4
  <2>5. CASE b # 0
    <3>1. b - 1 \in Nat /\ ~ (b <= b - 1)
      BY <2>3, <2>5
    <3>2. g[b - 1] = f[b - 1]
      BY <2>2, <3>1
    <3> QED BY <1>2, <1>3, <2>3, <2>5, <3>2
  <2> QED BY <2>4, <2>5
<1> QED BY <1>4 DEF g

\* After as many links as there are pages, kalloc() has been led to all the
\* pages on the free list and to its end.
LEMMA FollowedIs ==
  ASSUME heap \in Nat, NEW F, FreeList(heap, free_memory, word, F)
  PROVE  Followed[heap] = F \cup {NULL} /\ FreePages = F
<1>0. PICK c \in Nat : \E at \in [0 .. c -> Pages(heap) \cup {NULL}] :
        Chain(heap, word, at, c) /\ at[c] = free_memory /\ F = {at[k] : k \in 1 .. c}
  BY DEF FreeList
<1>1. PICK at \in [0 .. c -> Pages(heap) \cup {NULL}] :
        Chain(heap, word, at, c) /\ at[c] = free_memory /\ F = {at[k] : k \in 1 .. c}
  BY <1>0
<1>2. c <= heap
  BY <1>1, ChainLength
<1> DEFINE last(i) == {k \in 0 .. c : c - i <= k}
           f == [i \in Nat |-> {at[k] : k \in last(i)}]
<1>3. at[0] = NULL /\ \A k \in 1 .. c : at[k] # NULL /\ word[at[k]][0].page = at[k - 1]
  BY <1>1 DEF Chain
<1>4. \A k \in 1 .. c : After(at[k]) = at[k - 1]
  BY <1>3 DEF After
<1>5. After(at[0]) = at[0]
  BY <1>3 DEF After
<1>6. \A i \in Nat : f[i] = IF i = 0 THEN {free_memory}
                            ELSE UNION {{p, After(p)} : p \in f[i - 1]}
  <2> TAKE i \in Nat
  <2>1. CASE i = 0
    <3>1. last(0) = {c}
      OBVIOUS
    <3> QED BY <1>1, <2>1, <3>1
  <2>2. CASE i # 0
    <3>1. i - 1 \in Nat
      BY <2>2
    <3>2. \A k \in last(i - 1) : k \in last(i) /\ (k # 0 => k \in 1 .. c /\ k - 1 \in last(i))
      BY <3>1
    <3>3. \A k \in last(i) : k \in last(i - 1) \/ (k + 1 \in last(i - 1) /\ k + 1 \in 1 .. c /\ (k + 1) - 1 = k)
      BY <3>1
    <3>4. f[i] = {at[k] : k \in last(i)} /\ f[i - 1] = {at[k] : k \in last(i - 1)}
      BY <3>1
    <3>5. \A k \in last(i - 1) : at[k] \in f[i] /\ After(at[k]) \in f[i]
      <4> HIDE DEF last, f
      <4> TAKE k \in last(i - 1)
      <4>1. CASE k = 0
        BY <1>5, <3>2, <3>4, <4>1
      <4>2. CASE k # 0
        <5>1. After(at[k]) = at[k - 1] /\ k - 1 \in last(i)
          BY <1>4, <3>2, <4>2
        <5> QED BY <3>2, <3>4, <5>1
      <4> QED BY <4>1, <4>2
    <3>6. \A k \in last(i) : \E p \in f[i - 1] : at[k] = p \/ at[k] = After(p)
      <4> HIDE DEF f, last
      <4> TAKE k \in last(i)
      <4>1. CASE k \in last(i - 1)
        BY <3>4, <4>1
      <4>2. CASE k + 1 \in last(i - 1) /\ k + 1 \in 1 .. c /\ (k + 1) - 1 = k
        <5>1. After(at[k + 1]) = at[k]
          BY <1>4, <4>2
        <5> QED BY <3>4, <4>2, <5>1
      <4> QED BY <3>3, <4>1, <4>2
    <3> HIDE DEF f
    <3>7. f[i] = UNION {{p, After(p)} : p \in f[i - 1]}
      <4> HIDE DEF last
      <4> QED BY <3>4, <3>5, <3>6
    <3> QED BY <2>2, <3>7
  <2> QED BY <2>1, <2>2
<1>7. f = [i \in Nat |-> IF i = 0 THEN {free_memory}
                         ELSE UNION {{p, After(p)} : p \in f[i - 1]}]
  <2> DEFINE h == [i \in Nat |-> IF i = 0 THEN {free_memory}
                                 ELSE UNION {{p, After(p)} : p \in f[i - 1]}]
  <2>1. \A i \in Nat : h[i] = f[i]
    BY <1>6
  <2>2. f = [i \in Nat |-> f[i]] /\ h = [i \in Nat |-> h[i]]
    OBVIOUS
  <2> HIDE DEF f
  <2> QED BY <2>1, <2>2
<1>8. Followed[heap] = f[heap]
  <2> HIDE DEF f
  <2> QED BY <1>7, FollowedUnique
<1>9. last(heap) = 0 .. c
  BY <1>2
<1>10. f[heap] = F \cup {NULL}
  <2>1. f[heap] = {at[k] : k \in 0 .. c}
    BY <1>9
  <2>2. \A k \in 0 .. c : k = 0 \/ k \in 1 .. c
    OBVIOUS
  <2>3. 0 \in 0 .. c /\ \A k \in 1 .. c : k \in 0 .. c
    OBVIOUS
  <2> HIDE DEF f
  <2> QED BY <1>1, <1>3, <2>1, <2>2, <2>3
<1>11. NULL \notin F
  BY <1>1, <1>3
<1> QED BY <1>8, <1>10, <1>11 DEF FreePages

-----------------------------------------------------------------------------
(* The pages of a process.                                                 *)

\* The tables that a map leads to.
Pud(w, map) == w[map][0].page
Pmd(w, map) == w[Pud(w, map)][0].page

Tables(w, map) == {map, Pud(w, map), Pmd(w, map)}
FiveOf(w, s, map) == {s} \cup Tables(w, map) \cup {UserPage(w, map)}

\* A process with stack s and this map has five different pages, and the three
\* tables have one entry each.
Holds(n, w, s, map) ==
  /\ s \in Pages(n) /\ s \notin Tables(w, map) \cup {UserPage(w, map)}
  /\ FourPages(n, map, Pud(w, map), Pmd(w, map), UserPage(w, map))
  /\ Whole(w, map, Pud(w, map), Pmd(w, map), UserPage(w, map))

\* A map with all its tables, and a stack beside it, are five pages.
LEMMA WholeHolds ==
  ASSUME NEW n, NEW w, NEW s \in Pages(n), NEW map, NEW pud, NEW pmd, NEW user,
         FourPages(n, map, pud, pmd, user), Whole(w, map, pud, pmd, user),
         s \notin {map, pud, pmd, user}
  PROVE  /\ Holds(n, w, s, map)
         /\ FiveOf(w, s, map) = {s, map, pud, pmd, user}
         /\ Tables(w, map) = {map, pud, pmd} /\ UserPage(w, map) = user
<1>1. UserPage(w, map) = user
  BY WholeUserPage
<1>2. Pud(w, map) = pud /\ Pmd(w, map) = pmd
  BY OnlyLeads DEF Whole, Pud, Pmd, Slots
<1> QED BY <1>1, <1>2 DEF Holds, FiveOf, Tables

\* As long as its tables are not written to, a process keeps its pages.
LEMMA HoldsFrame ==
  ASSUME NEW n, NEW w, NEW v, NEW s, NEW map, NEW S,
         Holds(n, w, s, map), SameOutside(n, w, v, S), Tables(w, map) \cap S = {}
  PROVE  /\ Holds(n, v, s, map)
         /\ FiveOf(v, s, map) = FiveOf(w, s, map)
         /\ Tables(v, map) = Tables(w, map)
         /\ UserPage(v, map) = UserPage(w, map)
<1> DEFINE pud == Pud(w, map)
           pmd == Pmd(w, map)
           user == UserPage(w, map)
<1>1. FourPages(n, map, pud, pmd, user) /\ Whole(w, map, pud, pmd, user)
      /\ s \in Pages(n) /\ s \notin {map, pud, pmd, user}
  BY DEF Holds, Tables
<1>2. v[map] = w[map] /\ v[pud] = w[pud] /\ v[pmd] = w[pmd]
  BY <1>1 DEF FourPages, SameOutside, Tables
<1>3. Whole(v, map, pud, pmd, user)
  BY <1>1, <1>2 DEF Whole
<1> HIDE DEF pud, pmd, user
<1>4. /\ Holds(n, v, s, map) /\ FiveOf(v, s, map) = {s, map, pud, pmd, user}
      /\ Tables(v, map) = {map, pud, pmd} /\ UserPage(v, map) = user
  BY <1>1, <1>3, WholeHolds
<1>5. /\ FiveOf(w, s, map) = {s, map, pud, pmd, user}
      /\ Tables(w, map) = {map, pud, pmd} /\ UserPage(w, map) = user
  BY <1>1, WholeHolds
<1> QED BY <1>4, <1>5

\* Five different pages are five.
LEMMA FiveCount ==
  ASSUME NEW n, NEW w, NEW s, NEW map, Holds(n, w, s, map)
  PROVE  /\ FiveOf(w, s, map) \in SUBSET Pages(n)
         /\ Tables(w, map) \in SUBSET FiveOf(w, s, map)
         /\ UserPage(w, map) \in FiveOf(w, s, map) /\ UserPage(w, map) \notin Tables(w, map)
         /\ IsFiniteSet(FiveOf(w, s, map)) /\ Cardinality(FiveOf(w, s, map)) = 5
<1> DEFINE pud == Pud(w, map)
           pmd == Pmd(w, map)
           user == UserPage(w, map)
<1>1. FourPages(n, map, pud, pmd, user) /\ s \in Pages(n) /\ s \notin {map, pud, pmd, user}
  BY DEF Holds, Tables
<1>2. FiveOf(w, s, map) = {s, map, pud, pmd, user} /\ Tables(w, map) = {map, pud, pmd}
  BY DEF FiveOf, Tables
<1> HIDE DEF pud, pmd, user
<1>3. IsFiniteSet({s}) /\ Cardinality({s}) = 1
  BY FS_Singleton
<1>4. IsFiniteSet({s, map}) /\ Cardinality({s, map}) = 2
  <2>1. map \notin {s} /\ {s} \cup {map} = {s, map}
    BY <1>1
  <2> QED BY <1>3, <2>1, FS_AddElement
<1>5. IsFiniteSet({s, map, pud}) /\ Cardinality({s, map, pud}) = 3
  <2>1. pud \notin {s, map} /\ {s, map} \cup {pud} = {s, map, pud}
    BY <1>1 DEF FourPages
  <2> QED BY <1>4, <2>1, FS_AddElement
<1>6. IsFiniteSet({s, map, pud, pmd}) /\ Cardinality({s, map, pud, pmd}) = 4
  <2>1. pmd \notin {s, map, pud} /\ {s, map, pud} \cup {pmd} = {s, map, pud, pmd}
    BY <1>1 DEF FourPages
  <2> QED BY <1>5, <2>1, FS_AddElement
<1>7. IsFiniteSet({s, map, pud, pmd, user}) /\ Cardinality({s, map, pud, pmd, user}) = 5
  <2>1. /\ user \notin {s, map, pud, pmd}
        /\ {s, map, pud, pmd} \cup {user} = {s, map, pud, pmd, user}
    BY <1>1 DEF FourPages
  <2> QED BY <1>6, <2>1, FS_AddElement
<1> QED BY <1>1, <1>2, <1>7 DEF FourPages, user

\* What Owned finds by following the page map of a process in use is these five.
LEMMA OwnedIs ==
  ASSUME heap \in Nat, NEW p \in Proc, state[p] = "READY", Holds(heap, word, stack[p], page_map[p])
  PROVE  Owned(p) = FiveOf(word, stack[p], page_map[p])
<1> DEFINE map == page_map[p]
           pud == Pud(word, map)
           pmd == Pmd(word, map)
           user == UserPage(word, map)
<1>1. FourPages(heap, map, pud, pmd, user) /\ Whole(word, map, pud, pmd, user)
      /\ stack[p] \in Pages(heap)
  BY DEF Holds
<1>2. map # NULL /\ NULL \notin {stack[p], map, pud, pmd, user}
  BY <1>1 DEF FourPages, Pages, NULL
<1>3. Owned(p) = ({stack[p]} \cup MapPages(map) \cup {user}) \ {NULL}
  BY DEF Owned
<1>4. FiveOf(word, stack[p], map) = {stack[p], map, pud, pmd, user}
  BY DEF FiveOf, Tables
<1> HIDE DEF map, pud, pmd, user
<1>5. ASSUME NEW t, NEW q, word[t] = Only(0, q) PROVE Leads(t) = {q}
  BY <1>5, OnlyLeads DEF Leads, Slots
<1>6. Leads(map) = {pud} /\ Leads(pud) = {pmd}
  BY <1>1, <1>5 DEF Whole
<1>7. MapPages(map) = {map, pud, pmd}
  BY <1>2, <1>6 DEF MapPages
<1> QED BY <1>2, <1>3, <1>4, <1>7 DEF map

\* A slot not in use has no pages.
LEMMA OwnedNone ==
  ASSUME NEW p \in Proc, state[p] = "UNUSED", stack[p] = NULL, page_map[p] = NULL
  PROVE  Owned(p) = {}
BY DEF Owned, MapPages

-----------------------------------------------------------------------------
(* The invariant.                                                          *)

InUse   == {p \in Proc : state[p] = "READY"}
Held(p) == FiveOf(word, stack[p], page_map[p])

\* The free pages are F: the head of the list is free, and it is in these words.
Frees(n, free, w, F) ==
  free \in Pages(n) \cup {NULL} /\ w \in Words(n) /\ FreeList(n, free, w, F)

\* While the kernel runs each page is in one place: on the free list, in fs.c's
\* tables, or one of the five of a process.
Apart(F) ==
  /\ \A p \in Proc \ InUse : state[p] = "UNUSED" /\ stack[p] = NULL /\ page_map[p] = NULL
  /\ \A p \in InUse : /\ Holds(heap, word, stack[p], page_map[p])
                      /\ Held(p) \cap (F \cup Range(tables)) = {}
  /\ \A p, q \in InUse : p # q => Held(p) \cap Held(q) = {}
  /\ F \cap Range(tables) = {}
  /\ \A x \in Pages(heap) : x \in F \/ x \in Range(tables) \/ \E p \in InUse : x \in Held(p)

MemoryInv ==
  /\ TypeOK
  /\ Frees(heap, free_memory, word, FreePages)
  /\ NoPageLost
  /\ MemoryAsserts
  /\ EnoughIsEnough
  /\ panic = "none" => Apart(FreePages)
  /\ panic = "none" /\ booted = "memory" => Len(tables) < 2

\* The list that memory.c starts from is the list the invariant speaks of.
LEMMA FreesGood ==
  ASSUME NEW n \in Nat, NEW F, Frees(n, free_memory, word, F)
  PROVE  Good(n, Memory, F) /\ Memory.word = word /\ Memory.failed = FALSE
<1>1. F \in SUBSET Pages(n)
  BY FreeListEmpty DEF Frees
<1>2. Memory \in Memories(n)
  BY DEF Memory, Memories, Frees
<1> QED BY <1>1, <1>2 DEF Memory, Good, Frees

\* A free list that is Good is what the invariant says of it.
LEMMA GoodFrees ==
  ASSUME NEW n \in Nat, NEW m, NEW F, Good(n, m, F)
  PROVE  Frees(n, m.free, m.word, F) /\ F \in SUBSET Pages(n)
BY MemoryFields DEF Good, Frees

\* Sizes of the heap are numbers.
LEMMA HeapIsNat == ASSUME TypeOK PROVE heap \in Nat
BY MemoryAssumption DEF TypeOK

\* init_fs() adds its page to those the kernel keeps.
LEMMA RangeAppend ==
  ASSUME NEW S, NEW s \in Seq(S), NEW x \in S
  PROVE  Range(Append(s, x)) = Range(s) \cup {x}
<1>1. /\ DOMAIN Append(s, x) = 1 .. Len(s) + 1
      /\ \A i \in 1 .. Len(s) : Append(s, x)[i] = s[i]
      /\ Append(s, x)[Len(s) + 1] = x
  OBVIOUS
<1>2. DOMAIN s = 1 .. Len(s) /\ Len(s) \in Nat
  OBVIOUS
<1>3. \A i \in 1 .. Len(s) + 1 : i \in 1 .. Len(s) \/ i = Len(s) + 1
  BY <1>2
<1>4. Len(s) + 1 \in 1 .. Len(s) + 1 /\ \A i \in 1 .. Len(s) : i \in 1 .. Len(s) + 1
  BY <1>2
<1> DEFINE t == Append(s, x)
<1> HIDE DEF t
<1> QED BY <1>1, <1>2, <1>3, <1>4 DEF Range, t

\* What is not free is in the tables of fs.c or held, by five to a process.
LEMMA FreePagesCount ==
  ASSUME TypeOK, NEW F, F \in SUBSET Pages(heap), Apart(F)
  PROVE  /\ IsFiniteSet(F) /\ Cardinality(F) \in Nat
         /\ IsFiniteSet(InUse) /\ Cardinality(InUse) \in Nat /\ Cardinality(InUse) <= Cardinality(Proc)
         /\ heap <= Cardinality(F) + Len(tables) + 5 * Cardinality(InUse)
<1> DEFINE R == Range(tables)
           U == UNION {Held(p) : p \in InUse}
           D == InUse \X (1 .. 5)
           five(p, i) == IF i = 1 THEN stack[p]
                         ELSE IF i = 2 THEN page_map[p]
                         ELSE IF i = 3 THEN Pud(word, page_map[p])
                         ELSE IF i = 4 THEN Pmd(word, page_map[p])
                         ELSE UserPage(word, page_map[p])
           h == [x \in D |-> five(x[1], x[2])]
<1>1. heap \in Nat /\ IsFiniteSet(Proc)
  BY HeapIsNat, MemoryAssumption
<1>2. IsFiniteSet(Pages(heap)) /\ Cardinality(Pages(heap)) = heap
  <2>1. 1 \in Int /\ heap \in Int
    BY <1>1
  <2>2. IsFiniteSet(1 .. heap) /\ Cardinality(1 .. heap) = IF 1 > heap THEN 0 ELSE heap - 1 + 1
    BY <2>1, FS_Interval
  <2> QED BY <1>1, <2>2 DEF Pages
<1>3. IsFiniteSet(F) /\ Cardinality(F) \in Nat
  BY <1>2, FS_Subset, FS_CardinalityType
<1>4. /\ IsFiniteSet(InUse) /\ Cardinality(InUse) \in Nat
      /\ Cardinality(InUse) <= Cardinality(Proc)
  <2>1. InUse \in SUBSET Proc
    BY DEF InUse
  <2> QED BY <1>1, <2>1, FS_Subset, FS_CardinalityType
<1>5. IsFiniteSet(R) /\ Cardinality(R) <= Len(tables) /\ Cardinality(R) \in Nat
  <2>1. Len(tables) \in Nat /\ DOMAIN tables = 1 .. Len(tables) /\ tables \in [1 .. Len(tables) -> R]
    BY DEF TypeOK, Range
  <2>2. tables \in Surjection(1 .. Len(tables), R)
    BY <2>1 DEF Surjection, Range
  <2>3. IsFiniteSet(1 .. Len(tables)) /\ Cardinality(1 .. Len(tables)) = Len(tables)
    <3>1. 1 \in Int /\ Len(tables) \in Int
      BY <2>1
    <3>2. /\ IsFiniteSet(1 .. Len(tables))
          /\ Cardinality(1 .. Len(tables)) = IF 1 > Len(tables) THEN 0 ELSE Len(tables) - 1 + 1
      BY <3>1, FS_Interval
    <3> QED BY <2>1, <3>2
  <2> QED BY <2>2, <2>3, FS_Surjection, FS_CardinalityType
<1>6. IsFiniteSet(D) /\ Cardinality(D) = Cardinality(InUse) * 5
  <2>1. IsFiniteSet(1 .. 5) /\ Cardinality(1 .. 5) = 5
    <3>1. 1 \in Int /\ 5 \in Int
      OBVIOUS
    <3>2. IsFiniteSet(1 .. 5) /\ Cardinality(1 .. 5) = IF 1 > 5 THEN 0 ELSE 5 - 1 + 1
      BY <3>1, FS_Interval
    <3> QED BY <3>2
  <2> QED BY <1>4, <2>1, FS_Product
<1>7. h \in Surjection(D, U)
  <2>1. \A p \in InUse : Held(p) = {five(p, i) : i \in 1 .. 5}
    <3> TAKE p \in InUse
    <3>1. Held(p) = {stack[p], page_map[p], Pud(word, page_map[p]), Pmd(word, page_map[p]),
                     UserPage(word, page_map[p])}
      BY DEF Held, FiveOf, Tables
    <3>2. 1 \in 1 .. 5 /\ 2 \in 1 .. 5 /\ 3 \in 1 .. 5 /\ 4 \in 1 .. 5 /\ 5 \in 1 .. 5
      OBVIOUS
    <3>3. /\ five(p, 1) = stack[p] /\ five(p, 2) = page_map[p] /\ five(p, 3) = Pud(word, page_map[p])
          /\ five(p, 4) = Pmd(word, page_map[p]) /\ five(p, 5) = UserPage(word, page_map[p])
      OBVIOUS
    <3>4. \A i \in 1 .. 5 : five(p, i) \in {five(p, 1), five(p, 2), five(p, 3), five(p, 4), five(p, 5)}
      OBVIOUS
    <3> HIDE DEF five
    <3> QED BY <3>1, <3>2, <3>3, <3>4
  <2> HIDE DEF five
  <2>2. \A x \in D : h[x] \in U
    BY <2>1
  <2>3. \A y \in U : \E x \in D : h[x] = y
    <3> TAKE y \in U
    <3>1. PICK p \in InUse : y \in Held(p)
      OBVIOUS
    <3>2. PICK i \in 1 .. 5 : y = five(p, i)
      BY <2>1, <3>1
    <3>3. <<p, i>> \in D /\ h[<<p, i>>] = y
      BY <3>2
    <3> QED BY <3>3
  <2>4. h \in [D -> U]
    BY <2>2
  <2> HIDE DEF h
  <2> QED BY <2>3, <2>4 DEF Surjection
<1>8. IsFiniteSet(U) /\ Cardinality(U) <= Cardinality(InUse) * 5 /\ Cardinality(U) \in Nat
  <2> HIDE DEF h, D, U
  <2> QED BY <1>6, <1>7, FS_Surjection, FS_CardinalityType
<1>9. /\ IsFiniteSet(F \cup R) /\ Cardinality(F \cup R) <= Cardinality(F) + Len(tables)
      /\ Cardinality(F \cup R) \in Nat
  <2>1. /\ IsFiniteSet(F \cup R)
        /\ Cardinality(F \cup R) = Cardinality(F) + Cardinality(R) - Cardinality(F \cap R)
    BY <1>3, <1>5, FS_Union
  <2>2. Cardinality(F \cap R) \in Nat
    BY <1>3, FS_Intersection, FS_CardinalityType
  <2>3. Len(tables) \in Nat
    BY DEF TypeOK
  <2> HIDE DEF R
  <2> QED BY <1>3, <1>5, <2>1, <2>2, <2>3, FS_CardinalityType
<1>10. /\ IsFiniteSet((F \cup R) \cup U) /\ Cardinality((F \cup R) \cup U) \in Nat
       /\ Cardinality((F \cup R) \cup U) <= Cardinality(F \cup R) + Cardinality(U)
  <2> HIDE DEF R, U
  <2>1. /\ IsFiniteSet((F \cup R) \cup U)
        /\ Cardinality((F \cup R) \cup U)
             = Cardinality(F \cup R) + Cardinality(U) - Cardinality((F \cup R) \cap U)
    BY <1>8, <1>9, FS_Union
  <2>2. Cardinality((F \cup R) \cap U) \in Nat
    BY <1>9, FS_Intersection, FS_CardinalityType
  <2> QED BY <1>8, <1>9, <2>1, <2>2, FS_CardinalityType
<1>11. Pages(heap) \in SUBSET ((F \cup R) \cup U)
  BY DEF Apart
<1>12. heap <= Cardinality((F \cup R) \cup U)
  <2> HIDE DEF R, U
  <2> QED BY <1>2, <1>10, <1>11, FS_Subset
<1>13. Len(tables) \in Nat
  BY DEF TypeOK
<1> HIDE DEF R, U
<1> QED BY <1>1, <1>3, <1>4, <1>8, <1>9, <1>10, <1>12, <1>13

-----------------------------------------------------------------------------
(* The steps.  Each lemma says what an action does to the places of pages, *)
(* with the memory functions it calls taken together.                      *)

\* After the step the pages of F are the free ones.
NowFree(F) == heap' = heap /\ Frees(heap, free_memory', word', F)

\* The kernel keeps page a for itself.
Reserves(a) ==
  /\ a \in FreePages /\ Len(tables) < 2
  /\ NowFree(FreePages \ {a}) /\ SameOutside(heap, word, word', {a})
  /\ tables' = Append(tables, a)
  /\ booted' = IF Len(tables) = 1 THEN "fs" ELSE "memory"
  /\ panic' = "none" /\ UNCHANGED <<state, stack, page_map>>

\* Slot q gets five pages that were free.
Creates(q) ==
  /\ state[q] = "UNUSED" /\ state' = [state EXCEPT ![q] = "READY"]
  /\ \E s, map \in Pages(heap) :
       stack' = [stack EXCEPT ![q] = s] /\ page_map' = [page_map EXCEPT ![q] = map]
  /\ LET S == FiveOf(word', stack'[q], page_map'[q])
     IN  /\ S \in SUBSET FreePages
         /\ Holds(heap, word', stack'[q], page_map'[q])
         /\ NowFree(FreePages \ S) /\ SameOutside(heap, word, word', S)
  /\ booted' = "up" /\ panic' = "none" /\ UNCHANGED tables

\* Slot q gives its five pages back.
Releases(q) ==
  /\ state[q] = "READY" /\ state' = [state EXCEPT ![q] = "UNUSED"]
  /\ stack' = [stack EXCEPT ![q] = NULL] /\ page_map' = [page_map EXCEPT ![q] = NULL]
  /\ NowFree(FreePages \cup Held(q)) /\ SameOutside(heap, word, word', Held(q))
  /\ panic' = "none" /\ booted = "up" /\ UNCHANGED <<booted, tables>>

\* Process p writes to its user page.
Writes(p) ==
  /\ state[p] = "READY" /\ panic' = "none" /\ UNCHANGED free_memory
  /\ NowFree(FreePages)
  /\ SameOutside(heap, word, word', {UserPage(word, page_map[p])})
  /\ UNCHANGED <<booted, tables, state, stack, page_map>>

\* The kernel stops for want of pages, or of a file, in slot q: what it took
\* and did not give back is the stack and the map of q.
Stops(q) ==
  /\ panic' \in {"init_fs", "alloc_new_process", "init_user_process", "fork"}
  /\ panic' # "init_user_process" => heap < 2 + PerProcess * Cardinality(Proc)
  /\ \E F \in SUBSET FreePages :
       NowFree(F) /\ FreePages \ F \in SUBSET {stack'[q], page_map'[q]}
  /\ SameOutside(heap, word, word', FreePages)
  /\ \/ UNCHANGED <<state, stack, page_map>>
     \/ /\ state[q] # "READY"
        /\ \E t \in {state[q], "INIT"}, s, map \in Pages(heap) \cup {NULL} :
             /\ state' = [state EXCEPT ![q] = t]
             /\ stack' = [stack EXCEPT ![q] = s]
             /\ page_map' = [page_map EXCEPT ![q] = map]
  /\ booted' \in {"memory", "fs", "up"} /\ UNCHANGED tables

\* With enough pages there is one left for the tables, and five for any slot.
LEMMA EnoughPages ==
  ASSUME MemoryInv, panic = "none", heap >= 2 + PerProcess * Cardinality(Proc)
  PROVE  /\ Len(tables) < 2 => FreePages # {}
         /\ (\E q \in Proc : state[q] # "READY") =>
               IsFiniteSet(FreePages) /\ Cardinality(FreePages) \in Nat /\ Cardinality(FreePages) >= 5
<1> DEFINE F == FreePages
           i == Cardinality(InUse)
           p == Cardinality(Proc)
<1>1. heap \in Nat /\ TypeOK /\ Apart(F)
  BY HeapIsNat DEF MemoryInv
<1>2. F \in SUBSET Pages(heap)
  BY <1>1, FreesGood, GoodFrees DEF MemoryInv
<1> HIDE DEF F
<1>3. /\ IsFiniteSet(F) /\ Cardinality(F) \in Nat /\ IsFiniteSet(InUse) /\ i \in Nat /\ i <= p
      /\ heap <= Cardinality(F) + Len(tables) + 5 * i
  BY <1>1, <1>2, FreePagesCount
<1>4. p \in Nat /\ IsFiniteSet(Proc) /\ Len(tables) \in Nat /\ Len(tables) <= 2
  BY <1>1, MemoryAssumption, FS_CardinalityType DEF TypeOK
<1>5. Len(tables) < 2 => Cardinality(F) # 0
  <2> HIDE DEF i, p
  <2>1. heap >= 2 + 5 * p
    BY DEF PerProcess, p
  <2> QED BY <1>1, <1>3, <1>4, <2>1
<1>6. ASSUME NEW q \in Proc, state[q] # "READY" PROVE Cardinality(F) >= 5
  <2>1. IsFiniteSet(Proc \ {q}) /\ Cardinality(Proc \ {q}) = p - 1
    BY <1>4, FS_RemoveElement
  <2>2. InUse \in SUBSET (Proc \ {q})
    BY <1>6 DEF InUse
  <2>3. i <= p - 1
    BY <2>1, <2>2, FS_Subset
  <2> HIDE DEF i, p
  <2>4. heap >= 2 + 5 * p
    BY DEF PerProcess, p
  <2> QED BY <1>1, <1>3, <1>4, <2>3, <2>4
<1>7. F = {} => Cardinality(F) = 0
  BY FS_EmptySet
<1> QED BY <1>3, <1>5, <1>6, <1>7 DEF F

\* Fewer than three pages, besides two that were taken, are fewer than five.
LEMMA FewPagesCount ==
  ASSUME NEW F, IsFiniteSet(F), FewPages(F)
  PROVE  Cardinality(F) <= 2
<1>1. CASE F = {}
  BY <1>1, FS_EmptySet
<1>2. CASE F # {}
  <2>1. PICK a \in F : TRUE
    BY <1>2
  <2>2. IsFiniteSet(F \ {a}) /\ Cardinality(F \ {a}) = Cardinality(F) - 1 /\ Cardinality(F) \in Nat
    BY FS_RemoveElement, FS_CardinalityType
  <2>3. CASE F \ {a} = {}
    BY <2>2, <2>3, FS_EmptySet
  <2>4. CASE F \ {a} # {}
    <3>1. PICK b \in F \ {a} : TRUE
      BY <2>4
    <3>2. F \ {a} = {b}
      BY <3>1 DEF FewPages
    <3>3. Cardinality({b}) = 1
      BY FS_Singleton
    <3> QED BY <2>2, <3>2, <3>3
  <2> QED BY <2>3, <2>4
<1> QED BY <1>1, <1>2

\* init_fs() takes a page for the kernel, or its assertion fails.
LEMMA InitFsDoes ==
  ASSUME MemoryInv, init_fs
  PROVE  (\E a \in Pages(heap) : Reserves(a)) \/ (\E q \in Proc : Stops(q))
<1> DEFINE m == AllocCleared(Memory)
           F == FreePages
<1>1. /\ panic = "none" /\ booted = "memory" /\ heap \in Nat /\ TypeOK /\ Len(tables) < 2
      /\ booted' = IF Len(tables) = 1 THEN "fs" ELSE "memory"
      /\ free_memory' = m.free /\ word' = m.word
      /\ panic' = IF m.failed THEN "memory" ELSE IF m.addr = NULL THEN "init_fs" ELSE "none"
      /\ tables' = IF m.addr = NULL THEN tables ELSE Append(tables, m.addr)
      /\ UNCHANGED <<heap, state, stack, page_map>>
  BY HeapIsNat DEF MemoryInv, init_fs, Becomes
<1>2. Good(heap, Memory, F) /\ Memory.word = word /\ Memory.failed = FALSE
  BY <1>1, FreesGood DEF MemoryInv
<1>3. Took(heap, Memory, m, F) \/ NoneLeft(heap, Memory, m, F)
  BY <1>1, <1>2, AllocClearedOK
<1>4. F \in SUBSET Pages(heap)
  BY <1>1, <1>2, GoodFrees
<1> HIDE DEF m, F
<1>5. CASE Took(heap, Memory, m, F)
  <2>1. m.addr \in F /\ Good(heap, m, F \ {m.addr}) /\ m.failed = FALSE
        /\ SameOutside(heap, word, m.word, {m.addr})
    BY <1>2, <1>5 DEF Took
  <2>2. m.addr \in Pages(heap) /\ m.addr # NULL
    <3>1. \A p \in Pages(heap) : p # NULL
      BY <1>1 DEF Pages, NULL
    <3> QED BY <1>4, <2>1, <3>1
  <2>3. Frees(heap, m.free, m.word, F \ {m.addr})
    BY <1>1, <2>1, GoodFrees
  <2>4. Reserves(m.addr)
    BY <1>1, <2>1, <2>2, <2>3 DEF Reserves, NowFree, F
  <2> QED BY <2>2, <2>4
<1>6. CASE NoneLeft(heap, Memory, m, F)
  <2>1. m.addr = NULL /\ Good(heap, m, F) /\ m.failed = FALSE /\ m.word = word /\ F = {}
    BY <1>2, <1>6 DEF NoneLeft
  <2>2. Frees(heap, m.free, m.word, F)
    BY <1>1, <2>1, GoodFrees
  <2>3. PICK q \in Proc : TRUE
    BY MemoryAssumption
  <2>4. heap < 2 + PerProcess * Cardinality(Proc)
    <3>1. ~ (heap >= 2 + PerProcess * Cardinality(Proc))
      BY <1>1, <2>1, EnoughPages DEF F
    <3>2. PerProcess * Cardinality(Proc) \in Nat
      BY MemoryAssumption, FS_CardinalityType DEF PerProcess
    <3> QED BY <1>1, <3>1, <3>2
  <2>5. NowFree(F) /\ F \ F = {} /\ F \in SUBSET F
    BY <1>1, <2>2 DEF NowFree
  <2>6. SameOutside(heap, word, word', F)
    BY <1>1, <2>1 DEF SameOutside
  <2>7. panic' = "init_fs" /\ UNCHANGED tables /\ booted' \in {"memory", "fs", "up"}
    BY <1>1, <2>1
  <2>8. \E G \in SUBSET F : NowFree(G) /\ F \ G \in SUBSET {stack'[q], page_map'[q]}
    BY <2>5
  <2>9. Stops(q)
    BY <1>1, <2>4, <2>6, <2>7, <2>8 DEF Stops, F
  <2> QED BY <2>9
<1> QED BY <1>3, <1>5, <1>6

\* alloc_new_process() and the Uvm call u that follows, with the five pages it
\* takes, ...
LEMMA NewProcessDoes ==
  ASSUME MemoryInv, panic = "none", NEW q \in Proc, state[q] = "UNUSED",
         NEW s, s = AllocCleared(Memory),
         NEW g, g = AllocCleared(s), NEW u, NEW where \in {"init_user_process", "fork"},
         stack' = [stack EXCEPT ![q] = s.addr],
         s.addr = NULL =>
           Becomes(s, TRUE, "alloc_new_process") /\ UNCHANGED <<state, page_map>>,
         s.addr # NULL => page_map' = [page_map EXCEPT ![q] = g.addr],
         s.addr # NULL /\ g.addr = NULL =>
           /\ Becomes(g, TRUE, "alloc_new_process")
           /\ state' = [state EXCEPT ![q] = "INIT"],
         s.addr # NULL /\ g.addr # NULL =>
           /\ Becomes(u, u.addr = NULL, where)
           /\ state' = [state EXCEPT ![q] = IF u.addr = NULL THEN "INIT" ELSE "READY"],
         \A F \in SUBSET FreePages :
           Took(heap, s, g, F) =>
             \/ NewMap(heap, g, u, F \ {g.addr}, g.addr)
             \/ NoMap(heap, g, u, F \ {g.addr}, g.addr)
                  /\ (FewPages(F \ {g.addr}) \/ where = "init_user_process"),
         UNCHANGED <<heap, tables>>, booted' = "up"
  PROVE  Creates(q) \/ Stops(q)
<1> DEFINE F == FreePages
           Fs == F \ {s.addr}
           Fg == Fs \ {g.addr}
           enough == heap >= 2 + PerProcess * Cardinality(Proc)
<1>1. heap \in Nat /\ TypeOK
  BY HeapIsNat DEF MemoryInv
<1>2. Good(heap, Memory, F) /\ Memory.word = word /\ Memory.failed = FALSE
  BY <1>1, FreesGood DEF MemoryInv
<1>3. Took(heap, Memory, s, F) \/ NoneLeft(heap, Memory, s, F)
  BY <1>1, <1>2, AllocClearedOK
<1>4. F \in SUBSET Pages(heap)
  BY <1>1, <1>2, GoodFrees
<1>5. \A p \in Pages(heap) : p # NULL
  BY <1>1 DEF Pages, NULL
<1>6. /\ state \in [Proc -> {"UNUSED", "INIT", "READY"}]
      /\ stack \in [Proc -> Pages(heap) \cup {NULL}]
      /\ page_map \in [Proc -> Pages(heap) \cup {NULL}]
  BY <1>1 DEF TypeOK
<1>7. enough => IsFiniteSet(F) /\ Cardinality(F) \in Nat /\ Cardinality(F) >= 5
  BY EnoughPages
<1>8. ~ enough => heap < 2 + PerProcess * Cardinality(Proc)
  <2>1. PerProcess * Cardinality(Proc) \in Nat
    BY MemoryAssumption, FS_CardinalityType DEF PerProcess
  <2> QED BY <1>1, <2>1
<1> HIDE DEF F, enough
<1>9. CASE NoneLeft(heap, Memory, s, F)
  <2>1. s.addr = NULL /\ Good(heap, s, F) /\ s.failed = FALSE /\ s.word = word /\ F = {}
    BY <1>2, <1>9 DEF NoneLeft
  <2>2. /\ free_memory' = s.free /\ word' = s.word /\ panic' = "alloc_new_process"
        /\ UNCHANGED <<state, page_map>>
    BY <2>1 DEF Becomes
  <2>3. NowFree(F)
    BY <1>1, <2>1, <2>2, GoodFrees DEF NowFree
  <2>4. ~ enough
    BY <1>7, <2>1, FS_EmptySet
  <2>5. \E t \in {state[q], "INIT"}, x, map \in Pages(heap) \cup {NULL} :
             /\ state' = [state EXCEPT ![q] = t]
             /\ stack' = [stack EXCEPT ![q] = x]
             /\ page_map' = [page_map EXCEPT ![q] = map]
    <3>1. state' = [state EXCEPT ![q] = state[q]] /\ page_map' = [page_map EXCEPT ![q] = page_map[q]]
      BY <1>6, <2>2
    <3>2. page_map[q] \in Pages(heap) \cup {NULL}
      BY <1>6
    <3> QED BY <2>1, <3>1, <3>2
  <2>6. SameOutside(heap, word, word', F)
    BY <2>1, <2>2 DEF SameOutside
  <2>7. \E G \in SUBSET F : NowFree(G) /\ F \ G \in SUBSET {stack'[q], page_map'[q]}
    BY <2>1, <2>3
  <2> QED BY <1>8, <2>2, <2>4, <2>5, <2>6, <2>7 DEF Stops, F
<1>10. CASE Took(heap, Memory, s, F)
  <2>1. /\ s.addr \in F /\ Good(heap, s, Fs) /\ s.failed = FALSE
        /\ SameOutside(heap, word, s.word, {s.addr})
    BY <1>2, <1>10 DEF Took
  <2>2. s.addr \in Pages(heap) /\ s.addr # NULL
    BY <1>4, <1>5, <2>1
  <2>3. Took(heap, s, g, Fs) \/ NoneLeft(heap, s, g, Fs)
    BY <1>1, <2>1, AllocClearedOK
  <2>4. stack'[q] = s.addr
    BY <1>6
  <2>5. page_map' = [page_map EXCEPT ![q] = g.addr] /\ page_map'[q] = g.addr
    BY <1>6, <2>2
  <2>6. Fs \in SUBSET F
    OBVIOUS
  <2>7. CASE NoneLeft(heap, s, g, Fs)
    <3>1. g.addr = NULL /\ Good(heap, g, Fs) /\ g.failed = FALSE /\ g.word = s.word /\ Fs = {}
      BY <2>1, <2>7 DEF NoneLeft
    <3>2. /\ free_memory' = g.free /\ word' = g.word /\ panic' = "alloc_new_process"
          /\ state' = [state EXCEPT ![q] = "INIT"]
      BY <2>2, <3>1 DEF Becomes
    <3>3. NowFree(Fs)
      BY <1>1, <3>1, <3>2, GoodFrees DEF NowFree
    <3>4. F = {s.addr}
      BY <2>1, <3>1
    <3>5. ~ enough
      <4>1. Cardinality(F) = 1
        BY <3>4, FS_Singleton
      <4> QED BY <1>7, <4>1
    <3>6. \E t \in {state[q], "INIT"}, x, map \in Pages(heap) \cup {NULL} :
             /\ state' = [state EXCEPT ![q] = t]
             /\ stack' = [stack EXCEPT ![q] = x]
             /\ page_map' = [page_map EXCEPT ![q] = map]
      BY <2>2, <2>5, <3>1, <3>2
    <3>7. SameOutside(heap, word, word', F)
      BY <2>1, <3>1, <3>2, <3>4 DEF SameOutside
    <3>8. \E G \in SUBSET F : NowFree(G) /\ F \ G \in SUBSET {stack'[q], page_map'[q]}
      BY <2>4, <2>6, <3>3, <3>4
    <3> QED BY <1>8, <3>2, <3>5, <3>6, <3>7, <3>8 DEF Stops, F
  <2>8. CASE Took(heap, s, g, Fs)
    <3>1. /\ g.addr \in Fs /\ Good(heap, g, Fg) /\ g.failed = FALSE
          /\ SameOutside(heap, s.word, g.word, {g.addr})
      BY <2>1, <2>8 DEF Took
    <3>2. g.addr \in Pages(heap) /\ g.addr # NULL /\ g.addr # s.addr /\ g.addr \in F
      BY <1>4, <1>5, <3>1
    <3>3. /\ Becomes(u, u.addr = NULL, where)
          /\ state' = [state EXCEPT ![q] = IF u.addr = NULL THEN "INIT" ELSE "READY"]
      BY <2>2, <3>2
    <3>4. \/ NewMap(heap, g, u, Fg, g.addr)
          \/ NoMap(heap, g, u, Fg, g.addr) /\ (FewPages(Fg) \/ where = "init_user_process")
      BY <2>6, <2>8 DEF F
    <3>5. CASE NewMap(heap, g, u, Fg, g.addr)
      <4>1. PICK pud \in Fg, pmd \in Fg, user \in Fg :
              /\ pud # pmd /\ pud # user /\ pmd # user
              /\ u.addr = user
              /\ Good(heap, u, Fg \ {pud, pmd, user})
              /\ Whole(u.word, g.addr, pud, pmd, user)
              /\ SameOutside(heap, g.word, u.word, {g.addr, pud, pmd, user})
              /\ u.failed = g.failed
        BY <3>5 DEF NewMap
      <4> DEFINE S == {s.addr, g.addr, pud, pmd, user}
      <4>2. /\ pud \in F /\ pmd \in F /\ user \in F
            /\ s.addr \notin {g.addr, pud, pmd, user} /\ g.addr \notin {pud, pmd, user}
        BY <3>2
      <4>3. FourPages(heap, g.addr, pud, pmd, user)
        BY <1>4, <3>2, <4>1, <4>2 DEF FourPages
      <4>4. u.addr # NULL
        BY <1>4, <1>5, <4>1, <4>2
      <4>5. /\ free_memory' = u.free /\ word' = u.word /\ panic' = "none"
            /\ state' = [state EXCEPT ![q] = "READY"]
        BY <3>1, <3>3, <4>1, <4>4 DEF Becomes
      <4>6. Holds(heap, word', s.addr, g.addr) /\ FiveOf(word', s.addr, g.addr) = S
        <5>1. Whole(u.word, g.addr, pud, pmd, user) /\ s.addr \notin {g.addr, pud, pmd, user}
          BY <4>1, <4>2
        <5>2. s.addr \in Pages(heap)
          BY <2>2
        <5>3. /\ Holds(heap, u.word, s.addr, g.addr)
              /\ FiveOf(u.word, s.addr, g.addr) = {s.addr, g.addr, pud, pmd, user}
          <6> HIDE DEF S, Fs, Fg
          <6> QED BY <4>3, <5>1, <5>2, WholeHolds
        <5> QED BY <4>5, <5>3
      <4>7. Fg \ {pud, pmd, user} = F \ S
        OBVIOUS
      <4>8. Good(heap, u, F \ S)
        BY <4>1, <4>7
      <4>9. NowFree(F \ S)
        BY <1>1, <4>5, <4>8, GoodFrees DEF NowFree
      <4>10. SameOutside(heap, word, word', S)
        BY <2>1, <3>1, <4>1, <4>5 DEF SameOutside
      <4>11. S \in SUBSET F
        BY <2>1, <3>2, <4>2
      <4> HIDE DEF S
      <4>12. \E x, map \in Pages(heap) :
               stack' = [stack EXCEPT ![q] = x] /\ page_map' = [page_map EXCEPT ![q] = map]
        BY <2>2, <2>5, <3>2
      <4> QED BY <2>4, <2>5, <4>5, <4>6, <4>9, <4>10, <4>11, <4>12 DEF Creates, F
    <3>6. CASE NoMap(heap, g, u, Fg, g.addr) /\ (FewPages(Fg) \/ where = "init_user_process")
      <4>1. /\ u.addr = NULL /\ u.failed = FALSE
            /\ Good(heap, u, Fg) \/ Good(heap, u, Fg \cup {g.addr})
            /\ SameOutside(heap, g.word, u.word, Fg \cup {g.addr})
        BY <3>1, <3>6 DEF NoMap
      <4>2. /\ free_memory' = u.free /\ word' = u.word /\ panic' = where
            /\ state' = [state EXCEPT ![q] = "INIT"]
        BY <3>3, <4>1 DEF Becomes
      <4>3. \E G \in SUBSET F : NowFree(G) /\ F \ G \in SUBSET {stack'[q], page_map'[q]}
        <5>1. CASE Good(heap, u, Fg)
          <6>1. NowFree(Fg)
            BY <1>1, <4>2, <5>1, GoodFrees DEF NowFree
          <6> QED BY <2>4, <2>5, <6>1
        <5>2. CASE Good(heap, u, Fg \cup {g.addr})
          <6>1. NowFree(Fg \cup {g.addr})
            BY <1>1, <4>2, <5>2, GoodFrees DEF NowFree
          <6>2. Fg \cup {g.addr} \in SUBSET F
            BY <3>2
          <6>3. F \ (Fg \cup {g.addr}) \in SUBSET {stack'[q], page_map'[q]}
            BY <2>4
          <6> QED BY <6>1, <6>2, <6>3
        <5> QED BY <4>1, <5>1, <5>2
      <4>4. SameOutside(heap, word, word', F)
        BY <2>1, <3>1, <3>2, <4>1, <4>2 DEF SameOutside
      <4>5. \E t \in {state[q], "INIT"}, x, map \in Pages(heap) \cup {NULL} :
             /\ state' = [state EXCEPT ![q] = t]
             /\ stack' = [stack EXCEPT ![q] = x]
             /\ page_map' = [page_map EXCEPT ![q] = map]
        BY <2>2, <2>5, <3>2, <4>2
      <4>6. panic' # "init_user_process" => heap < 2 + PerProcess * Cardinality(Proc)
        <5> SUFFICES ASSUME where # "init_user_process", enough PROVE FALSE
          BY <1>8, <4>2
        <5>1. FewPages(Fg)
          BY <3>6
        <5>2. IsFiniteSet(Fs) /\ Cardinality(Fs) = Cardinality(F) - 1
          BY <1>7, <2>1, FS_RemoveElement
        <5>3. IsFiniteSet(Fg) /\ Cardinality(Fg) = Cardinality(Fs) - 1
          BY <3>1, <5>2, FS_RemoveElement
        <5>4. Cardinality(Fg) <= 2
          BY <5>1, <5>3, FewPagesCount
        <5> HIDE DEF Fs, Fg
        <5> QED BY <1>7, <5>2, <5>3, <5>4
      <4>7. panic' \in {"init_fs", "alloc_new_process", "init_user_process", "fork"}
        BY <4>2
      <4> QED BY <4>3, <4>4, <4>5, <4>6, <4>7 DEF Stops, F
    <3> QED BY <3>4, <3>5, <3>6
  <2> QED BY <2>3, <2>7, <2>8
<1> QED BY <1>3, <1>9, <1>10

\* What the invariant says of a process in use.
LEMMA HeldFacts ==
  ASSUME MemoryInv, panic = "none", NEW p \in Proc, state[p] = "READY"
  PROVE  /\ Holds(heap, word, stack[p], page_map[p])
         /\ Held(p) \in SUBSET Pages(heap)
         /\ Held(p) \cap FreePages = {} /\ Held(p) \cap Range(tables) = {}
         /\ Tables(word, page_map[p]) \in SUBSET Held(p)
         /\ UserPage(word, page_map[p]) \in Held(p)
         /\ UserPage(word, page_map[p]) \notin Tables(word, page_map[p])
         /\ \A q \in Proc : q # p /\ state[q] = "READY" => Held(q) \cap Held(p) = {}
<1>1. Apart(FreePages) /\ p \in InUse
  BY DEF MemoryInv, InUse
<1>2. Holds(heap, word, stack[p], page_map[p])
  BY <1>1 DEF Apart
<1>3. /\ Held(p) \in SUBSET Pages(heap)
      /\ Tables(word, page_map[p]) \in SUBSET Held(p)
      /\ UserPage(word, page_map[p]) \in Held(p)
      /\ UserPage(word, page_map[p]) \notin Tables(word, page_map[p])
  BY <1>2, FiveCount DEF Held
<1>4. Held(p) \cap (FreePages \cup Range(tables)) = {}
  BY <1>1 DEF Apart
<1>5. \A q \in Proc : q # p /\ state[q] = "READY" => Held(q) \cap Held(p) = {}
  BY <1>1 DEF Apart, InUse
<1> QED BY <1>2, <1>3, <1>4, <1>5

\* init_process() takes five pages for INIT, or an assertion fails.
LEMMA InitProcessDoes ==
  ASSUME MemoryInv, NEW loaded \in BOOLEAN, init_process(loaded)
  PROVE  \E q \in Proc : Creates(q) \/ Stops(q)
<1> DEFINE q == Min(Proc)
           s == AllocCleared(Memory)
           g == AllocCleared(s)
           u == setup_uvm(g, g.addr, loaded)
           where == "init_user_process"
<1>1. q \in Proc /\ heap \in Nat
  BY MinOfNats, MemoryAssumption, HeapIsNat DEF MemoryInv
<1>2. /\ panic = "none" /\ booted' = "up" /\ UNCHANGED <<heap, tables>>
      /\ state[q] = "UNUSED" /\ stack' = [stack EXCEPT ![q] = s.addr]
      /\ s.addr = NULL =>
           Becomes(s, TRUE, "alloc_new_process") /\ UNCHANGED <<state, page_map>>
      /\ s.addr # NULL => page_map' = [page_map EXCEPT ![q] = g.addr]
      /\ s.addr # NULL /\ g.addr = NULL =>
           /\ Becomes(g, TRUE, "alloc_new_process")
           /\ state' = [state EXCEPT ![q] = "INIT"]
      /\ s.addr # NULL /\ g.addr # NULL =>
           /\ Becomes(u, u.addr = NULL, where)
           /\ state' = [state EXCEPT ![q] = IF u.addr = NULL THEN "INIT" ELSE "READY"]
  BY DEF init_process, NewProcess
<1>3. ASSUME NEW F \in SUBSET FreePages, Took(heap, s, g, F)
      PROVE  \/ NewMap(heap, g, u, F \ {g.addr}, g.addr)
             \/ NoMap(heap, g, u, F \ {g.addr}, g.addr)
                  /\ (FewPages(F \ {g.addr}) \/ where = "init_user_process")
  <2> HIDE DEF g
  <2> DEFINE G == F \ {g.addr}
  <2>1. g.addr \in F /\ Good(heap, g, G) /\ g.word[g.addr] = Blank
    BY <1>3 DEF Took
  <2>2. F \in SUBSET Pages(heap)
    BY <1>1, FreesGood, GoodFrees DEF MemoryInv
  <2>3. g.addr \in Pages(heap) /\ g.addr \notin G /\ PgdOnly(g.word, g.addr)
    BY <2>1, <2>2 DEF PgdOnly
  <2> HIDE DEF G
  <2>4. \/ NewMap(heap, g, u, G, g.addr)
        \/ NoMap(heap, g, u, G, g.addr) /\ (FewPages(G) \/ ~ loaded)
    BY <1>1, <2>1, <2>3, SetupUvmOK
  <2> QED BY <2>4 DEF G
<1> HIDE DEF s, g, u, q
<1>4. \A F \in SUBSET FreePages :
        Took(heap, s, g, F) =>
          \/ NewMap(heap, g, u, F \ {g.addr}, g.addr)
          \/ NoMap(heap, g, u, F \ {g.addr}, g.addr)
               /\ (FewPages(F \ {g.addr}) \/ where = "init_user_process")
  BY <1>3
<1>5. s = AllocCleared(Memory) /\ g = AllocCleared(s)
  BY DEF s, g
<1>6. Creates(q) \/ Stops(q)
  BY <1>1, <1>2, <1>4, <1>5, NewProcessDoes
<1> QED BY <1>1, <1>6

\* fork() takes five pages for the child, or an assertion fails.
LEMMA ForkDoes ==
  ASSUME MemoryInv, NEW p \in Proc, fork(p)
  PROVE  \E q \in Proc : Creates(q) \/ Stops(q)
<1>1. PICK q \in Proc :
        /\ state[q] = "UNUSED"
        /\ LET Uvm(m, map) == copy_uvm(m, map, page_map[p])
           IN  NewProcess(q, Uvm, "fork")
  BY DEF fork
<1> DEFINE s == AllocCleared(Memory)
           g == AllocCleared(s)
           u == copy_uvm(g, g.addr, page_map[p])
           where == "fork"
<1>2. panic = "none" /\ booted' = "up" /\ heap \in Nat /\ state[p] = "READY"
  BY HeapIsNat DEF MemoryInv, fork, Running
<1>3. /\ UNCHANGED <<heap, tables>>
      /\ stack' = [stack EXCEPT ![q] = s.addr]
      /\ s.addr = NULL =>
           Becomes(s, TRUE, "alloc_new_process") /\ UNCHANGED <<state, page_map>>
      /\ s.addr # NULL => page_map' = [page_map EXCEPT ![q] = g.addr]
      /\ s.addr # NULL /\ g.addr = NULL =>
           /\ Becomes(g, TRUE, "alloc_new_process")
           /\ state' = [state EXCEPT ![q] = "INIT"]
      /\ s.addr # NULL /\ g.addr # NULL =>
           /\ Becomes(u, u.addr = NULL, where)
           /\ state' = [state EXCEPT ![q] = IF u.addr = NULL THEN "INIT" ELSE "READY"]
  BY <1>1 DEF NewProcess
<1>4. ASSUME NEW F \in SUBSET FreePages, Took(heap, s, g, F)
      PROVE  \/ NewMap(heap, g, u, F \ {g.addr}, g.addr)
             \/ NoMap(heap, g, u, F \ {g.addr}, g.addr)
                  /\ (FewPages(F \ {g.addr}) \/ where = "init_user_process")
  <2> DEFINE G == F \ {g.addr}
             from == page_map[p]
             pud0 == Pud(word, from)
             pmd0 == Pmd(word, from)
             user0 == UserPage(word, from)
  <2>0. FreePages \in SUBSET Pages(heap) /\ Good(heap, Memory, FreePages) /\ Memory.word = word
    BY <1>2, FreesGood, GoodFrees DEF MemoryInv
  <2>1. SameOutside(heap, word, s.word, FreePages)
    <3>1. Took(heap, Memory, s, FreePages) \/ NoneLeft(heap, Memory, s, FreePages)
      BY <1>2, <2>0, AllocClearedOK
    <3> HIDE DEF s
    <3> QED BY <2>0, <3>1 DEF Took, NoneLeft, SameOutside
  <2> HIDE DEF s, g
  <2>2. /\ g.addr \in F /\ Good(heap, g, G) /\ g.word[g.addr] = Blank
        /\ SameOutside(heap, s.word, g.word, {g.addr})
    BY <1>4 DEF Took
  <2>3. g.addr \in Pages(heap) /\ g.addr \notin G /\ PgdOnly(g.word, g.addr)
    BY <2>0, <2>2 DEF PgdOnly
  <2>4. SameOutside(heap, word, g.word, FreePages)
    BY <2>1, <2>2 DEF SameOutside
  <2>5. /\ FourPages(heap, from, pud0, pmd0, user0) /\ Whole(word, from, pud0, pmd0, user0)
        /\ {from, pud0, pmd0, user0} \cap FreePages = {}
    <3>1. Holds(heap, word, stack[p], from) /\ Held(p) \cap FreePages = {}
      BY <1>2, HeldFacts
    <3> QED BY <3>1 DEF Holds, Held, FiveOf, Tables
  <2> HIDE DEF from, pud0, pmd0, user0
  <2>6. Whole(g.word, from, pud0, pmd0, user0)
    <3>1. g.word[from] = word[from] /\ g.word[pud0] = word[pud0] /\ g.word[pmd0] = word[pmd0]
      BY <2>4, <2>5 DEF FourPages, SameOutside
    <3> QED BY <2>5, <3>1 DEF Whole
  <2>7. {from, pud0, pmd0, user0} \cap (G \cup {g.addr}) = {}
    BY <2>2, <2>5
  <2> HIDE DEF G
  <2>8. u = copy_uvm(g, g.addr, from)
    BY DEF from
  <2> HIDE DEF u
  <2>9. \/ NewMap(heap, g, u, G, g.addr)
        \/ NoMap(heap, g, u, G, g.addr) /\ FewPages(G)
    <3>1. \/ /\ NewMap(heap, g, copy_uvm(g, g.addr, from), G, g.addr)
             /\ LET k == copy_uvm(g, g.addr, from) IN k.word[k.addr] = g.word[user0]
          \/ NoMap(heap, g, copy_uvm(g, g.addr, from), G, g.addr) /\ FewPages(G)
      BY <1>2, <2>2, <2>3, <2>5, <2>6, <2>7, CopyUvmOK
    <3> QED BY <2>8, <3>1
  <2> QED BY <2>9 DEF G
<1> HIDE DEF s, g, u
<1>5. \A F \in SUBSET FreePages :
        Took(heap, s, g, F) =>
          \/ NewMap(heap, g, u, F \ {g.addr}, g.addr)
          \/ NoMap(heap, g, u, F \ {g.addr}, g.addr)
               /\ (FewPages(F \ {g.addr}) \/ where = "init_user_process")
  BY <1>4
<1>6. s = AllocCleared(Memory) /\ g = AllocCleared(s)
  BY DEF s, g
<1>7. Creates(q) \/ Stops(q)
  BY <1>1, <1>2, <1>3, <1>5, <1>6, NewProcessDoes
<1> QED BY <1>7

\* wait() gives back the five pages of a process.
LEMMA WaitDoes ==
  ASSUME MemoryInv, NEW q \in Proc, wait(q)
  PROVE  Releases(q)
<1> DEFINE F == FreePages
           a == kfree(Memory, stack[q])
           m == free_vm(a, page_map[q])
           map == page_map[q]
           pud == Pud(word, map)
           pmd == Pmd(word, map)
           user == UserPage(word, map)
           Fa == F \cup {stack[q]}
<1>1. /\ panic = "none" /\ booted = "up" /\ state[q] = "READY" /\ heap \in Nat
      /\ Becomes(m, FALSE, "none")
      /\ state' = [state EXCEPT ![q] = "UNUSED"]
      /\ stack' = [stack EXCEPT ![q] = NULL]
      /\ page_map' = [page_map EXCEPT ![q] = NULL]
      /\ UNCHANGED <<heap, booted, tables>>
  BY HeapIsNat DEF MemoryInv, wait, WaitLeaves
<1>2. Good(heap, Memory, F) /\ Memory.word = word /\ Memory.failed = FALSE
  BY <1>1, FreesGood DEF MemoryInv
<1>3. Holds(heap, word, stack[q], map) /\ Held(q) \cap F = {}
  BY <1>1, HeldFacts
<1>4. Held(q) = {stack[q], map, pud, pmd, user}
  BY DEF Held, FiveOf, Tables
<1>5. /\ FourPages(heap, map, pud, pmd, user) /\ Whole(word, map, pud, pmd, user)
      /\ stack[q] \in Pages(heap) /\ stack[q] \notin {map, pud, pmd, user}
      /\ stack[q] \notin F /\ {map, pud, pmd, user} \cap Fa = {}
  BY <1>3, <1>4 DEF Holds, Tables
<1> HIDE DEF F
<1>6. Freed(heap, Memory, a, F, stack[q])
  BY <1>1, <1>2, <1>5, kfreeOK
<1>7. m = free_vm(a, map)
  OBVIOUS
<1> HIDE DEF a, m, map, pud, pmd, user
<1>8. Good(heap, a, Fa) /\ SameOutside(heap, word, a.word, {stack[q]}) /\ a.failed = FALSE
  BY <1>2, <1>6 DEF Freed
<1>9. Whole(a.word, map, pud, pmd, user)
  <2>1. a.word[map] = word[map] /\ a.word[pud] = word[pud] /\ a.word[pmd] = word[pmd]
    BY <1>5, <1>8 DEF FourPages, SameOutside
  <2> QED BY <1>5, <2>1 DEF Whole
<1>10. FreedAll(heap, a, m, Fa, {map, pud, pmd, user})
  <2> HIDE DEF Fa
  <2> QED BY <1>1, <1>5, <1>7, <1>8, <1>9, FreeVmWhole
<1>11. Fa \cup {map, pud, pmd, user} = F \cup Held(q)
  BY <1>4
<1>12. Good(heap, m, F \cup Held(q)) /\ m.failed = FALSE
  BY <1>8, <1>10, <1>11 DEF FreedAll
<1>13. SameOutside(heap, word, m.word, Held(q))
  BY <1>4, <1>8, <1>10 DEF FreedAll, SameOutside
<1>14. free_memory' = m.free /\ word' = m.word /\ panic' = "none"
  BY <1>1, <1>12 DEF Becomes
<1>15. NowFree(F \cup Held(q))
  BY <1>1, <1>12, <1>14, GoodFrees DEF NowFree
<1> QED BY <1>1, <1>13, <1>14, <1>15 DEF Releases, F

\* A program that writes changes its own page.
LEMMA UserWriteDoes ==
  ASSUME MemoryInv, NEW p \in Proc, NEW w \in {Zero, Data}, UserWrite(p, w)
  PROVE  Writes(p)
<1> DEFINE user == UserPage(word, page_map[p])
           x == [i \in Slots |-> w]
           v == [word EXCEPT ![user] = x]
<1>1. /\ panic = "none" /\ state[p] = "READY" /\ heap \in Nat /\ word' = v
      /\ UNCHANGED <<heap, free_memory, booted, tables, state, stack, page_map, panic>>
  BY HeapIsNat DEF MemoryInv, UserWrite, Running
<1>2. user \in Pages(heap) /\ user \notin FreePages
  BY <1>1, HeldFacts
<1> HIDE DEF user
<1>3. x \in [Slots -> Sound(heap)]
  <2>1. 1 \in Pages(heap)
    BY <1>1, <1>2 DEF Pages
  <2>2. w \in Sound(heap)
    BY <1>1, <2>1, WordValues DEF Data
  <2> QED BY <2>2
<1> HIDE DEF x
<1>4. Frees(heap, free_memory, word, FreePages)
  BY DEF MemoryInv
<1>5. v \in Words(heap) /\ SameOutside(heap, word, v, {user})
  BY <1>1, <1>2, <1>3, <1>4, WordsUpdate DEF Frees
<1> HIDE DEF v
<1>6. FreeList(heap, free_memory, v, FreePages)
  <2>1. FreePages \in SUBSET Pages(heap) /\ FreeList(heap, free_memory, word, FreePages)
    BY <1>1, <1>4, FreeListEmpty DEF Frees
  <2>2. \A q \in FreePages : v[q] = word[q]
    BY <1>2, <1>5, <2>1 DEF SameOutside
  <2> QED BY <1>1, <2>1, <2>2, FreeListFrame
<1>7. NowFree(FreePages)
  BY <1>1, <1>4, <1>5, <1>6 DEF NowFree, Frees
<1> QED BY <1>1, <1>5, <1>7 DEF Writes, user

\* Every step of Memory is one of these.
LEMMA StepDoes ==
  ASSUME MemoryInv, [Next]_memVars
  PROVE  \/ /\ panic = "none"
            /\ \/ \E a \in Pages(heap) : Reserves(a)
               \/ \E q \in Proc : Creates(q) \/ Releases(q) \/ Writes(q) \/ Stops(q)
         \/ UNCHANGED memVars
<1>1. CASE init_fs
  BY <1>1, InitFsDoes DEF init_fs
<1>2. ASSUME NEW loaded \in BOOLEAN, init_process(loaded)
      PROVE  panic = "none" /\ \E q \in Proc : Creates(q) \/ Stops(q)
  BY <1>2, InitProcessDoes DEF init_process
<1>3. ASSUME NEW p \in Proc, fork(p)
      PROVE  panic = "none" /\ \E q \in Proc : Creates(q) \/ Stops(q)
  BY <1>3, ForkDoes DEF fork, Running
<1>4. ASSUME NEW q \in Proc, wait(q) PROVE panic = "none" /\ Releases(q)
  BY <1>4, WaitDoes DEF wait, WaitLeaves
<1>5. ASSUME NEW p \in Proc, NEW w \in {Zero, Data}, UserWrite(p, w)
      PROVE  panic = "none" /\ Writes(p)
  BY <1>5, UserWriteDoes DEF UserWrite, Running
<1>6. CASE Hang
  BY <1>6 DEF Hang
<1> QED BY <1>1, <1>2, <1>3, <1>4, <1>5, <1>6 DEF Next

-----------------------------------------------------------------------------
(* The invariant holds.                                                    *)

\* What the invariant says while the kernel runs; the rest follows.
Core ==
  /\ TypeOK
  /\ Frees(heap, free_memory, word, FreePages)
  /\ panic = "none" /\ Apart(FreePages)
  /\ booted = "memory" => Len(tables) < 2

\* FollowedIs as one formula, so that it can be primed.
LEMMA FollowedAll ==
  \A G : heap \in Nat /\ FreeList(heap, free_memory, word, G)
          => Followed[heap] = G \cup {NULL} /\ FreePages = G
BY FollowedIs

\* FollowedAll, of the state after a step.
LEMMA FollowedAllNext ==
  (\A G : heap \in Nat /\ FreeList(heap, free_memory, word, G)
           => Followed[heap] = G \cup {NULL} /\ FreePages = G)'
BY FollowedAll, PTL

\* What the links lead to after a step.
LEMMA FollowedNext ==
  ASSUME heap' \in Nat, NEW F, FreeList(heap', free_memory', word', F)
  PROVE  Followed'[heap'] = F \cup {NULL} /\ FreePages' = F
BY FollowedAllNext

\* NowFree says which pages are free, and that the list of them is sound.
LEMMA NowFreeIs ==
  ASSUME TypeOK, NEW F, NowFree(F)
  PROVE  /\ FreePages' = F /\ F \in SUBSET Pages(heap) /\ heap' = heap
         /\ Frees(heap', free_memory', word', FreePages')
<1>1. heap' \in Nat /\ heap' = heap /\ Frees(heap', free_memory', word', F)
  BY HeapIsNat DEF NowFree
<1>2. FreeList(heap', free_memory', word', F)
  BY <1>1 DEF Frees
<1> QED BY <1>1, <1>2, FollowedNext, FreeListEmpty

\* Each of the parts of the invariant that are about Owned.
LEMMA CoreImplies == Core => MemoryInv /\ NoPageShared
<1> SUFFICES ASSUME Core PROVE MemoryInv /\ NoPageShared
  OBVIOUS
<1>1. heap \in Nat /\ TypeOK /\ Apart(FreePages) /\ panic = "none"
  BY HeapIsNat DEF Core
<1>2. FreePages \in SUBSET Pages(heap)
  BY <1>1, FreesGood, GoodFrees DEF Core
<1>3. \A p \in InUse : /\ Owned(p) = Held(p) /\ Held(p) \in SUBSET Pages(heap)
                       /\ Cardinality(Held(p)) = 5
  BY <1>1, OwnedIs, FiveCount DEF Apart, Held, InUse
<1>4. \A p \in Proc \ InUse : Owned(p) = {}
  BY <1>1, OwnedNone DEF Apart, InUse
<1>5. Range(tables) \in SUBSET Pages(heap)
  BY <1>1 DEF TypeOK, Range
<1>6. NoPageLost
  <2>1. \A x \in Pages(heap) :
          x \in FreePages \cup Range(tables) \cup UNION {Owned(p) : p \in Proc}
    <3> TAKE x \in Pages(heap)
    <3>1. x \in FreePages \/ x \in Range(tables) \/ \E p \in InUse : x \in Held(p)
      BY <1>1 DEF Apart
    <3>2. InUse \in SUBSET Proc
      BY DEF InUse
    <3> QED BY <1>3, <3>1, <3>2
  <2>2. \A p \in Proc : Owned(p) \in SUBSET Pages(heap)
    BY <1>3, <1>4
  <2> QED BY <1>2, <1>5, <2>1, <2>2 DEF NoPageLost
<1>7. NoPageShared
  <2>1. \A p \in Proc : state[p] = "READY" =>
          Cardinality(Owned(p)) = PerProcess /\ Owned(p) \cap (FreePages \cup Range(tables)) = {}
    BY <1>1, <1>3 DEF Apart, InUse, PerProcess
  <2>2. \A p, q \in Proc : p # q => Owned(p) \cap Owned(q) = {}
    BY <1>1, <1>3, <1>4 DEF Apart
  <2>3. FreePages \cap Range(tables) = {}
    BY <1>1 DEF Apart
  <2> QED BY <2>1, <2>2, <2>3 DEF NoPageShared
<1> QED BY <1>1, <1>6, <1>7 DEF Core, MemoryInv, MemoryAsserts, EnoughIsEnough

\* CoreImplies, of the state after a step.
LEMMA CoreImpliesNext == Core' => MemoryInv' /\ NoPageShared'
BY CoreImplies, PTL

\* While the kernel runs, the invariant is Core.
LEMMA RunningCore == ASSUME MemoryInv, panic = "none" PROVE Core
BY DEF MemoryInv, Core

\* The list that init_memory() builds is sound, and all pages are on it.
LEMMA InitInv == Init => MemoryInv
<1> SUFFICES ASSUME Init PROVE MemoryInv
  OBVIOUS
<1>1. heap \in Nat /\ heap \in Heaps
  BY MemoryAssumption DEF Init
<1> DEFINE at == [k \in 0 .. heap |-> k]
<1>2. \A p \in Pages(heap) : p - 1 \in Pages(heap) \cup {NULL}
  BY <1>1 DEF Pages, NULL
<1>3. word \in Words(heap) /\ \A p \in Pages(heap) : word[p][0] = Link(p - 1)
  <2>1. \A p \in Pages(heap) : /\ [Blank EXCEPT ![0] = Link(p - 1)] \in [Slots -> Sound(heap)]
                               /\ [Blank EXCEPT ![0] = Link(p - 1)][0] = Link(p - 1)
    BY <1>1, <1>2, WordValues DEF Slots, Blank
  <2> QED BY <2>1 DEF Init, Words
<1>4. FreeList(heap, free_memory, word, Pages(heap))
  <2>1. at \in [0 .. heap -> Pages(heap) \cup {NULL}] /\ at[0] = NULL /\ at[heap] = free_memory
    BY <1>1 DEF Pages, NULL, Init
  <2>2. \A k \in 1 .. heap : at[k] # NULL /\ word[at[k]][0].page = at[k - 1]
    <3> TAKE k \in 1 .. heap
    <3>1. at[k] = k /\ at[k - 1] = k - 1 /\ k # NULL /\ k \in Pages(heap)
      BY <1>1 DEF Pages, NULL
    <3> HIDE DEF at
    <3>2. word[k][0] = Link(k - 1)
      BY <1>3, <3>1
    <3>3. Link(k - 1).page = k - 1
      BY DEF Link
    <3> QED BY <3>1, <3>2, <3>3
  <2>3. \A j, k \in 0 .. heap : at[j] = at[k] => j = k
    OBVIOUS
  <2>4. Pages(heap) = {at[k] : k \in 1 .. heap}
    <3>1. \A k \in 1 .. heap : at[k] = k
      BY <1>1
    <3> HIDE DEF at
    <3> QED BY <3>1 DEF Pages
  <2> HIDE DEF at
  <2> QED BY <1>1, <2>1, <2>2, <2>3, <2>4 DEF FreeList, Chain
<1>5. FreePages = Pages(heap)
  BY <1>1, <1>4, FollowedIs
<1>6. TypeOK
  BY <1>1, <1>3, MemoryAssumption DEF Init, TypeOK, Pages, NULL, Words, Sound
<1>7. Frees(heap, free_memory, word, FreePages)
  BY <1>1, <1>3, <1>4, <1>5 DEF Frees, Init, Pages, NULL
<1>8. Apart(FreePages)
  <2>1. InUse = {} /\ Range(tables) = {}
    BY DEF Init, InUse, Range
  <2> QED BY <1>5, <2>1 DEF Apart, Init
<1>9. Core
  BY <1>6, <1>7, <1>8 DEF Core, Init
<1> QED BY <1>9, CoreImplies

\* A process keeps its pages and its tables when none of the latter is written to.
LEMMA HeldStays ==
  ASSUME heap' = heap, NEW p \in Proc, Holds(heap, word, stack[p], page_map[p]),
         NEW S, SameOutside(heap, word, word', S), Tables(word, page_map[p]) \cap S = {},
         stack'[p] = stack[p], page_map'[p] = page_map[p]
  PROVE  /\ Holds(heap', word', stack'[p], page_map'[p])
         /\ Held(p)' = Held(p)
         /\ UserPage(word', page_map'[p]) = UserPage(word, page_map[p])
<1>1. /\ Holds(heap, word', stack[p], page_map[p])
      /\ FiveOf(word', stack[p], page_map[p]) = FiveOf(word, stack[p], page_map[p])
      /\ UserPage(word', page_map[p]) = UserPage(word, page_map[p])
  BY HoldsFrame
<1> QED BY <1>1 DEF Held

\* One lemma for each of the effects: a page for the kernel,
LEMMA ReservesKeeps ==
  ASSUME MemoryInv, panic = "none", NEW a \in Pages(heap), Reserves(a)
  PROVE  Core'
<1>1. /\ TypeOK /\ Apart(FreePages) /\ heap \in Nat /\ tables \in Seq(Pages(heap))
      /\ FreePages \in SUBSET Pages(heap)
  BY HeapIsNat, FreesGood, GoodFrees DEF MemoryInv, TypeOK
<1>2. /\ a \in FreePages /\ heap' = heap /\ FreePages' = FreePages \ {a}
      /\ Frees(heap', free_memory', word', FreePages')
      /\ SameOutside(heap, word, word', {a})
      /\ tables' = Append(tables, a) /\ Len(tables) < 2
      /\ booted' = IF Len(tables) = 1 THEN "fs" ELSE "memory"
      /\ panic' = "none" /\ UNCHANGED <<state, stack, page_map>>
  BY <1>1, NowFreeIs DEF Reserves
<1>3. /\ Len(tables) \in Nat /\ tables' \in Seq(Pages(heap)) /\ Len(tables') = Len(tables) + 1
      /\ Range(tables') = Range(tables) \cup {a}
  BY <1>1, <1>2, RangeAppend
<1>4. InUse' = InUse
  BY <1>2 DEF InUse
<1>5. ASSUME NEW p \in InUse
      PROVE  Holds(heap', word', stack'[p], page_map'[p]) /\ Held(p)' = Held(p)
  <2>1. p \in Proc /\ state[p] = "READY"
    BY DEF InUse
  <2>2. /\ Holds(heap, word, stack[p], page_map[p])
        /\ Held(p) \cap FreePages = {} /\ Tables(word, page_map[p]) \in SUBSET Held(p)
    BY <2>1, HeldFacts
  <2>3. Tables(word, page_map[p]) \cap {a} = {}
    BY <1>2, <2>2
  <2> QED BY <1>2, <2>1, <2>2, <2>3, HeldStays
<1>6. Apart(FreePages)'
  <2>1. \A p \in Proc \ InUse' : state'[p] = "UNUSED" /\ stack'[p] = NULL /\ page_map'[p] = NULL
    BY <1>1, <1>2, <1>4 DEF Apart
  <2>2. \A p \in InUse' : Held(p)' \cap (FreePages' \cup Range(tables')) = {}
    BY <1>1, <1>2, <1>3, <1>4, <1>5 DEF Apart
  <2>3. \A p, q \in InUse' : p # q => Held(p)' \cap Held(q)' = {}
    BY <1>1, <1>4, <1>5 DEF Apart
  <2>4. FreePages' \cap Range(tables') = {}
    BY <1>1, <1>2, <1>3 DEF Apart
  <2>5. \A x \in Pages(heap') :
          x \in FreePages' \/ x \in Range(tables') \/ \E p \in InUse' : x \in Held(p)'
    BY <1>1, <1>2, <1>3, <1>4, <1>5 DEF Apart
  <2> QED BY <1>4, <1>5, <2>1, <2>2, <2>3, <2>4, <2>5 DEF Apart
<1>7. TypeOK'
  BY <1>1, <1>2, <1>3 DEF TypeOK, Frees, Words, Sound
<1>8. booted' = "memory" => Len(tables') < 2
  <2>1. Len(tables) = 1 => booted' = "fs"
    BY <1>2
  <2>2. Len(tables) < 2 /\ Len(tables) \in Nat /\ Len(tables') = Len(tables) + 1
    BY <1>2, <1>3
  <2>3. \A k \in Nat : k < 2 /\ k # 1 => k + 1 < 2
    OBVIOUS
  <2>4. Len(tables) # 1 => Len(tables') < 2
    BY <2>2, <2>3
  <2> QED BY <2>1, <2>4
<1> QED BY <1>2, <1>6, <1>7, <1>8 DEF Core

\* five pages for a process,
LEMMA CreatesKeeps ==
  ASSUME MemoryInv, panic = "none", NEW q \in Proc, Creates(q)
  PROVE  Core'
<1> DEFINE S == FiveOf(word', stack'[q], page_map'[q])
<1>1. /\ TypeOK /\ Apart(FreePages) /\ heap \in Nat /\ FreePages \in SUBSET Pages(heap)
      /\ state \in [Proc -> {"UNUSED", "INIT", "READY"}]
      /\ stack \in [Proc -> Pages(heap) \cup {NULL}]
      /\ page_map \in [Proc -> Pages(heap) \cup {NULL}]
  BY HeapIsNat, FreesGood, GoodFrees DEF MemoryInv, TypeOK
<1>2. /\ state[q] = "UNUSED" /\ state' = [state EXCEPT ![q] = "READY"]
      /\ \E s, map \in Pages(heap) :
           stack' = [stack EXCEPT ![q] = s] /\ page_map' = [page_map EXCEPT ![q] = map]
      /\ booted' = "up" /\ panic' = "none" /\ UNCHANGED tables
  BY DEF Creates
<1>3. /\ S \in SUBSET FreePages /\ Holds(heap, word', stack'[q], page_map'[q])
      /\ NowFree(FreePages \ S) /\ SameOutside(heap, word, word', S)
  BY DEF Creates
<1>4. S = Held(q)'
  BY DEF Held
<1> HIDE DEF S
<1>5. /\ heap' = heap /\ FreePages' = FreePages \ S
      /\ Frees(heap', free_memory', word', FreePages')
  BY <1>1, <1>3, NowFreeIs
<1>6. InUse' = InUse \cup {q} /\ q \notin InUse /\ InUse \in SUBSET Proc
  BY <1>1, <1>2 DEF InUse
<1>7. \A p \in Proc : p # q => /\ state'[p] = state[p] /\ stack'[p] = stack[p]
                               /\ page_map'[p] = page_map[p]
  BY <1>1, <1>2
<1>8. ASSUME NEW p \in InUse
      PROVE  /\ Holds(heap', word', stack'[p], page_map'[p]) /\ Held(p)' = Held(p)
             /\ Held(p) \cap FreePages = {}
  <2>1. p \in Proc /\ state[p] = "READY" /\ p # q
    BY <1>6 DEF InUse
  <2>2. /\ Holds(heap, word, stack[p], page_map[p])
        /\ Held(p) \cap FreePages = {} /\ Tables(word, page_map[p]) \in SUBSET Held(p)
    BY <2>1, HeldFacts
  <2>3. Tables(word, page_map[p]) \cap S = {}
    BY <1>3, <2>2
  <2> QED BY <1>3, <1>5, <1>7, <2>1, <2>2, <2>3, HeldStays
<1>9. Holds(heap', word', stack'[q], page_map'[q])
  BY <1>3, <1>5
<1>10. Apart(FreePages)'
  <2>1. \A p \in Proc \ InUse' : state'[p] = "UNUSED" /\ stack'[p] = NULL /\ page_map'[p] = NULL
    BY <1>1, <1>6, <1>7 DEF Apart
  <2>2. \A p \in InUse' : /\ Holds(heap', word', stack'[p], page_map'[p])
                          /\ Held(p)' \cap (FreePages' \cup Range(tables')) = {}
    <3>1. S \cap (FreePages' \cup Range(tables')) = {}
      BY <1>1, <1>2, <1>3, <1>5 DEF Apart
    <3>2. ASSUME NEW p \in InUse PROVE Held(p)' \cap (FreePages' \cup Range(tables')) = {}
      BY <1>1, <1>2, <1>5, <1>8 DEF Apart
    <3> QED BY <1>4, <1>6, <1>8, <1>9, <3>1, <3>2
  <2>3. \A p, r \in InUse' : p # r => Held(p)' \cap Held(r)' = {}
    <3>1. \A p, r \in InUse : p # r => Held(p)' \cap Held(r)' = {}
      BY <1>1, <1>8 DEF Apart
    <3>2. \A p \in InUse : Held(p)' \cap S = {}
      BY <1>3, <1>8
    <3> QED BY <1>4, <1>6, <3>1, <3>2
  <2>4. FreePages' \cap Range(tables') = {}
    BY <1>1, <1>2, <1>5 DEF Apart
  <2>5. \A x \in Pages(heap') :
          x \in FreePages' \/ x \in Range(tables') \/ \E p \in InUse' : x \in Held(p)'
    BY <1>1, <1>2, <1>4, <1>5, <1>6, <1>8 DEF Apart
  <2> QED BY <2>1, <2>2, <2>3, <2>4, <2>5 DEF Apart
<1>11. TypeOK'
  BY <1>1, <1>2, <1>5 DEF TypeOK, Frees, Words, Sound
<1>12. booted' = "memory" => Len(tables') < 2
  BY <1>2
<1> QED BY <1>2, <1>5, <1>10, <1>11, <1>12 DEF Core

\* five pages back,
LEMMA ReleasesKeeps ==
  ASSUME MemoryInv, panic = "none", NEW q \in Proc, Releases(q)
  PROVE  Core'
<1> DEFINE S == Held(q)
<1>1. /\ TypeOK /\ Apart(FreePages) /\ heap \in Nat /\ FreePages \in SUBSET Pages(heap)
      /\ state \in [Proc -> {"UNUSED", "INIT", "READY"}]
      /\ stack \in [Proc -> Pages(heap) \cup {NULL}]
      /\ page_map \in [Proc -> Pages(heap) \cup {NULL}]
  BY HeapIsNat, FreesGood, GoodFrees DEF MemoryInv, TypeOK
<1>2. /\ state[q] = "READY" /\ state' = [state EXCEPT ![q] = "UNUSED"]
      /\ stack' = [stack EXCEPT ![q] = NULL] /\ page_map' = [page_map EXCEPT ![q] = NULL]
      /\ booted = "up" /\ panic' = "none" /\ UNCHANGED <<booted, tables>>
      /\ NowFree(FreePages \cup S) /\ SameOutside(heap, word, word', S)
  BY DEF Releases
<1> HIDE DEF S
<1>3. /\ heap' = heap /\ FreePages' = FreePages \cup S
      /\ Frees(heap', free_memory', word', FreePages')
  BY <1>1, <1>2, NowFreeIs
<1>4. InUse' = InUse \ {q} /\ q \in InUse /\ InUse \in SUBSET Proc
  BY <1>1, <1>2 DEF InUse
<1>5. /\ state'[q] = "UNUSED" /\ stack'[q] = NULL /\ page_map'[q] = NULL
      /\ \A p \in Proc : p # q => /\ state'[p] = state[p] /\ stack'[p] = stack[p]
                                  /\ page_map'[p] = page_map[p]
  BY <1>1, <1>2
<1>6. ASSUME NEW p \in InUse'
      PROVE  /\ Holds(heap', word', stack'[p], page_map'[p]) /\ Held(p)' = Held(p)
             /\ Held(p) \cap S = {}
  <2>1. p \in Proc /\ state[p] = "READY" /\ p # q
    BY <1>4 DEF InUse
  <2>2. /\ Holds(heap, word, stack[p], page_map[p])
        /\ Held(p) \cap S = {} /\ Tables(word, page_map[p]) \in SUBSET Held(p)
    BY <1>2, <2>1, HeldFacts DEF S
  <2>3. Tables(word, page_map[p]) \cap S = {}
    BY <2>2
  <2> QED BY <1>2, <1>3, <1>5, <2>1, <2>2, <2>3, HeldStays
<1>7. S \cap Range(tables) = {}
  BY <1>2, HeldFacts DEF S
<1>8. Apart(FreePages)'
  <2>1. \A p \in Proc \ InUse' : state'[p] = "UNUSED" /\ stack'[p] = NULL /\ page_map'[p] = NULL
    BY <1>1, <1>4, <1>5 DEF Apart
  <2>2. \A p \in InUse' : /\ Holds(heap', word', stack'[p], page_map'[p])
                          /\ Held(p)' \cap (FreePages' \cup Range(tables')) = {}
    BY <1>1, <1>2, <1>3, <1>4, <1>6 DEF Apart
  <2>3. \A p, r \in InUse' : p # r => Held(p)' \cap Held(r)' = {}
    BY <1>1, <1>4, <1>6 DEF Apart
  <2>4. FreePages' \cap Range(tables') = {}
    BY <1>1, <1>2, <1>3, <1>7 DEF Apart
  <2>5. \A x \in Pages(heap') :
          x \in FreePages' \/ x \in Range(tables') \/ \E p \in InUse' : x \in Held(p)'
    <3> TAKE x \in Pages(heap')
    <3>1. x \in FreePages \/ x \in Range(tables) \/ \E p \in InUse : x \in Held(p)
      BY <1>1, <1>3 DEF Apart
    <3>2. ASSUME NEW p \in InUse, x \in Held(p) PROVE x \in S \/ p \in InUse'
      BY <1>4, <3>2 DEF S
    <3> QED BY <1>2, <1>3, <1>6, <3>1, <3>2
  <2> QED BY <2>1, <2>2, <2>3, <2>4, <2>5 DEF Apart
<1>9. TypeOK'
  BY <1>1, <1>2, <1>3 DEF TypeOK, Frees, Words, Sound
<1>10. booted' = "memory" => Len(tables') < 2
  BY <1>2
<1> QED BY <1>2, <1>3, <1>8, <1>9, <1>10 DEF Core

\* and a write of user code.
LEMMA WritesKeeps ==
  ASSUME MemoryInv, panic = "none", NEW q \in Proc, Writes(q)
  PROVE  /\ Core'
         /\ \A p \in InUse : Held(p)' = Held(p)
<1> DEFINE S == {UserPage(word, page_map[q])}
<1>1. /\ TypeOK /\ Apart(FreePages) /\ heap \in Nat /\ FreePages \in SUBSET Pages(heap)
  BY HeapIsNat, FreesGood, GoodFrees DEF MemoryInv, TypeOK
<1>2. /\ state[q] = "READY" /\ panic' = "none" /\ NowFree(FreePages)
      /\ SameOutside(heap, word, word', S)
      /\ UNCHANGED <<booted, tables, state, stack, page_map>>
  BY DEF Writes
<1>3. S \in SUBSET Held(q) /\ S \cap Tables(word, page_map[q]) = {}
  BY <1>2, HeldFacts
<1> HIDE DEF S
<1>4. /\ heap' = heap /\ FreePages' = FreePages
      /\ Frees(heap', free_memory', word', FreePages')
  BY <1>1, <1>2, NowFreeIs
<1>5. InUse' = InUse
  BY <1>2 DEF InUse
<1>6. ASSUME NEW p \in InUse
      PROVE  Holds(heap', word', stack'[p], page_map'[p]) /\ Held(p)' = Held(p)
  <2>1. p \in Proc /\ state[p] = "READY"
    BY DEF InUse
  <2>2. /\ Holds(heap, word, stack[p], page_map[p])
        /\ Tables(word, page_map[p]) \in SUBSET Held(p)
        /\ p # q => Held(p) \cap Held(q) = {}
    BY <1>2, <2>1, HeldFacts
  <2>3. Tables(word, page_map[p]) \cap S = {}
    BY <1>3, <2>2
  <2> QED BY <1>2, <1>4, <2>1, <2>2, <2>3, HeldStays
<1>7. Apart(FreePages)'
  <2>1. \A p \in Proc \ InUse' : state'[p] = "UNUSED" /\ stack'[p] = NULL /\ page_map'[p] = NULL
    BY <1>1, <1>2, <1>5 DEF Apart
  <2>2. \A p \in InUse' : /\ Holds(heap', word', stack'[p], page_map'[p])
                          /\ Held(p)' \cap (FreePages' \cup Range(tables')) = {}
    BY <1>1, <1>2, <1>4, <1>5, <1>6 DEF Apart
  <2>3. \A p, r \in InUse' : p # r => Held(p)' \cap Held(r)' = {}
    BY <1>1, <1>5, <1>6 DEF Apart
  <2>4. FreePages' \cap Range(tables') = {}
    BY <1>1, <1>2, <1>4 DEF Apart
  <2>5. \A x \in Pages(heap') :
          x \in FreePages' \/ x \in Range(tables') \/ \E p \in InUse' : x \in Held(p)'
    BY <1>1, <1>2, <1>4, <1>5, <1>6 DEF Apart
  <2> QED BY <2>1, <2>2, <2>3, <2>4, <2>5 DEF Apart
<1>8. TypeOK'
  BY <1>1, <1>2, <1>4 DEF TypeOK, Frees, Words, Sound
<1>9. booted' = "memory" => Len(tables') < 2
  BY <1>2 DEF MemoryInv
<1> QED BY <1>2, <1>4, <1>6, <1>7, <1>8, <1>9 DEF Core

\* What Owned finds in any slot: in one not in use, its stack and its map, and
\* no more than pages of the heap.
LEMMA OwnedFacts ==
  \A p \in Proc :
    /\ \A x \in {stack[p], page_map[p]} : x # NULL => x \in Owned(p)
    /\ heap \in Nat /\ state[p] = "READY" /\ Holds(heap, word, stack[p], page_map[p])
         => Owned(p) = Held(p)
    /\ (heap \in Nat /\ word \in Words(heap) /\ state[p] # "READY"
        /\ {stack[p], page_map[p]} \subseteq Pages(heap) \cup {NULL})
       => Owned(p) \in SUBSET Pages(heap)
<1> TAKE p \in Proc
<1>1. \A x \in {stack[p], page_map[p]} : x # NULL => x \in Owned(p)
  BY DEF Owned, MapPages
<1>2. heap \in Nat /\ state[p] = "READY" /\ Holds(heap, word, stack[p], page_map[p])
        => Owned(p) = Held(p)
  BY OwnedIs DEF Held
<1>3. ASSUME heap \in Nat, word \in Words(heap), state[p] # "READY",
             stack[p] \in Pages(heap) \cup {NULL}, page_map[p] \in Pages(heap) \cup {NULL}
      PROVE  Owned(p) \in SUBSET Pages(heap)
  <2>1. \A t \in Pages(heap) : Leads(t) \in SUBSET Pages(heap)
    BY <1>3, WordsTyped DEF Leads
  <2>2. MapPages(page_map[p]) \in SUBSET Pages(heap)
    <3>1. CASE page_map[p] = NULL
      BY <3>1 DEF MapPages
    <3>2. CASE page_map[p] \in Pages(heap)
      <4>1. Leads(page_map[p]) \in SUBSET Pages(heap)
        BY <2>1, <3>2
      <4>2. UNION {Leads(u) : u \in Leads(page_map[p])} \in SUBSET Pages(heap)
        BY <2>1, <4>1
      <4> QED BY <3>2, <4>1, <4>2 DEF MapPages
    <3> QED BY <1>3, <3>1, <3>2
  <2> QED BY <1>3, <2>2 DEF Owned
<1>4. (heap \in Nat /\ word \in Words(heap) /\ state[p] # "READY"
          /\ {stack[p], page_map[p]} \subseteq Pages(heap) \cup {NULL})
      => Owned(p) \in SUBSET Pages(heap)
  BY <1>3
<1> QED BY <1>1, <1>2, <1>4, Zenon

\* OwnedFacts, of the state after a step.
LEMMA OwnedFactsNext ==
  (\A p \in Proc :
     /\ \A x \in {stack[p], page_map[p]} : x # NULL => x \in Owned(p)
     /\ heap \in Nat /\ state[p] = "READY" /\ Holds(heap, word, stack[p], page_map[p])
          => Owned(p) = Held(p)
     /\ (heap \in Nat /\ word \in Words(heap) /\ state[p] # "READY"
         /\ {stack[p], page_map[p]} \subseteq Pages(heap) \cup {NULL})
        => Owned(p) \in SUBSET Pages(heap))'
BY OwnedFacts, PTL

\* After a stop nothing is lost either: what was taken for slot q and not given
\* back is on record there.
LEMMA StopsKeeps ==
  ASSUME MemoryInv, panic = "none", NEW q \in Proc, Stops(q)
  PROVE  /\ MemoryInv' /\ panic' # "none" /\ FreePages' \in SUBSET FreePages
         /\ InUse' = InUse
         /\ \A p \in InUse : /\ Held(p)' = Held(p)
                             /\ Holds(heap', word', stack'[p], page_map'[p])
                             /\ UserPage(word', page_map'[p]) = UserPage(word, page_map[p])
<1>1. /\ TypeOK /\ Apart(FreePages) /\ heap \in Nat /\ FreePages \in SUBSET Pages(heap)
      /\ state \in [Proc -> {"UNUSED", "INIT", "READY"}]
      /\ stack \in [Proc -> Pages(heap) \cup {NULL}]
      /\ page_map \in [Proc -> Pages(heap) \cup {NULL}]
      /\ tables \in Seq(Pages(heap)) /\ Len(tables) <= 2
  BY HeapIsNat, FreesGood, GoodFrees DEF MemoryInv, TypeOK
<1>2. PICK F \in SUBSET FreePages :
        NowFree(F) /\ FreePages \ F \in SUBSET {stack'[q], page_map'[q]}
  BY DEF Stops
<1>3. /\ SameOutside(heap, word, word', FreePages)
      /\ panic' \in {"init_fs", "alloc_new_process", "init_user_process", "fork"}
      /\ panic' # "init_user_process" => heap < 2 + PerProcess * Cardinality(Proc)
      /\ booted' \in {"memory", "fs", "up"} /\ tables' = tables
  BY DEF Stops
<1>4. /\ heap' = heap /\ FreePages' = F
      /\ Frees(heap', free_memory', word', FreePages')
  BY <1>1, <1>2, NowFreeIs
<1>5. /\ state' \in [Proc -> {"UNUSED", "INIT", "READY"}]
      /\ stack' \in [Proc -> Pages(heap) \cup {NULL}]
      /\ page_map' \in [Proc -> Pages(heap) \cup {NULL}]
      /\ \A p \in InUse : /\ state'[p] = state[p] /\ stack'[p] = stack[p]
                          /\ page_map'[p] = page_map[p]
      /\ InUse' = InUse
  <2>1. CASE UNCHANGED <<state, stack, page_map>>
    BY <1>1, <2>1 DEF InUse
  <2>2. CASE /\ state[q] # "READY"
             /\ \E t \in {state[q], "INIT"}, s, map \in Pages(heap) \cup {NULL} :
                  /\ state' = [state EXCEPT ![q] = t]
                  /\ stack' = [stack EXCEPT ![q] = s]
                  /\ page_map' = [page_map EXCEPT ![q] = map]
    <3>1. PICK t \in {state[q], "INIT"} : \E s, map \in Pages(heap) \cup {NULL} :
                  /\ state' = [state EXCEPT ![q] = t]
                  /\ stack' = [stack EXCEPT ![q] = s]
                  /\ page_map' = [page_map EXCEPT ![q] = map]
      BY <2>2
    <3>2. t \in {"UNUSED", "INIT"}
      BY <1>1, <2>2
    <3>3. /\ state' \in [Proc -> {"UNUSED", "INIT", "READY"}]
          /\ stack' \in [Proc -> Pages(heap) \cup {NULL}]
          /\ page_map' \in [Proc -> Pages(heap) \cup {NULL}]
      BY <1>1, <3>1, <3>2
    <3>4. \A p \in Proc : p # q => /\ state'[p] = state[p] /\ stack'[p] = stack[p]
                                   /\ page_map'[p] = page_map[p]
      BY <1>1, <3>1
    <3>5. state'[q] # "READY" /\ state[q] # "READY"
      BY <1>1, <2>2, <3>1, <3>2
    <3> QED BY <3>3, <3>4, <3>5 DEF InUse
  <2> QED BY <2>1, <2>2 DEF Stops
<1>6. ASSUME NEW p \in InUse
      PROVE  /\ Held(p)' = Held(p)
             /\ Holds(heap', word', stack'[p], page_map'[p])
             /\ UserPage(word', page_map'[p]) = UserPage(word, page_map[p])
             /\ Held(p) \in SUBSET Pages(heap)
  <2>1. p \in Proc /\ state[p] = "READY"
    BY DEF InUse
  <2>2. /\ Holds(heap, word, stack[p], page_map[p]) /\ Held(p) \in SUBSET Pages(heap)
        /\ Held(p) \cap FreePages = {} /\ Tables(word, page_map[p]) \in SUBSET Held(p)
    BY <2>1, HeldFacts
  <2>3. Tables(word, page_map[p]) \cap FreePages = {}
    BY <2>2
  <2> QED BY <1>3, <1>4, <1>5, <2>1, <2>2, <2>3, HeldStays
<1>7. ASSUME NEW p \in InUse PROVE Owned(p)' = Held(p)'
  <2>1. p \in Proc /\ state'[p] = "READY"
    BY <1>5 DEF InUse
  <2> QED BY <1>1, <1>4, <1>6, <2>1, OwnedFactsNext
<1>8. \A x \in FreePages \ F : x \in Owned(q)'
  <2>1. \A x \in Pages(heap) : x # NULL
    BY <1>1 DEF Pages, NULL
  <2> QED BY <1>1, <1>2, <2>1, OwnedFactsNext
<1>9. NoPageLost'
  <2>1. \A x \in Pages(heap) :
          x \in FreePages' \/ x \in Range(tables') \/ \E p \in Proc : x \in Owned(p)'
    <3> TAKE x \in Pages(heap)
    <3>1. x \in FreePages \/ x \in Range(tables) \/ \E p \in InUse : x \in Held(p)
      BY <1>1 DEF Apart
    <3>2. InUse \in SUBSET Proc
      BY DEF InUse
    <3> QED BY <1>3, <1>4, <1>6, <1>7, <1>8, <3>1, <3>2
  <2>2. \A p \in Proc : Owned(p)' \in SUBSET Pages(heap)
    <3> TAKE p \in Proc
    <3>1. CASE p \in InUse
      BY <1>6, <1>7, <3>1
    <3>2. CASE p \notin InUse
      <4>1. state'[p] # "READY"
        BY <1>5, <3>2 DEF InUse
      <4>2. heap' \in Nat /\ word' \in Words(heap')
        BY <1>1, <1>4 DEF Frees
      <4>3. {stack'[p], page_map'[p]} \subseteq Pages(heap') \cup {NULL}
        BY <1>4, <1>5
      <4> QED BY <1>4, <4>1, <4>2, <4>3, OwnedFactsNext
    <3> QED BY <3>1, <3>2
  <2>3. Range(tables') \in SUBSET Pages(heap)
    BY <1>1, <1>3 DEF Range
  <2> QED BY <1>1, <1>4, <2>1, <2>2, <2>3 DEF NoPageLost
<1>10. TypeOK'
  BY <1>1, <1>3, <1>4, <1>5 DEF TypeOK, Frees, Words, Sound
<1>11. EnoughIsEnough'
  <2>1. CASE panic' = "init_user_process"
    BY <2>1 DEF EnoughIsEnough
  <2>2. CASE heap < 2 + PerProcess * Cardinality(Proc)
    <3>1. PerProcess * Cardinality(Proc) \in Nat
      BY MemoryAssumption, FS_CardinalityType DEF PerProcess
    <3>2. ~ (heap >= 2 + PerProcess * Cardinality(Proc))
      BY <1>1, <2>2, <3>1
    <3> QED BY <1>4, <3>2 DEF EnoughIsEnough
  <2> QED BY <1>3, <2>1, <2>2
<1>12. panic' # "none" /\ panic' # "memory"
  BY <1>3
<1>13. MemoryInv'
  BY <1>4, <1>9, <1>10, <1>11, <1>12 DEF MemoryInv, MemoryAsserts
<1> QED BY <1>4, <1>5, <1>6, <1>12, <1>13

LEMMA StutterKeeps == ASSUME MemoryInv, UNCHANGED memVars PROVE MemoryInv'
<1>1. TypeOK /\ heap \in Nat /\ Frees(heap, free_memory, word, FreePages)
  BY HeapIsNat DEF MemoryInv
<1>2. UNCHANGED <<heap, free_memory, word, booted, tables, state, stack, page_map, panic>>
  BY DEF memVars
<1>3. FreePages' = FreePages /\ Frees(heap', free_memory', word', FreePages')
  BY <1>1, <1>2, NowFreeIs DEF NowFree
<1>4. TypeOK'
  BY <1>1, <1>2 DEF TypeOK
<1>5. \A t : Leads(t)' = Leads(t)
  BY <1>2 DEF Leads
<1>6. \A p : Owned(p)' = Owned(p)
  BY <1>2, <1>5 DEF Owned, MapPages
<1>7. NoPageLost'
  BY <1>2, <1>3, <1>6 DEF MemoryInv, NoPageLost
<1>8. InUse' = InUse /\ \A p : Held(p)' = Held(p)
  BY <1>2 DEF InUse, Held
<1>9. panic' = "none" => Apart(FreePages)'
  BY <1>2, <1>3, <1>8 DEF MemoryInv, Apart
<1>10. MemoryAsserts' /\ EnoughIsEnough'
  BY <1>2 DEF MemoryInv, MemoryAsserts, EnoughIsEnough
<1>11. panic' = "none" /\ booted' = "memory" => Len(tables') < 2
  BY <1>2 DEF MemoryInv
<1> QED BY <1>3, <1>4, <1>7, <1>9, <1>10, <1>11 DEF MemoryInv

\* Every step keeps the invariant.
LEMMA StepKeeps == ASSUME MemoryInv, [Next]_memVars PROVE MemoryInv'
<1>1. ASSUME panic = "none", NEW a \in Pages(heap), Reserves(a) PROVE MemoryInv'
  BY <1>1, ReservesKeeps, CoreImpliesNext
<1>2. ASSUME panic = "none", NEW q \in Proc, Creates(q) PROVE MemoryInv'
  BY <1>2, CreatesKeeps, CoreImpliesNext
<1>3. ASSUME panic = "none", NEW q \in Proc, Releases(q) PROVE MemoryInv'
  BY <1>3, ReleasesKeeps, CoreImpliesNext
<1>4. ASSUME panic = "none", NEW q \in Proc, Writes(q) PROVE MemoryInv'
  BY <1>4, WritesKeeps, CoreImpliesNext
<1>5. ASSUME panic = "none", NEW q \in Proc, Stops(q) PROVE MemoryInv'
  BY <1>5, StopsKeeps
<1>6. CASE UNCHANGED memVars
  BY <1>6, StutterKeeps
<1> QED BY <1>1, <1>2, <1>3, <1>4, <1>5, <1>6, StepDoes

-----------------------------------------------------------------------------
(* The theorems.                                                           *)

\* kalloc(), kfree(), map_page() and free_vm() keep a free list without cycles in
\* the free pages, and the pages of each process in use apart from it, from the
\* kernel's and from one another.
THEOREM MemoryInvariant == Spec => []MemoryInv
<1>1. MemoryInv /\ [Next]_memVars => MemoryInv'
  BY StepKeeps
<1> QED BY <1>1, InitInv, PTL DEF Spec

\* The memory functions leave every variable in its range: no page table and no
\* link of the free list leads out of the heap.
THEOREM MemoryTypes == Spec => []TypeOK
<1>1. MemoryInv => TypeOK
  BY DEF MemoryInv
<1> QED BY <1>1, MemoryInvariant, PTL

\* kalloc() and kfree() keep the free list free of cycles.
THEOREM FreeListIsFinite == Spec => []FreeListEnds
<1>1. MemoryInv => FreeListEnds
  <2> SUFFICES ASSUME MemoryInv PROVE FreeListEnds
    OBVIOUS
  <2>1. heap \in Nat /\ FreeList(heap, free_memory, word, FreePages)
    BY HeapIsNat DEF MemoryInv, Frees
  <2> QED BY <2>1, FollowedIs DEF FreeListEnds
<1> QED BY <1>1, MemoryInvariant, PTL

\* fork(), init_process() and wait() never give a page to two owners.
THEOREM PagesAreNotShared == Spec => []NoPageShared
<1>1. MemoryInv => NoPageShared
  <2>1. MemoryInv /\ panic = "none" => NoPageShared
    BY RunningCore, CoreImplies
  <2> QED BY <2>1 DEF NoPageShared
<1> QED BY <1>1, MemoryInvariant, PTL

\* Nor do they lose one, also when they fail half way.
THEOREM PagesAreNotLost == Spec => []NoPageLost
<1>1. MemoryInv => NoPageLost
  BY DEF MemoryInv
<1> QED BY <1>1, MemoryInvariant, PTL

\* The assertions of kfree() and map_page() never fail.
THEOREM AssertionsHold == Spec => []MemoryAsserts
<1>1. MemoryInv => MemoryAsserts
  BY DEF MemoryInv
<1> QED BY <1>1, MemoryInvariant, PTL

\* With five pages for a process and two for fs.c, init_fs(), init_process() and
\* fork() find the pages they need.
THEOREM EnoughPagesAreEnough == Spec => []EnoughIsEnough
<1>1. MemoryInv => EnoughIsEnough
  BY DEF MemoryInv
<1> QED BY <1>1, MemoryInvariant, PTL

-----------------------------------------------------------------------------
(* What a step leaves alone.                                               *)

\* Process p keeps its five pages, and what is in its user page.
Kept(p) ==
  /\ Held(p)' = Held(p) /\ Holds(heap', word', stack'[p], page_map'[p])
  /\ UserPage(word', page_map'[p]) = UserPage(word, page_map[p])

\* A step that writes to none of its pages ...
LEMMA Undisturbed ==
  ASSUME MemoryInv, panic = "none", heap' = heap, NEW p \in InUse,
         NEW S, SameOutside(heap, word, word', S), Held(p) \cap S = {},
         stack'[p] = stack[p], page_map'[p] = page_map[p]
  PROVE  Kept(p) /\ Contents(p)' = Contents(p)
<1>1. p \in Proc /\ state[p] = "READY"
  BY DEF InUse
<1>2. /\ Holds(heap, word, stack[p], page_map[p]) /\ Held(p) \in SUBSET Pages(heap)
      /\ Tables(word, page_map[p]) \in SUBSET Held(p)
      /\ UserPage(word, page_map[p]) \in Held(p)
  BY <1>1, HeldFacts
<1>3. Tables(word, page_map[p]) \cap S = {}
  BY <1>2
<1>4. Kept(p)
  BY <1>1, <1>2, <1>3, HeldStays DEF Kept
<1>5. word'[UserPage(word, page_map[p])] = word[UserPage(word, page_map[p])]
  BY <1>2 DEF SameOutside
<1> QED BY <1>4, <1>5 DEF Kept, Contents

\* ... is any but a write of the process itself.
LEMMA StepLeaves ==
  ASSUME MemoryInv, panic = "none", NEW p \in Proc, state[p] = "READY", state'[p] = "READY",
         \/ \E a \in Pages(heap) : Reserves(a)
         \/ \E q \in Proc : Creates(q) \/ Releases(q) \/ Stops(q)
         \/ \E q \in Proc \ {p} : Writes(q)
  PROVE  Kept(p) /\ Contents(p)' = Contents(p)
<1>1. p \in InUse /\ Held(p) \cap FreePages = {}
  BY HeldFacts DEF InUse
<1>2. /\ TypeOK
      /\ state \in [Proc -> {"UNUSED", "INIT", "READY"}]
      /\ stack \in [Proc -> Pages(heap) \cup {NULL}]
      /\ page_map \in [Proc -> Pages(heap) \cup {NULL}]
  BY DEF MemoryInv, TypeOK
<1>3. ASSUME NEW a \in Pages(heap), Reserves(a) PROVE Kept(p) /\ Contents(p)' = Contents(p)
  BY <1>1, <1>3, Undisturbed DEF Reserves, NowFree
<1>4. ASSUME NEW q \in Proc, Creates(q) PROVE Kept(p) /\ Contents(p)' = Contents(p)
  <2> DEFINE S == FiveOf(word', stack'[q], page_map'[q])
  <2>1. /\ S \in SUBSET FreePages /\ heap' = heap /\ SameOutside(heap, word, word', S)
        /\ state[q] = "UNUSED"
        /\ \E s, map \in Pages(heap) :
             stack' = [stack EXCEPT ![q] = s] /\ page_map' = [page_map EXCEPT ![q] = map]
    BY <1>4 DEF Creates, NowFree
  <2> HIDE DEF S
  <2>2. stack'[p] = stack[p] /\ page_map'[p] = page_map[p]
    BY <1>2, <2>1
  <2> QED BY <1>1, <2>1, <2>2, Undisturbed
<1>5. ASSUME NEW q \in Proc, Releases(q) PROVE Kept(p) /\ Contents(p)' = Contents(p)
  <2>1. /\ heap' = heap /\ SameOutside(heap, word, word', Held(q))
        /\ state[q] = "READY" /\ state' = [state EXCEPT ![q] = "UNUSED"]
        /\ stack' = [stack EXCEPT ![q] = NULL] /\ page_map' = [page_map EXCEPT ![q] = NULL]
    BY <1>5 DEF Releases, NowFree
  <2>2. p # q
    BY <1>2, <2>1
  <2>3. stack'[p] = stack[p] /\ page_map'[p] = page_map[p] /\ Held(p) \cap Held(q) = {}
    BY <1>2, <2>1, <2>2, HeldFacts
  <2> QED BY <1>1, <2>1, <2>3, Undisturbed
<1>6. ASSUME NEW q \in Proc, Stops(q) PROVE Kept(p) /\ Contents(p)' = Contents(p)
  <2>1. heap' = heap /\ SameOutside(heap, word, word', FreePages)
    BY <1>6 DEF Stops, NowFree
  <2>2. stack'[p] = stack[p] /\ page_map'[p] = page_map[p]
    <3>1. CASE UNCHANGED <<state, stack, page_map>>
      BY <3>1
    <3>2. CASE /\ state[q] # "READY"
               /\ \E t \in {state[q], "INIT"}, s, map \in Pages(heap) \cup {NULL} :
                    /\ state' = [state EXCEPT ![q] = t]
                    /\ stack' = [stack EXCEPT ![q] = s]
                    /\ page_map' = [page_map EXCEPT ![q] = map]
      BY <1>2, <3>2
    <3> QED BY <1>6, <3>1, <3>2 DEF Stops
  <2> QED BY <1>1, <2>1, <2>2, Undisturbed
<1>7. ASSUME NEW q \in Proc \ {p}, Writes(q) PROVE Kept(p) /\ Contents(p)' = Contents(p)
  <2> DEFINE S == {UserPage(word, page_map[q])}
  <2>1. /\ heap' = heap /\ SameOutside(heap, word, word', S)
        /\ state[q] = "READY" /\ UNCHANGED <<stack, page_map>>
    BY <1>7 DEF Writes, NowFree
  <2>2. Held(p) \cap S = {}
    BY <2>1, HeldFacts
  <2> HIDE DEF S
  <2> QED BY <1>1, <2>1, <2>2, Undisturbed
<1> QED BY <1>3, <1>4, <1>5, <1>6, <1>7

\* A process reaches the same page all its life, and only it writes there.
LEMMA StepIsPrivate ==
  ASSUME MemoryInv, [Next]_memVars
  PROVE  /\ \A p \in Proc : Lives(p) => UserPage(word', page_map'[p]) = UserPage(word, page_map[p])
         /\ \A p, q \in Proc :
              Lives(p) /\ Lives(q) /\ Contents(p)' # Contents(p)
                => UNCHANGED free_memory /\ (p # q => Contents(q)' = Contents(q))
<1> DEFINE others == \/ \E a \in Pages(heap) : Reserves(a)
                     \/ \E q \in Proc : Creates(q) \/ Releases(q) \/ Stops(q)
<1>1. CASE panic = "none" /\ others
  <2>1. \A p \in Proc : Lives(p) => Kept(p) /\ Contents(p)' = Contents(p)
    BY <1>1, StepLeaves DEF Lives
  <2> QED BY <2>1 DEF Kept
<1>2. ASSUME panic = "none", NEW r \in Proc, Writes(r)
      PROVE  /\ \A p \in Proc : Lives(p) => UserPage(word', page_map'[p]) = UserPage(word, page_map[p])
             /\ \A p \in Proc : Lives(p) /\ p # r => Contents(p)' = Contents(p)
             /\ UNCHANGED free_memory
  <2>1. \A p \in Proc : Lives(p) /\ p # r => Kept(p) /\ Contents(p)' = Contents(p)
    BY <1>2, StepLeaves DEF Lives
  <2>2. UserPage(word', page_map'[r]) = UserPage(word, page_map[r])
    <3>1. /\ heap' = heap /\ SameOutside(heap, word, word', {UserPage(word, page_map[r])})
          /\ state[r] = "READY" /\ UNCHANGED <<stack, page_map>>
      BY <1>2 DEF Writes, NowFree
    <3>2. /\ Holds(heap, word, stack[r], page_map[r])
          /\ UserPage(word, page_map[r]) \notin Tables(word, page_map[r])
      BY <1>2, <3>1, HeldFacts
    <3> QED BY <3>1, <3>2, HeldStays
  <2>3. UNCHANGED free_memory
    BY <1>2 DEF Writes
  <2> QED BY <2>1, <2>2, <2>3 DEF Kept
<1>3. CASE UNCHANGED memVars
  BY <1>3 DEF memVars, Contents
<1> HIDE DEF others
<1>4. (panic = "none" /\ others) \/ (panic = "none" /\ \E r \in Proc : Writes(r)) \/ UNCHANGED memVars
  BY StepDoes DEF others
<1> QED BY <1>1, <1>2, <1>3, <1>4

\* fork(), wait() and the writes of other processes do not reach a user page.
THEOREM UserPagesStayPrivate == Spec => UserPagesArePrivate
<1>1. MemoryInv /\ [Next]_memVars =>
        [ /\ \A p \in Proc : Lives(p) => UserPage(word', page_map'[p]) = UserPage(word, page_map[p])
          /\ \A p, q \in Proc :
               Lives(p) /\ Lives(q) /\ Contents(p)' # Contents(p)
                 => UNCHANGED free_memory /\ (p # q => Contents(q)' = Contents(q)) ]_memVars
  BY StepIsPrivate
<1> QED BY <1>1, MemoryInvariant, PTL DEF Spec, UserPagesArePrivate

-----------------------------------------------------------------------------
(* Memory implements PagePool.                                             *)

\* The pages of each process, as the refinement mapping has them.
Belongs == [p \in Proc |-> IF state[p] = "READY" THEN Owned(p) ELSE {}]

\* A process in use owns its five pages, any other none.
LEMMA BelongsIs ==
  heap \in Nat /\ (\A p \in InUse : Holds(heap, word, stack[p], page_map[p]))
    => Belongs = [p \in Proc |-> IF p \in InUse THEN Held(p) ELSE {}]
<1> SUFFICES ASSUME heap \in Nat, \A p \in InUse : Holds(heap, word, stack[p], page_map[p])
             PROVE  Belongs = [p \in Proc |-> IF p \in InUse THEN Held(p) ELSE {}]
  OBVIOUS
<1>1. \A p \in InUse : p \in Proc /\ state[p] = "READY" /\ Owned(p) = Held(p)
  BY OwnedIs DEF InUse, Held
<1>2. \A p \in Proc : p \notin InUse => state[p] # "READY"
  BY DEF InUse
<1> QED BY <1>1, <1>2 DEF Belongs

\* BelongsIs, of the state after a step.
LEMMA BelongsIsNext ==
  (heap \in Nat /\ (\A p \in InUse : Holds(heap, word, stack[p], page_map[p]))
     => Belongs = [p \in Proc |-> IF p \in InUse THEN Held(p) ELSE {}])'
BY BelongsIs, PTL

\* The same for the state after a step that leaves the processes in use their pages.
LEMMA BelongsNow ==
  ASSUME MemoryInv, panic = "none", heap' = heap,
         \A p \in InUse' : Holds(heap', word', stack'[p], page_map'[p])
  PROVE  /\ \A p \in Proc : Belongs[p] = IF p \in InUse THEN Held(p) ELSE {}
         /\ Belongs = [p \in Proc |-> Belongs[p]]
         /\ Belongs' = [p \in Proc |-> IF p \in InUse' THEN Held(p)' ELSE {}]
<1>1. heap \in Nat /\ \A p \in InUse : Holds(heap, word, stack[p], page_map[p])
  BY HeapIsNat DEF MemoryInv, Apart
<1>2. Belongs = [p \in Proc |-> IF p \in InUse THEN Held(p) ELSE {}]
  BY <1>1, BelongsIs
<1>3. Belongs' = [p \in Proc |-> IF p \in InUse' THEN Held(p)' ELSE {}]
  BY <1>1, BelongsIsNext
<1> QED BY <1>2, <1>3

\* Where the pages are when the kernel starts.
LEMMA InitIsPool == Init => Pool!Init
<1> SUFFICES ASSUME Init PROVE Pool!Init
  OBVIOUS
<1>1. heap \in Nat /\ FreePages \in SUBSET Pages(heap)
  BY InitInv, HeapIsNat, FreesGood, GoodFrees DEF MemoryInv
<1>2. IsFiniteSet(FreePages)
  <2>1. IsFiniteSet(1 .. heap)
    <3>1. 1 \in Int /\ heap \in Int
      BY <1>1
    <3> QED BY <3>1, FS_Interval
  <2> QED BY <1>1, <2>1, FS_Subset DEF Pages
<1>3. Belongs = [p \in Proc |-> {}] /\ panic = "none"
  BY DEF Init, Belongs
<1>4. Pool!IsFiniteSet(FreePages)
  BY <1>2 DEF IsFiniteSet, Pool!IsFiniteSet
<1> QED BY <1>3, <1>4 DEF Pool!Init, Belongs

\* The two names of Cardinality are one operator.
LEMMA PoolCardinality == \A S : Pool!Cardinality(S) = Cardinality(S)
BY DEF Cardinality, Pool!Cardinality

\* Each step takes pages from the pool, puts them back, stops, or stutters.
LEMMA PoolSame ==
  ASSUME FreePages' = FreePages, Belongs' = Belongs, (panic' # "none") = (panic # "none")
  PROVE  UNCHANGED Pool!poolVars
BY DEF Pool!poolVars, Belongs

\* init_fs() is Reserve,
LEMMA PoolReserve ==
  ASSUME MemoryInv, panic = "none", NEW a \in Pages(heap), Reserves(a)
  PROVE  Pool!Next
<1>1. /\ a \in FreePages /\ FreePages' = FreePages \ {a} /\ panic' = "none"
      /\ heap' = heap /\ UNCHANGED <<state, stack, page_map>>
  BY NowFreeIs DEF Reserves, NowFree, MemoryInv
<1>2. InUse' = InUse
  BY <1>1 DEF InUse
<1>3. ASSUME NEW p \in InUse
      PROVE  Holds(heap', word', stack'[p], page_map'[p]) /\ Held(p)' = Held(p)
  BY <1>1, <1>3, StepLeaves DEF InUse, Kept
<1>4. Belongs' = Belongs
  BY <1>1, <1>2, <1>3, BelongsNow
<1>5. \E page \in FreePages \ FreePages' : {page} \subseteq FreePages /\ FreePages' = FreePages \ {page}
  BY <1>1
<1>6. Pool!Reserve
  BY <1>1, <1>4, <1>5 DEF Pool!Reserve, Pool!Take, Belongs
<1> QED BY <1>6 DEF Pool!Next

\* init_process() and fork() are Create,
LEMMA PoolCreate ==
  ASSUME MemoryInv, panic = "none", NEW q \in Proc, Creates(q)
  PROVE  Pool!Next
<1> DEFINE S == FiveOf(word', stack'[q], page_map'[q])
<1>1. /\ S \in SUBSET FreePages /\ Holds(heap, word', stack'[q], page_map'[q])
      /\ FreePages' = FreePages \ S /\ heap' = heap /\ panic' = "none"
      /\ state[q] = "UNUSED" /\ state' = [state EXCEPT ![q] = "READY"]
  BY NowFreeIs DEF Creates, NowFree, MemoryInv
<1>2. S = Held(q)'
  BY DEF Held
<1>3. Cardinality(S) = 5
  BY <1>1, FiveCount
<1> HIDE DEF S
<1>4. state \in [Proc -> {"UNUSED", "INIT", "READY"}]
  BY DEF MemoryInv, TypeOK
<1>5. InUse' = InUse \cup {q} /\ q \notin InUse /\ InUse \in SUBSET Proc
  BY <1>1, <1>4 DEF InUse
<1>6. ASSUME NEW p \in InUse
      PROVE  Holds(heap', word', stack'[p], page_map'[p]) /\ Held(p)' = Held(p)
  <2>1. p \in Proc /\ state[p] = "READY" /\ state'[p] = "READY"
    BY <1>1, <1>4 DEF InUse
  <2> QED BY <2>1, StepLeaves DEF Kept
<1>7. \A p \in InUse' : Holds(heap', word', stack'[p], page_map'[p])
  BY <1>1, <1>5, <1>6
<1>8. /\ \A p \in Proc : Belongs[p] = IF p \in InUse THEN Held(p) ELSE {}
      /\ Belongs = [p \in Proc |-> Belongs[p]]
      /\ Belongs' = [p \in Proc |-> IF p \in InUse' THEN Held(p)' ELSE {}]
  BY <1>1, <1>7, BelongsNow
<1>9. Belongs[q] = {} /\ Belongs'[q] = S /\ Belongs' = [Belongs EXCEPT ![q] = S]
  BY <1>2, <1>5, <1>6, <1>8
<1>10. Pool!Cardinality(S) = PerProcess
  BY <1>3, PoolCardinality DEF PerProcess
<1>11. Pool!Create(q)
  BY <1>1, <1>9, <1>10 DEF Pool!Create, Pool!Take, Belongs
<1> QED BY <1>11 DEF Pool!Next

\* wait() is Destroy,
LEMMA PoolDestroy ==
  ASSUME MemoryInv, panic = "none", NEW q \in Proc, Releases(q)
  PROVE  Pool!Next
<1>1. /\ FreePages' = FreePages \cup Held(q) /\ heap' = heap /\ panic' = "none"
      /\ state[q] = "READY" /\ state' = [state EXCEPT ![q] = "UNUSED"]
  BY NowFreeIs DEF Releases, NowFree, MemoryInv
<1>2. Held(q) # {}
  BY DEF Held, FiveOf
<1>3. state \in [Proc -> {"UNUSED", "INIT", "READY"}]
  BY DEF MemoryInv, TypeOK
<1>4. InUse' = InUse \ {q} /\ q \in InUse
  BY <1>1, <1>3 DEF InUse
<1>5. ASSUME NEW p \in InUse'
      PROVE  Holds(heap', word', stack'[p], page_map'[p]) /\ Held(p)' = Held(p)
  <2>1. p \in Proc /\ state[p] = "READY" /\ state'[p] = "READY"
    BY <1>4 DEF InUse
  <2> QED BY <2>1, StepLeaves DEF Kept
<1>6. /\ \A p \in Proc : Belongs[p] = IF p \in InUse THEN Held(p) ELSE {}
      /\ Belongs = [p \in Proc |-> Belongs[p]]
      /\ Belongs' = [p \in Proc |-> IF p \in InUse' THEN Held(p)' ELSE {}]
  BY <1>1, <1>5, BelongsNow
<1>7. Belongs[q] = Held(q) /\ Belongs' = [Belongs EXCEPT ![q] = {}]
  BY <1>4, <1>5, <1>6
<1>8. Pool!Destroy(q)
  BY <1>1, <1>2, <1>7 DEF Pool!Destroy, Belongs
<1> QED BY <1>8 DEF Pool!Next

\* a failed assertion is Halt,
LEMMA PoolHalt ==
  ASSUME MemoryInv, panic = "none", NEW q \in Proc, Stops(q)
  PROVE  Pool!Next
<1>1. /\ panic' # "none" /\ FreePages' \in SUBSET FreePages /\ InUse' = InUse
      /\ \A p \in InUse : Held(p)' = Held(p) /\ Holds(heap', word', stack'[p], page_map'[p])
  BY StopsKeeps
<1>2. heap' = heap
  BY DEF Stops, NowFree
<1>3. Belongs' = Belongs
  BY <1>1, <1>2, BelongsNow
<1>4. Pool!Halt
  BY <1>1, <1>3 DEF Pool!Halt, Belongs
<1> QED BY <1>4 DEF Pool!Next

\* and a write to a page is none of the pool's business.
LEMMA PoolWrite ==
  ASSUME MemoryInv, panic = "none", NEW q \in Proc, Writes(q)
  PROVE  UNCHANGED Pool!poolVars
<1>1. FreePages' = FreePages /\ heap' = heap /\ panic' = "none" /\ UNCHANGED state
  BY NowFreeIs DEF Writes, NowFree, MemoryInv
<1>2. InUse' = InUse
  BY <1>1 DEF InUse
<1>3. (\A p \in InUse : Held(p)' = Held(p)) /\ Apart(FreePages)'
  BY WritesKeeps DEF Core
<1>4. \A p \in InUse' : Holds(heap', word', stack'[p], page_map'[p])
  BY <1>3 DEF Apart
<1>5. Belongs' = Belongs
  BY <1>1, <1>2, <1>3, <1>4, BelongsNow
<1> QED BY <1>1, <1>5, PoolSame

\* Nor is a step that changes nothing.
LEMMA PoolStutter == ASSUME MemoryInv, UNCHANGED memVars PROVE UNCHANGED Pool!poolVars
<1>1. TypeOK /\ heap \in Nat /\ Frees(heap, free_memory, word, FreePages)
  BY HeapIsNat DEF MemoryInv
<1>2. UNCHANGED <<heap, free_memory, word, booted, tables, state, stack, page_map, panic>>
  BY DEF memVars
<1>3. FreePages' = FreePages
  BY <1>1, <1>2, NowFreeIs DEF NowFree
<1>4. \A t : Leads(t)' = Leads(t)
  BY <1>2 DEF Leads
<1>5. \A p : Owned(p)' = Owned(p)
  BY <1>2, <1>4 DEF Owned, MapPages
<1>6. Belongs' = Belongs
  BY <1>2, <1>5 DEF Belongs
<1> QED BY <1>2, <1>3, <1>6, PoolSame

\* The free list and the page tables, which kalloc(), map_page() and free_vm()
\* keep inside the pages themselves, are a pool of pages with an owner each.
THEOREM MemoryIsPagePool == Spec => IsPagePool
<1>1. MemoryInv /\ [Next]_memVars => [Pool!Next]_Pool!poolVars
  <2> SUFFICES ASSUME MemoryInv, [Next]_memVars PROVE [Pool!Next]_Pool!poolVars
    OBVIOUS
  <2>1. CASE panic = "none" /\ \E a \in Pages(heap) : Reserves(a)
    BY <2>1, PoolReserve
  <2>2. ASSUME panic = "none", NEW q \in Proc, Creates(q) \/ Releases(q) \/ Writes(q) \/ Stops(q)
        PROVE  [Pool!Next]_Pool!poolVars
    BY <2>2, PoolCreate, PoolDestroy, PoolWrite, PoolHalt
  <2>3. CASE UNCHANGED memVars
    BY <2>3, PoolStutter
  <2> QED BY <2>1, <2>2, <2>3, StepDoes
<1> QED BY <1>1, InitIsPool, MemoryInvariant, PTL DEF Spec, IsPagePool, Pool!Spec
=============================================================================
