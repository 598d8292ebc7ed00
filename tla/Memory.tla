------------------------------- MODULE Memory -------------------------------
(***************************************************************************)
(* Pages: the free list of memory.c, the page tables of each process and   *)
(* the operations of process.c that take pages and give them back.         *)
(*                                                                         *)
(* The free list is kept in the free pages themselves, so a page is        *)
(* modelled by the words that the kernel reads there: word 0, where a free *)
(* page has its link and a PGD or PUD the only entry in use, and word 2,   *)
(* the entry of a PMD for the address 0x400000.  A word is an address with *)
(* its valid bit; the address of a page, being aligned, has that bit clear.*)
(*                                                                         *)
(* The functions of memory.c are operators from a memory to a memory.      *)
(* Those of the kernel run with interrupts masked and none of them sleeps, *)
(* so each system call is one action.  Exit changes no page, so a process  *)
(* in use stands for a killed one too.                                     *)
(*                                                                         *)
(* Operators whose names start with Wrong: see Process.                    *)
(***************************************************************************)
EXTENDS Integers, Sequences, FiniteSets, FiniteSetsExt, Functions

CONSTANTS
  Proc,     \* slots of process_table that user processes take
  Heaps     \* the sizes, in pages, of the heap that init_memory() may find

ASSUME MemoryAssumption ==
  /\ Heaps \subseteq Nat /\ IsFiniteSet(Heaps)
  /\ Proc \subseteq Nat /\ IsFiniteSet(Proc) /\ Proc # {}

NULL == 0
Pages(n) == 1 .. n            \* the pages between end and HEAP_MEMORY_END
PerProcess == 5               \* kernel stack, PGD, PUD, PMD and user page

Word(n)   == [v : BOOLEAN, page : Pages(n) \cup {NULL}]
Zero      == [v |-> FALSE, page |-> NULL]
Link(p)   == [v |-> FALSE, page |-> p]
Entry(p)  == [v |-> TRUE, page |-> p]      \* of a table, or the block entry
Data      == Entry(1)                      \* what user code may leave in a page

Slots == {0, 2}               \* the words of a page that are modelled
PMD   == 2                    \* index of 0x400000 in a PMD
Blank == [i \in Slots |-> Zero]

VARIABLES
  heap,          \* pages in the heap
  free_memory,   \* free_memory.next
  word,          \* contents of the pages
  booted,        \* "memory", "fs" or "up": what kernel_main() has initialised
  tables,        \* the pages fs.c holds, fcb_table and file_desc_table
  state,         \* Process.state: "UNUSED", "INIT" or, for all later ones, "READY"
  stack,         \* Process.stack
  page_map,      \* Process.page_map
  panic          \* the function whose ASSERT failed, or "none"

memVars == <<heap, free_memory, word, booted, tables, state, stack, page_map, panic>>

-----------------------------------------------------------------------------
(* memory.c.  A memory m is the free list, the words, the result addr of   *)
(* the function last called and whether an ASSERT in it has failed.        *)

Memory == [free |-> free_memory, word |-> word, addr |-> NULL, failed |-> FALSE]

kfree(m, p) ==
  IF p \in DOMAIN m.word
  THEN [m EXCEPT !.word[p][0] = Link(m.free), !.free = p]
  ELSE [m EXCEPT !.failed = TRUE]

kalloc(m) ==
  IF m.free = NULL
  THEN [m EXCEPT !.addr = NULL]
  ELSE [m EXCEPT !.addr = m.free, !.free = m.word[m.free][0].page]

\* kalloc() and, when it had a page, memset(): the two are always together.
WrongAllocNotCleared(m) == kalloc(m)

AllocCleared(m) ==
  LET k == kalloc(m)
  IN  IF k.addr = NULL THEN k ELSE [k EXCEPT !.word[k.addr] = Blank]

\* find_pgd_entry(), and what find_pud_entry() does once it has the PUD: the
\* table that entry 0 of table t points to, made when there is none.
TableEntry(m, t, alloc) ==
  IF m.word[t][0].v
  THEN [m EXCEPT !.addr = m.word[t][0].page]
  ELSE IF ~ alloc
       THEN [m EXCEPT !.addr = NULL]
       ELSE LET k == AllocCleared(m)
            IN  IF k.addr = NULL THEN k ELSE [k EXCEPT !.word[t][0] = Entry(k.addr)]

find_pud_entry(m, map, alloc) ==
  LET pgd == TableEntry(m, map, alloc)
  IN  IF pgd.addr = NULL THEN pgd ELSE TableEntry(pgd, pgd.addr, alloc)

\* map_page(map, 0x400000, page): addr is NULL when it returns false.
map_page(m, map, page) ==
  LET pmd == find_pud_entry(m, map, TRUE)
  IN  IF pmd.addr = NULL
      THEN pmd
      ELSE IF pmd.word[pmd.addr][PMD].v
           THEN [pmd EXCEPT !.failed = TRUE]
           ELSE [pmd EXCEPT !.word[pmd.addr][PMD] = Entry(page)]

\* Free the page that entry i of table t points to, if any, and clear the entry.
FreeEntry(m, t, i) ==
  IF m.word[t][i].v
  THEN [kfree(m, m.word[t][i].page) EXCEPT !.word[t][i] = Zero]
  ELSE m

FreeEntries(m, t) == FreeEntry(FreeEntry(m, t, 0), t, PMD)

\* free_page(map, 0x400000)
free_page(m, map) ==
  LET pmd == find_pud_entry(m, map, FALSE)
  IN  IF pmd.addr = NULL THEN pmd ELSE FreeEntry(pmd, pmd.addr, PMD)

free_pmd(m, map) ==
  LET OfPud(n, i) == IF n.word[map][i].v THEN FreeEntries(n, n.word[map][i].page) ELSE n
  IN  OfPud(OfPud(m, 0), PMD)

free_pud(m, map) == FreeEntries(m, map)

WrongFreeVmOrder(m, map)    == kfree(free_pmd(free_pud(free_page(m, map), map), map), map)
WrongFreeVmKeepsPage(m, map) == kfree(free_pud(free_pmd(m, map), map), map)

free_vm(m, map) == kfree(free_pud(free_pmd(free_page(m, map), map), map), map)

\* The user page of a map, as copy_uvm() and the hardware find it.
UserPage(w, map) == w[w[w[map][0].page][0].page][PMD].page

\* The start of setup_uvm() and copy_uvm(): a cleared page at 0x400000.  When
\* map_page() fails, the page and the tables it did make are freed again.
NewUserPage(m, map) ==
  LET page   == AllocCleared(m)
      mapped == map_page(page, map, page.addr)
  IN  IF page.addr = NULL
      THEN page
      ELSE IF mapped.addr = NULL
           THEN [free_vm(kfree(mapped, page.addr), map) EXCEPT !.addr = NULL]
           ELSE [mapped EXCEPT !.addr = page.addr]

\* setup_uvm(): loaded says whether the file could be opened and read.
setup_uvm(m, map, loaded) ==
  LET n == NewUserPage(m, map)
  IN  IF n.addr # NULL /\ ~ loaded THEN [free_vm(n, map) EXCEPT !.addr = NULL] ELSE n

WrongCopySharesPage(m, map, from) ==
  LET n == NewUserPage(m, map)
  IN  IF n.addr = NULL
      THEN n
      ELSE [n EXCEPT !.word[n.word[n.word[map][0].page][0].page][PMD] =
                        Entry(UserPage(n.word, from))]

copy_uvm(m, map, from) ==
  LET n == NewUserPage(m, map)
  IN  IF n.addr = NULL THEN n ELSE [n EXCEPT !.word[n.addr] = n.word[UserPage(n.word, from)]]

-----------------------------------------------------------------------------
(* init_memory() frees the pages from the first to the last.               *)

WrongInitPageTooMany ==
  /\ heap \in Heaps
  /\ free_memory = heap + 1
  /\ word = [p \in Pages(heap + 1) |-> [Blank EXCEPT ![0] = Link(p - 1)]]
  /\ booted = "memory"
  /\ tables = <<>>
  /\ state = [p \in Proc |-> "UNUSED"]
  /\ stack = [p \in Proc |-> NULL]
  /\ page_map = [p \in Proc |-> NULL]
  /\ panic = "none"

Init ==
  /\ heap \in Heaps
  /\ free_memory = heap
  /\ word = [p \in Pages(heap) |-> [Blank EXCEPT ![0] = Link(p - 1)]]
  /\ booted = "memory"
  /\ tables = <<>>
  /\ state = [p \in Proc |-> "UNUSED"]
  /\ stack = [p \in Proc |-> NULL]
  /\ page_map = [p \in Proc |-> NULL]
  /\ panic = "none"

\* Leaves the memory as m, with the kernel running or, when bad, stopped.
Becomes(m, bad, where) ==
  /\ free_memory' = m.free
  /\ word' = m.word
  /\ panic' = IF m.failed THEN "memory" ELSE IF bad THEN where ELSE "none"

\* init_fs(): init_fcb(), then init_file_desc(), each a cleared page.
init_fs ==
  /\ panic = "none" /\ booted = "memory"
  /\ booted' = IF Len(tables) = 1 THEN "fs" ELSE "memory"
  /\ LET m == AllocCleared(Memory)
     IN  /\ Becomes(m, m.addr = NULL, "init_fs")
         /\ tables' = IF m.addr = NULL THEN tables ELSE Append(tables, m.addr)
  /\ UNCHANGED <<heap, state, stack, page_map>>

\* alloc_new_process() for slot p, then Uvm(m, map), setup_uvm() or copy_uvm().
NewProcess(p, Uvm(_, _), where) ==
  LET s == AllocCleared(Memory)
      g == AllocCleared(s)
      u == Uvm(g, g.addr)
  IN  /\ state[p] = "UNUSED"
      /\ stack' = [stack EXCEPT ![p] = s.addr]
      /\ IF s.addr = NULL
         THEN Becomes(s, TRUE, "alloc_new_process") /\ UNCHANGED <<state, page_map>>
         ELSE /\ page_map' = [page_map EXCEPT ![p] = g.addr]
              /\ IF g.addr = NULL
                 THEN /\ Becomes(g, TRUE, "alloc_new_process")
                      /\ state' = [state EXCEPT ![p] = "INIT"]
                 ELSE /\ Becomes(u, u.addr = NULL, where)
                      /\ state' = [state EXCEPT ![p] =
                                     IF u.addr = NULL THEN "INIT" ELSE "READY"]
      /\ UNCHANGED <<heap, tables>>

\* init_process(): INIT.BIN takes the first slot.
init_process(loaded) ==
  /\ panic = "none" /\ booted = "fs"
  /\ booted' = "up"
  /\ LET Uvm(m, map) == setup_uvm(m, map, loaded)
     IN  NewProcess(Min(Proc), Uvm, "init_user_process")

Running(p) == panic = "none" /\ booted = "up" /\ state[p] = "READY"

\* fork() by p into the first unused slot.
fork(p) ==
  /\ Running(p)
  /\ \E q \in Proc :
       /\ state[q] = "UNUSED" /\ \A r \in Proc : state[r] = "UNUSED" => q <= r
       /\ LET Uvm(m, map) == copy_uvm(m, map, page_map[p])
          IN  NewProcess(q, Uvm, "fork")
  /\ UNCHANGED booted

\* wait() by another process for q, which has exited: m is the memory after
\* its pages were freed.
WaitLeaves(q, m) ==
  /\ panic = "none" /\ booted = "up" /\ state[q] = "READY"
  /\ \E p \in Proc \ {q} : Running(p)
  /\ Becomes(m, FALSE, "none")
  /\ state' = [state EXCEPT ![q] = "UNUSED"]
  /\ stack' = [stack EXCEPT ![q] = NULL]
  /\ page_map' = [page_map EXCEPT ![q] = NULL]
  /\ UNCHANGED <<heap, booted, tables>>

WrongWaitKeepsStack(q)   == WaitLeaves(q, free_vm(Memory, page_map[q]))
WrongWaitClearedStack(q) == WaitLeaves(q, free_vm(kfree(Memory, NULL), page_map[q]))
WrongWaitFreesTwice(q)   ==
  WaitLeaves(q, kfree(free_vm(kfree(Memory, stack[q]), page_map[q]), page_map[q]))

wait(q) == WaitLeaves(q, free_vm(kfree(Memory, stack[q]), page_map[q]))

\* User code writes to its page, or exec() loads another file into it.
UserWrite(p, w) ==
  /\ Running(p)
  /\ word' = [word EXCEPT ![UserPage(word, page_map[p])] = [i \in Slots |-> w]]
  /\ UNCHANGED <<heap, free_memory, booted, tables, state, stack, page_map, panic>>

Hang == panic # "none" /\ UNCHANGED memVars

Next ==
  \/ init_fs
  \/ \E loaded \in BOOLEAN : init_process(loaded)
  \/ \E p \in Proc : fork(p) \/ wait(p) \/ \E w \in {Zero, Data} : UserWrite(p, w)
  \/ Hang

Spec == Init /\ [][Next]_memVars

-----------------------------------------------------------------------------
(* Properties.                                                             *)

TypeOK ==
  /\ heap \in Heaps
  /\ free_memory \in Pages(heap) \cup {NULL}
  /\ word \in [Pages(heap) -> [Slots -> Word(heap)]]
  /\ booted \in {"memory", "fs", "up"}
  /\ tables \in Seq(Pages(heap)) /\ Len(tables) <= 2
  /\ state \in [Proc -> {"UNUSED", "INIT", "READY"}]
  /\ stack \in [Proc -> Pages(heap) \cup {NULL}]
  /\ page_map \in [Proc -> Pages(heap) \cup {NULL}]
  /\ panic \in {"none", "memory", "init_fs", "alloc_new_process", "init_user_process", "fork"}

\* The pages on the free list, followed link by link; NULL is its end.
After(p) == IF p = NULL THEN NULL ELSE word[p][0].page

Followed[n \in Nat] ==
  IF n = 0 THEN {free_memory} ELSE UNION {{p, After(p)} : p \in Followed[n - 1]}

FreePages == Followed[heap] \ {NULL}

\* The pages of p: its stack and what its page map leads to.
Leads(t)    == {word[t][i].page : i \in {j \in Slots : word[t][j].v}}
MapPages(t) ==
  IF t = NULL THEN {} ELSE {t} \cup Leads(t) \cup UNION {Leads(u) : u \in Leads(t)}
Owned(p) ==
  LET inner == MapPages(page_map[p])
      user  == IF state[p] = "READY" THEN {UserPage(word, page_map[p])} ELSE {}
  IN  ({stack[p]} \cup inner \cup user) \ {NULL}

\* The free list ends: it does not lead back to a page that is on it.
FreeListEnds == NULL \in Followed[heap]

\* No page is handed out twice: the free list, the two tables of the file
\* system and the pages of each process are disjoint, and a process has its
\* five pages in five different places.
NoPageShared ==
  panic = "none" =>
    /\ \A p \in Proc : state[p] = "READY" =>
         /\ Cardinality(Owned(p)) = PerProcess
         /\ Owned(p) \cap (FreePages \cup Range(tables)) = {}
    /\ \A p, q \in Proc : p # q => Owned(p) \cap Owned(q) = {}
    /\ FreePages \cap Range(tables) = {}

\* No page is lost, whether the call that took it succeeds or stops half way.
NoPageLost ==
  Pages(heap) = FreePages \cup Range(tables) \cup UNION {Owned(p) : p \in Proc}

\* The assertions of kfree() and map_page() hold: what is freed is a page of
\* the heap, and 0x400000 is mapped once.
MemoryAsserts == panic # "memory"

\* With five pages for every slot and two for the file system no allocation
\* fails: the only way to stop is an INIT.BIN that cannot be loaded.
EnoughIsEnough ==
  heap >= 2 + PerProcess * Cardinality(Proc) => panic \in {"none", "init_user_process"}

\* A process reaches the same page at 0x400000 as long as it lives, and what
\* it finds there nobody else changes, whatever pages come and go meanwhile.
Contents(p) == word[UserPage(word, page_map[p])]
Lives(p)    == state[p] = "READY" /\ state'[p] = "READY"

UserPagesArePrivate ==
  [][ /\ \A p \in Proc : Lives(p) => UserPage(word', page_map'[p]) = UserPage(word, page_map[p])
      /\ \A p, q \in Proc :
           Lives(p) /\ Lives(q) /\ Contents(p)' # Contents(p)
             => UNCHANGED free_memory /\ (p # q => Contents(q)' = Contents(q)) ]_memVars

\* The allocator and the page tables together are the page pool.
Pool ==
  INSTANCE PagePool WITH
    free <- FreePages,
    owned <- [p \in Proc |-> IF state[p] = "READY" THEN Owned(p) ELSE {}],
    halted <- panic # "none"

IsPagePool == Pool!Spec
=============================================================================
