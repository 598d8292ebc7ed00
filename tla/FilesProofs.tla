---------------------------- MODULE FilesProofs ----------------------------
(***************************************************************************)
(* Proofs about Files, for every number of processes, descriptors and      *)
(* files, every size of a file and every bound on reads and counts.        *)
(***************************************************************************)
EXTENDS Files, ListOpsProofs

\* A FileDesc that a process holds has been counted and so, as close_file()
\* does not lower the count, is not cleared by it.
HeldIsCounted ==
  \A p \in Proc, fd \in Fd : file[p][fd] # NULL => desc[file[p][fd]].count > 0

\* Descriptors that lead to one FileDesc have one number: fork() keeps numbers.
SharesUnderOneNumber ==
  \A p, q \in Proc, fd, gd \in Fd :
    file[p][fd] # NULL /\ file[p][fd] = file[q][gd] => fd = gd

\* The inductive invariant.
FilesInv == TypeOK /\ NoDanglingDesc /\ HeldIsCounted /\ SharesUnderOneNumber

\* The entries of file_desc_table, and the values they have.
Entry == [fcb : File \cup {NULL}, position : Nat, count : Nat]

-----------------------------------------------------------------------------
(* What the tables are made of.                                            *)

\* A search that is not in vain finds what it looks for.
LEMMA FoundIsFree ==
  ASSUME TypeOK, NEW p \in Proc, CanOpen(p)
  PROVE  /\ Min(FreeDescs) \in Desc /\ desc[Min(FreeDescs)].fcb = NULL
         /\ Min(FreeFds(p)) \in Fd /\ file[p][Min(FreeFds(p))] = NULL
<1>1. FreeDescs \in SUBSET Nat /\ FreeFds(p) \in SUBSET Nat
  BY FilesAssumption DEF FreeDescs, FreeFds, Desc, Fd
<1>2. Min(FreeDescs) \in FreeDescs /\ Min(FreeFds(p)) \in FreeFds(p)
  BY <1>1, MinOfNats DEF CanOpen
<1> QED BY <1>2 DEF FreeDescs, FreeFds

\* What open_file() and a load of a program leave in an entry.
LEMMA EntryTypes ==
  ASSUME NEW f \in File
  PROVE  Opened(f) \in Entry /\ Loaded(f) \in Entry /\ Opened(f).fcb # NULL
<1>1. FileSize[f] \in Nat /\ NULL \notin File
  BY FilesAssumption
<1>2. Opened(f) \in Entry
  BY DEF Opened, Entry
<1>3. [Opened(f) EXCEPT !.position = FileSize[f]] \in Entry
  BY <1>1 DEF Opened, Entry
<1>4. Loaded(f) \in Entry
  BY <1>3 DEF Loaded, Released, Entry
<1> QED BY <1>1, <1>2, <1>4 DEF Opened

\* fork() counts a number of descriptors.
LEMMA UsesAreNat ==
  ASSUME NEW p \in Proc, NEW d, NEW f
  PROVE  Uses(p, d) \in Nat /\ UsesOfFile(p, f) \in Nat
<1>1. IsFiniteSet(Fd)
  BY FS_Interval, FilesAssumption DEF Fd
<1>2. \A T \in SUBSET Fd : Cardinality(T) \in Nat
  BY <1>1, FS_Subset, FS_CardinalityType
<1> QED BY <1>2 DEF Uses, UsesOfFile

-----------------------------------------------------------------------------
(* One lemma for each operation on the tables.                             *)

LEMMA OpenInv ==
  ASSUME FilesInv, NEW p \in Proc, NEW f \in File,
         life[p] = "live", Open(p, f), UNCHANGED life
  PROVE  FilesInv'
<1> DEFINE d  == Min(FreeDescs)
           fd == Min(FreeFds(p))
<1>1. d \in Desc /\ desc[d].fcb = NULL /\ fd \in Fd /\ file[p][fd] = NULL
  BY FoundIsFree DEF Open, FilesInv
<1>2. /\ desc' = [desc EXCEPT ![d] = Opened(f)]
      /\ file' = [file EXCEPT ![p][fd] = d]
      /\ fcb_count' = [fcb_count EXCEPT ![f] = @ + 1]
      /\ UNCHANGED panic
  BY DEF Open
<1> HIDE DEF d, fd
<1>3. NULL \notin Desc /\ Opened(f) \in Entry /\ Opened(f).fcb # NULL /\ Opened(f).count = 1
  BY FilesAssumption, EntryTypes DEF Desc, Opened
<1>4. \A q \in Proc, gd \in Fd : file[q][gd] # d
  BY <1>1, <1>3 DEF FilesInv, NoDanglingDesc
<1>5. TypeOK'
  BY <1>1, <1>2, <1>3 DEF FilesInv, TypeOK, Entry
<1>6. \A q \in Proc, gd \in Fd :
        file'[q][gd] = IF q = p /\ gd = fd THEN d ELSE file[q][gd]
  BY <1>1, <1>2 DEF FilesInv, TypeOK
<1>7. \A e \in Desc : desc'[e] = IF e = d THEN Opened(f) ELSE desc[e]
  BY <1>1, <1>2 DEF FilesInv, TypeOK
<1>8. \A q \in Proc, gd \in Fd : file[q][gd] # NULL => file[q][gd] \in Desc
  BY DEF FilesInv, TypeOK
<1>9. NoDanglingDesc'
  BY <1>1, <1>3, <1>6, <1>7, <1>8 DEF FilesInv, NoDanglingDesc
<1>10. HeldIsCounted'
  BY <1>1, <1>3, <1>6, <1>7, <1>8 DEF FilesInv, HeldIsCounted
<1>11. SharesUnderOneNumber'
  BY <1>1, <1>3, <1>4, <1>6 DEF FilesInv, SharesUnderOneNumber
<1> QED BY <1>5, <1>9, <1>10, <1>11 DEF FilesInv

\* Where only the entry of d changes, and a held one keeps its file and stays
\* counted, the descriptors that are left are as good as before.
LEMMA EntryInv ==
  ASSUME FilesInv, NEW d \in Desc, NEW e \in Entry,
         desc' = [desc EXCEPT ![d] = e],
         (\E p \in Proc, fd \in Fd : file[p][fd] = d) => e.fcb = desc[d].fcb /\ e.count > 0,
         file' \in [Proc -> [Fd -> Desc \cup {NULL}]],
         \A p \in Proc, fd \in Fd : file'[p][fd] \in {NULL, file[p][fd]},
         fcb_count' \in [File -> Nat],
         panic' \in {"none", "put_fcb", "read_raw_data"},
         UNCHANGED life
  PROVE  FilesInv'
<1>1. desc' \in [Desc -> Entry] /\ \A c \in Desc : desc'[c] = IF c = d THEN e ELSE desc[c]
  BY DEF FilesInv, TypeOK, Entry
<1>2. TypeOK'
  BY <1>1 DEF FilesInv, TypeOK, Entry
<1>3. \A p \in Proc, fd \in Fd :
        file'[p][fd] # NULL => file'[p][fd] = file[p][fd] /\ file[p][fd] \in Desc
  BY DEF FilesInv, TypeOK
<1>4. NoDanglingDesc'
  BY <1>1, <1>3 DEF FilesInv, NoDanglingDesc
<1>5. HeldIsCounted'
  BY <1>1, <1>3 DEF FilesInv, HeldIsCounted
<1>6. SharesUnderOneNumber'
  BY <1>3 DEF FilesInv, SharesUnderOneNumber
<1> QED BY <1>2, <1>4, <1>5, <1>6 DEF FilesInv

\* An entry somebody holds is counted, so close_file() leaves it in use.
LEMMA CloseKeepsEntries ==
  ASSUME FilesInv, NEW p \in Proc, NEW fd \in Fd, Close(p, fd)
  PROVE  /\ file[p][fd] \in Desc
         /\ desc[file[p][fd]] \in Entry /\ desc[file[p][fd]].count > 0
         /\ desc' = desc
<1> DEFINE d == file[p][fd]
<1>1. d \in Desc /\ desc[d] \in Entry /\ desc[d].count > 0
  BY DEF Close, FilesInv, TypeOK, HeldIsCounted, Entry
<1>2. Released(desc[d]) = desc[d]
  BY <1>1 DEF Released
<1>3. desc' = desc
  BY <1>1, <1>2 DEF Close, FilesInv, TypeOK
<1> QED BY <1>1, <1>3

LEMMA CloseInv ==
  ASSUME FilesInv, NEW p \in Proc, NEW fd \in Fd, Close(p, fd), UNCHANGED life
  PROVE  FilesInv'
<1> DEFINE d == file[p][fd]
           f == desc[d].fcb
<1>1. d \in Desc /\ desc[d] \in Entry /\ desc[d].count > 0 /\ desc' = desc
  BY CloseKeepsEntries
<1>2. desc' = [desc EXCEPT ![d] = desc[d]]
  BY <1>1 DEF FilesInv, TypeOK
<1>3. file' = file \/ file' = [file EXCEPT ![p][fd] = NULL]
  BY DEF Close
<1>4. /\ file' \in [Proc -> [Fd -> Desc \cup {NULL}]]
      /\ \A q \in Proc, gd \in Fd : file'[q][gd] \in {NULL, file[q][gd]}
  <2>1. file \in [Proc -> [Fd -> Desc \cup {NULL}]]
    BY DEF FilesInv, TypeOK
  <2>2. CASE file' = file
    BY <2>1, <2>2
  <2>3. CASE file' = [file EXCEPT ![p][fd] = NULL]
    <3>1. file' \in [Proc -> [Fd -> Desc \cup {NULL}]]
      BY <2>1, <2>3
    <3>2. \A q \in Proc, gd \in Fd :
            file'[q][gd] = IF q = p /\ gd = fd THEN NULL ELSE file[q][gd]
      BY <2>1, <2>3
    <3> QED BY <3>1, <3>2
  <2> HIDE DEF d, f
  <2> QED BY <1>3, <2>2, <2>3
<1>5. fcb_count' \in [File -> Nat]
  <2>1. CASE fcb_count[f] > 0
    <3>1. f \in File
      BY <1>1 DEF FilesInv, NoDanglingDesc, Close, Entry
    <3> QED BY <2>1, <3>1 DEF Close, FilesInv, TypeOK
  <2>2. CASE ~ (fcb_count[f] > 0)
    BY <2>2 DEF Close, FilesInv, TypeOK
  <2> QED BY <2>1, <2>2
<1>6. panic' \in {"none", "put_fcb", "read_raw_data"}
  BY DEF Close, FilesInv, TypeOK
<1>7. desc[d].fcb = desc[d].fcb /\ desc[d].count > 0
  BY <1>1
<1> HIDE DEF d, f
<1> QED BY <1>1, <1>2, <1>4, <1>5, <1>6, <1>7, EntryInv

LEMMA ReadInv ==
  ASSUME FilesInv, NEW p \in Proc, NEW fd \in Fd, NEW n \in 0 .. MaxRead,
         Read(p, fd, n), UNCHANGED life
  PROVE  FilesInv'
<1> DEFINE d == file[p][fd]
           e == [desc[d] EXCEPT !.position = @ + n]
<1>1. d \in Desc /\ desc[d] \in Entry /\ desc[d].count > 0
  BY DEF Read, FilesInv, TypeOK, HeldIsCounted, Entry
<1>2. n \in Nat
  BY FilesAssumption
<1>3. e \in Entry /\ e.fcb = desc[d].fcb /\ e.count = desc[d].count
  BY <1>1, <1>2 DEF Entry
<1>4. desc' = [desc EXCEPT ![d] = e] \/ desc' = [desc EXCEPT ![d] = desc[d]]
  BY <1>1 DEF Read, FilesInv, TypeOK
<1>5. UNCHANGED <<file, fcb_count>> /\ panic' \in {"none", "put_fcb", "read_raw_data"}
  BY DEF Read, FilesInv, TypeOK
<1>6. /\ file' \in [Proc -> [Fd -> Desc \cup {NULL}]] /\ fcb_count' \in [File -> Nat]
      /\ \A q \in Proc, gd \in Fd : file'[q][gd] \in {NULL, file[q][gd]}
  BY <1>5 DEF FilesInv, TypeOK
<1>7. \E x \in Entry : desc' = [desc EXCEPT ![d] = x] /\ x.fcb = desc[d].fcb /\ x.count > 0
  BY <1>1, <1>3, <1>4
<1> HIDE DEF d, e
<1> QED BY <1>1, <1>5, <1>6, <1>7, EntryInv

\* A load uses an entry nobody holds, or, at boot, when nobody holds any.
LEMMA LoadInv ==
  ASSUME FilesInv, NEW f \in File, Load(f), life' \in [Proc -> {"free", "live", "killed"}],
         \A q \in Proc : life'[q] = "free" => life[q] = "free",
         \/ \E p \in Proc : CanOpen(p)
         \/ \A q \in Proc : life[q] = "free"
  PROVE  FilesInv'
<1> DEFINE d == Min(FreeDescs)
<1>1. desc' = [desc EXCEPT ![d] = Loaded(f)] /\ UNCHANGED <<file, fcb_count, panic>>
  BY DEF Load
<1>2. \A q \in Proc, gd \in Fd : file[q][gd] # d \/ file[q][gd] = NULL
  BY FoundIsFree DEF FilesInv, NoDanglingDesc
<1>3. Loaded(f) \in Entry
  BY EntryTypes
<1> HIDE DEF d
<1>4. desc' \in [Desc -> Entry] /\ \A c \in Desc : c # d => desc'[c] = desc[c]
  BY <1>1, <1>3 DEF FilesInv, TypeOK, Entry
<1>5. TypeOK'
  BY <1>1, <1>4 DEF FilesInv, TypeOK, Entry
<1>6. \A q \in Proc, gd \in Fd :
        file[q][gd] # NULL => file[q][gd] \in Desc /\ desc'[file[q][gd]] = desc[file[q][gd]]
  BY <1>2, <1>4 DEF FilesInv, TypeOK
<1>7. NoDanglingDesc'
  BY <1>1, <1>6 DEF FilesInv, NoDanglingDesc
<1>8. HeldIsCounted'
  BY <1>1, <1>6 DEF FilesInv, HeldIsCounted
<1>9. SharesUnderOneNumber'
  BY <1>1 DEF FilesInv, SharesUnderOneNumber
<1> QED BY <1>5, <1>7, <1>8, <1>9 DEF FilesInv

\* The child's descriptors are its parent's.
LEMMA CopyInv ==
  ASSUME FilesInv, NEW p \in Proc, NEW q \in Proc, CopyFiles(p, q),
         life[p] = "live", life' = [life EXCEPT ![q] = "live"]
  PROVE  FilesInv'
<1>1. /\ file' = [file EXCEPT ![q] = file[p]]
      /\ desc' = [d \in Desc |-> [desc[d] EXCEPT !.count = @ + Uses(p, d)]]
      /\ fcb_count' = [f \in File |-> fcb_count[f] + UsesOfFile(p, f)]
      /\ UNCHANGED panic
  BY DEF CopyFiles
<1>2. \A d \in Desc :
        desc'[d] \in Entry /\ desc'[d].fcb = desc[d].fcb /\ desc'[d].count >= desc[d].count
  <2> TAKE d \in Desc
  <2>1. desc[d] \in Entry /\ Uses(p, d) \in Nat
    BY UsesAreNat DEF FilesInv, TypeOK, Entry
  <2>2. desc'[d] = [desc[d] EXCEPT !.count = @ + Uses(p, d)]
    BY <1>1
  <2> QED BY <2>1, <2>2 DEF Entry
<1>3. fcb_count' \in [File -> Nat]
  BY <1>1, UsesAreNat DEF FilesInv, TypeOK
<1>4. TypeOK'
  BY <1>1, <1>2, <1>3 DEF FilesInv, TypeOK, Entry
<1>5. \A r \in Proc, fd \in Fd :
        file'[r][fd] = IF r = q THEN file[p][fd] ELSE file[r][fd]
  BY <1>1 DEF FilesInv, TypeOK
<1>6. \A r \in Proc, fd \in Fd :
        /\ file[r][fd] # NULL => file[r][fd] \in Desc
        /\ file[r][fd] \in Desc => desc[file[r][fd]] \in Entry /\ desc'[file[r][fd]] \in Entry
  BY <1>2 DEF FilesInv, TypeOK, Entry
<1>7. NoDanglingDesc'
  BY <1>2, <1>5, <1>6 DEF FilesInv, TypeOK, NoDanglingDesc
<1>8. HeldIsCounted'
  BY <1>2, <1>5, <1>6 DEF FilesInv, HeldIsCounted, Entry
<1>9. SharesUnderOneNumber'
  BY <1>5 DEF FilesInv, SharesUnderOneNumber
<1> QED BY <1>4, <1>7, <1>8, <1>9 DEF FilesInv

LEMMA ClearInv ==
  ASSUME FilesInv, NEW q \in Proc, ClearFiles(q), life' = [life EXCEPT ![q] = "free"]
  PROVE  FilesInv'
<1>1. file' = [file EXCEPT ![q] = NoFiles] /\ UNCHANGED <<desc, fcb_count, panic>>
  BY DEF ClearFiles
<1>2. \A r \in Proc, fd \in Fd : file'[r][fd] = IF r = q THEN NULL ELSE file[r][fd]
  BY <1>1 DEF FilesInv, TypeOK, NoFiles
<1>3. TypeOK'
  BY <1>1 DEF FilesInv, TypeOK, NoFiles
<1>4. NoDanglingDesc'
  BY <1>1, <1>2 DEF FilesInv, TypeOK, NoDanglingDesc
<1>5. HeldIsCounted'
  BY <1>1, <1>2 DEF FilesInv, HeldIsCounted
<1>6. SharesUnderOneNumber'
  BY <1>2 DEF FilesInv, SharesUnderOneNumber
<1> QED BY <1>3, <1>4, <1>5, <1>6 DEF FilesInv

-----------------------------------------------------------------------------
(* All steps.                                                              *)

LEMMA InitInv == Init => FilesInv
<1> SUFFICES ASSUME Init PROVE FilesInv
  OBVIOUS
<1>1. TypeOK
  BY FilesAssumption DEF Init, TypeOK, NoFiles, FreeDesc
<1>2. \A p \in Proc, fd \in Fd : file[p][fd] = NULL
  BY DEF Init, NoFiles
<1> QED BY <1>1, <1>2 DEF FilesInv, NoDanglingDesc, HeldIsCounted, SharesUnderOneNumber

\* A process that exits keeps its descriptors until wait() clears them.
LEMMA ExitInv ==
  ASSUME FilesInv, NEW p \in Proc, exit(p)
  PROVE  FilesInv'
<1>1. life' = [life EXCEPT ![p] = "killed"] /\ UNCHANGED <<file, desc, fcb_count, panic>>
  BY DEF exit
<1>2. TypeOK'
  BY <1>1 DEF FilesInv, TypeOK
<1>3. NoDanglingDesc'
  BY <1>1 DEF FilesInv, TypeOK, NoDanglingDesc
<1> QED BY <1>1, <1>2, <1>3 DEF FilesInv, HeldIsCounted, SharesUnderOneNumber

LEMMA NextInv ==
  ASSUME FilesInv, [Next]_fileVars
  PROVE  FilesInv'
<1>1. ASSUME NEW p \in Proc, NEW f \in File, init_process(p, f)
      PROVE  FilesInv'
  <2>1. life' = [life EXCEPT ![p] = "live"] /\ \A q \in Proc : life[q] = "free"
    BY <1>1 DEF init_process
  <2>2. life' \in [Proc -> {"free", "live", "killed"}]
    BY <2>1 DEF FilesInv, TypeOK
  <2> QED BY <1>1, <2>1, <2>2, LoadInv DEF init_process
<1>2. ASSUME NEW p \in Proc, NEW f \in File, open_file(p, f)
      PROVE  FilesInv'
  BY <1>2, OpenInv DEF open_file, Running
<1>3. ASSUME NEW p \in Proc, NEW f \in File, exec(p, f)
      PROVE  FilesInv'
  <2>1. CASE CanOpen(p)
    <3>1. UNCHANGED life /\ Load(f)
      BY <1>3, <2>1 DEF exec
    <3>2. life' \in [Proc -> {"free", "live", "killed"}]
      BY <3>1 DEF FilesInv, TypeOK
    <3> QED BY <2>1, <3>1, <3>2, LoadInv
  <2>2. CASE ~ CanOpen(p)
    BY <1>3, <2>2, ExitInv DEF exec
  <2> QED BY <2>1, <2>2
<1>4. ASSUME NEW p \in Proc, NEW fd \in Fd, close_file(p, fd)
      PROVE  FilesInv'
  BY <1>4, CloseInv DEF close_file
<1>5. ASSUME NEW p \in Proc, NEW fd \in Fd, NEW n \in 0 .. MaxRead, read_file(p, fd, n)
      PROVE  FilesInv'
  BY <1>5, ReadInv DEF read_file
<1>6. ASSUME NEW p \in Proc, NEW q \in Proc, fork(p, q)
      PROVE  FilesInv'
  BY <1>6, CopyInv DEF fork, Running
<1>7. ASSUME NEW p \in Proc, exit(p)
      PROVE  FilesInv'
  BY <1>7, ExitInv
<1>8. ASSUME NEW p \in Proc, wait(p)
      PROVE  FilesInv'
  BY <1>8, ClearInv DEF wait
<1>9. CASE UNCHANGED fileVars
  BY <1>9 DEF fileVars, FilesInv, TypeOK, NoDanglingDesc, HeldIsCounted, SharesUnderOneNumber
<1> QED BY <1>1, <1>2, <1>3, <1>4, <1>5, <1>6, <1>7, <1>8, <1>9 DEF Next, Stopped

LEMMA FilesInvariant == Spec => []FilesInv
BY InitInv, NextInv, PTL DEF Spec

-----------------------------------------------------------------------------
(* The theorems.                                                           *)

\* No descriptor dangles: while a process holds one, other processes may
\* close theirs, exit or have their slots used again, and it still leads to
\* an entry of file_desc_table that is in use.
THEOREM DescriptorsLeadToFiles == Spec => []NoDanglingDesc
BY FilesInvariant, PTL DEF FilesInv

-----------------------------------------------------------------------------
(* What a step may do to a descriptor that a process holds.                *)

\* A descriptor that was held before and after a step.
Kept(p, fd) == file[p][fd] # NULL /\ file'[p][fd] = file[p][fd]

\* Its entry has the same file, at the same position or further on.
Stable(d) == desc'[d].fcb = desc[d].fcb /\ desc'[d].position >= desc[d].position

LEMMA SameEntryIsStable ==
  ASSUME FilesInv, NEW d \in Desc, desc'[d] = desc[d]
  PROVE  Stable(d)
BY DEF FilesInv, TypeOK, Stable

\* Only open_file() and loading a program change an entry's file, and both
\* take an entry that nobody holds.
LEMMA OtherEntryIsStable ==
  ASSUME FilesInv, NEW p \in Proc, NEW fd \in Fd, file[p][fd] # NULL,
         NEW e, desc' = [desc EXCEPT ![Min(FreeDescs)] = e],
         \E q \in Proc : CanOpen(q)
  PROVE  Stable(file[p][fd])
<1>1. file[p][fd] \in Desc /\ desc[file[p][fd]].fcb # NULL
  BY DEF FilesInv, TypeOK, NoDanglingDesc
<1>2. desc[Min(FreeDescs)].fcb = NULL
  BY FoundIsFree DEF FilesInv
<1>3. desc'[file[p][fd]] = desc[file[p][fd]]
  BY <1>1, <1>2 DEF FilesInv, TypeOK
<1> QED BY <1>1, <1>3, SameEntryIsStable

LEMMA StepHeldStable ==
  ASSUME FilesInv, [Next]_fileVars, NEW p \in Proc, NEW fd \in Fd, Kept(p, fd)
  PROVE  Stable(file[p][fd])
<1> DEFINE d == file[p][fd]
<1>1. d \in Desc /\ d # NULL /\ life[p] # "free"
  BY DEF Kept, FilesInv, TypeOK, NoDanglingDesc
<1>2. desc[d] \in Entry
  BY <1>1 DEF FilesInv, TypeOK, Entry
<1>3. ASSUME NEW q \in Proc, NEW f \in File, init_process(q, f)
      PROVE  Stable(d)
  BY <1>1, <1>3 DEF init_process
<1>4. ASSUME NEW q \in Proc, NEW f \in File, open_file(q, f)
      PROVE  Stable(d)
  BY <1>1, <1>4, OtherEntryIsStable DEF open_file, Open
<1>5. ASSUME NEW q \in Proc, NEW f \in File, exec(q, f)
      PROVE  Stable(d)
  <2>1. CASE CanOpen(q)
    BY <1>1, <1>5, <2>1, OtherEntryIsStable DEF exec, Load
  <2>2. CASE ~ CanOpen(q)
    BY <1>1, <1>5, <2>2, SameEntryIsStable DEF exec, exit
  <2> QED BY <2>1, <2>2
<1>6. ASSUME NEW q \in Proc, NEW gd \in Fd, close_file(q, gd)
      PROVE  Stable(d)
  BY <1>1, <1>6, CloseKeepsEntries, SameEntryIsStable DEF close_file
<1>7. ASSUME NEW q \in Proc, NEW gd \in Fd, NEW n \in 0 .. MaxRead, read_file(q, gd, n)
      PROVE  Stable(d)
  <2> DEFINE c == file[q][gd]
             e == [desc[c] EXCEPT !.position = @ + n]
  <2>1. n \in Nat /\ c \in Desc
    BY <1>7, FilesAssumption DEF read_file, Read, FilesInv, TypeOK
  <2>2. desc' = desc \/ desc' = [desc EXCEPT ![c] = e]
    BY <1>7 DEF read_file, Read
  <2>3. desc'[d] = desc[d] \/ (d = c /\ desc'[d] = e)
    <3> HIDE DEF c, d, e
    <3> QED BY <1>1, <2>1, <2>2 DEF FilesInv, TypeOK
  <2>4. d = c => e.fcb = desc[d].fcb /\ e.position = desc[d].position + n
    BY <1>2 DEF Entry
  <2>5. desc[d].position + n >= desc[d].position
    BY <1>2, <2>1 DEF Entry
  <2> HIDE DEF c, d, e
  <2> QED BY <1>1, <2>3, <2>4, <2>5, SameEntryIsStable DEF Stable
<1>8. ASSUME NEW q \in Proc, NEW r \in Proc, fork(q, r)
      PROVE  Stable(d)
  <2>1. desc'[d] = [desc[d] EXCEPT !.count = @ + Uses(q, d)]
    BY <1>1, <1>8 DEF fork, CopyFiles
  <2>2. desc'[d].fcb = desc[d].fcb /\ desc'[d].position = desc[d].position
    BY <1>2, <2>1 DEF Entry
  <2> QED BY <1>2, <2>2 DEF Stable, Entry
<1>9. ASSUME NEW q \in Proc, exit(q)
      PROVE  Stable(d)
  BY <1>1, <1>9, SameEntryIsStable DEF exit
<1>10. ASSUME NEW q \in Proc, wait(q)
      PROVE  Stable(d)
  BY <1>1, <1>10, SameEntryIsStable DEF wait, ClearFiles
<1>11. CASE UNCHANGED fileVars
  BY <1>1, <1>11, SameEntryIsStable DEF fileVars
<1> QED BY <1>3, <1>4, <1>5, <1>6, <1>7, <1>8, <1>9, <1>10, <1>11 DEF Next, Stopped

\* The file behind a descriptor that a process holds does not change and its
\* position does not go back, whatever other processes open, close, load,
\* leave open at their exit, or do in slots that are used again.
THEOREM HeldDescriptorsAreStable == Spec => HeldDescIsStable
<1>1. FilesInv /\ [Next]_fileVars
        => [ \A p \in Proc, fd \in Fd :
               LET d == file[p][fd]
               IN  d # NULL /\ file'[p][fd] = d
                     => desc'[d].fcb = desc[d].fcb
                        /\ desc'[d].position >= desc[d].position ]_fileVars
  BY StepHeldStable DEF Kept, Stable
<1> QED BY <1>1, FilesInvariant, PTL DEF Spec, HeldDescIsStable

-----------------------------------------------------------------------------
(* How descriptors come to share a position.                               *)

\* Only a FileDesc that nobody held can be new to a descriptor unshared.
LEMMA NoNewShare ==
  ASSUME NEW p \in Proc, NEW q \in Proc, NEW fd \in Fd, NEW gd \in Fd,
         Share(p, fd, q, gd)',
         \A r \in Proc, hd \in Fd : file'[r][hd] \in {NULL, file[r][hd]}
  PROVE  Share(p, fd, q, gd)
BY DEF Share

\* A child shares what its parent holds, with whom the parent shares it.
LEMMA ForkShares ==
  ASSUME FilesInv, NEW parent \in Proc, NEW child \in Proc, fork(parent, child),
         NEW p \in Proc, NEW q \in Proc, NEW fd \in Fd, NEW gd \in Fd,
         Share(p, fd, q, gd)', ~ Share(p, fd, q, gd)
  PROVE  /\ fd = gd /\ p # q
         /\ child \in {p, q} /\ Inherits(child, parent)
         /\ \A other \in {p, q} \ {child} : file[other][fd] = file[parent][fd]
<1>1. /\ life[parent] = "live" /\ life[child] = "free" /\ life' = [life EXCEPT ![child] = "live"]
      /\ file' = [file EXCEPT ![child] = file[parent]]
  BY DEF fork, Running, CopyFiles
<1>2. /\ \A r \in Proc : file'[r] = IF r = child THEN file[parent] ELSE file[r]
      /\ life'[child] = "live"
  BY <1>1 DEF FilesInv, TypeOK
<1>3. Inherits(child, parent)
  BY <1>1, <1>2 DEF Inherits
<1>4. <<p, fd>> # <<q, gd>> /\ file'[p][fd] # NULL /\ file'[p][fd] = file'[q][gd]
  BY DEF Share
<1>5. fd = gd
  BY <1>2, <1>4 DEF FilesInv, SharesUnderOneNumber
<1>6. p # q
  BY <1>4, <1>5
<1>7. child \in {p, q}
  BY <1>2, <1>4 DEF Share
<1>8. \A other \in {p, q} \ {child} : file[other][fd] = file[parent][fd]
  BY <1>2, <1>4, <1>5, <1>7
<1> QED BY <1>3, <1>5, <1>6, <1>7, <1>8

LEMMA StepShares ==
  ASSUME FilesInv, [Next]_fileVars,
         NEW p \in Proc, NEW q \in Proc, NEW fd \in Fd, NEW gd \in Fd,
         Share(p, fd, q, gd)', ~ Share(p, fd, q, gd)
  PROVE  /\ fd = gd /\ p # q
         /\ \E child \in {p, q}, parent \in Proc :
              /\ Inherits(child, parent)
              /\ \A other \in {p, q} \ {child} : file[other][fd] = file[parent][fd]
<1>1. ASSUME NEW r \in Proc, NEW f \in File, open_file(r, f)
      PROVE  FALSE
  <2> DEFINE d  == Min(FreeDescs)
             hd == Min(FreeFds(r))
  <2>1. d \in Desc /\ desc[d].fcb = NULL /\ hd \in Fd
    BY <1>1, FoundIsFree DEF open_file, Open, FilesInv
  <2>2. file' = [file EXCEPT ![r][hd] = d]
    BY <1>1 DEF open_file, Open
  <2> HIDE DEF d, hd
  <2>3. \A x \in Proc, xd \in Fd : file[x][xd] # d
    BY <2>1, FilesAssumption DEF FilesInv, NoDanglingDesc, Desc
  <2>4. \A x \in Proc, xd \in Fd :
          file'[x][xd] = IF x = r /\ xd = hd THEN d ELSE file[x][xd]
    BY <2>1, <2>2 DEF FilesInv, TypeOK
  <2> QED BY <2>3, <2>4 DEF Share
<1>2. ASSUME NEW r \in Proc, NEW hd \in Fd, close_file(r, hd)
      PROVE  FALSE
  <2>1. file' = file \/ file' = [file EXCEPT ![r][hd] = NULL]
    BY <1>2 DEF close_file, Close
  <2>2. \A x \in Proc, xd \in Fd : file'[x][xd] \in {NULL, file[x][xd]}
    BY <2>1 DEF FilesInv, TypeOK
  <2> QED BY <2>2, NoNewShare
<1>3. ASSUME NEW r \in Proc, wait(r)
      PROVE  FALSE
  <2>1. file' = [file EXCEPT ![r] = NoFiles]
    BY <1>3 DEF wait, ClearFiles
  <2>2. \A x \in Proc, xd \in Fd : file'[x][xd] \in {NULL, file[x][xd]}
    BY <2>1 DEF FilesInv, TypeOK, NoFiles
  <2> QED BY <2>2, NoNewShare
<1>4. ASSUME UNCHANGED file
      PROVE  FALSE
  BY <1>4 DEF Share
<1>5. \/ UNCHANGED file
      \/ \E r \in Proc, f \in File : open_file(r, f)
      \/ \E r \in Proc, hd \in Fd : close_file(r, hd)
      \/ \E r, s \in Proc : fork(r, s)
      \/ \E r \in Proc : wait(r)
  BY DEF Next, init_process, exec, exit, read_file, Read, Load, Stopped, fileVars
<1>6. \E parent, child \in Proc : fork(parent, child)
  <2>1. ~ UNCHANGED file
    BY <1>4
  <2>2. ~ \E r \in Proc, f \in File : open_file(r, f)
    BY <1>1
  <2>3. ~ \E r \in Proc, hd \in Fd : close_file(r, hd)
    BY <1>2
  <2>4. ~ \E r \in Proc : wait(r)
    BY <1>3
  <2> QED BY <1>5, <2>1, <2>2, <2>3, <2>4
<1>7. PICK parent \in Proc, child \in Proc : fork(parent, child)
  BY <1>6
<1> QED BY <1>7, ForkShares

\* Two files opened apart never share a position, whatever close_file() gives
\* up and open_file() takes: sharing begins with fork() of a process, between
\* the child and those that had the parent's entry, under the number it had.
THEOREM PositionsSharedByFork == Spec => SharesOnlyByFork
<1>1. FilesInv /\ [Next]_fileVars
        => [ \A p, q \in Proc, fd, gd \in Fd :
               Share(p, fd, q, gd)' /\ ~ Share(p, fd, q, gd)
                 => /\ fd = gd /\ p # q
                    /\ \E child \in {p, q}, parent \in Proc :
                         /\ Inherits(child, parent)
                         /\ \A other \in {p, q} \ {child} :
                              file[other][fd] = file[parent][fd] ]_fileVars
  BY StepShares
<1> QED BY <1>1, FilesInvariant, PTL DEF Spec, SharesOnlyByFork

-----------------------------------------------------------------------------
(* What open_file() gives out.                                             *)

LEMMA StepOpensFresh ==
  ASSUME FilesInv, [Next]_fileVars, NEW p \in Proc, NEW fd \in Fd,
         life[p] = "live", file[p][fd] = NULL, file'[p][fd] # NULL
  PROVE  Holders(file'[p][fd]) = {} /\ desc'[file'[p][fd]].position = 0
<1>1. PICK f \in File : Open(p, f)
  <2>1. ASSUME NEW q \in Proc, NEW f \in File, open_file(q, f)
        PROVE  q = p
    <3>1. file' = [file EXCEPT ![q][Min(FreeFds(q))] = Min(FreeDescs)]
      BY <2>1 DEF open_file, Open
    <3> QED BY <3>1 DEF FilesInv, TypeOK
  <2>2. ASSUME NEW q \in Proc, NEW r \in Proc, fork(q, r)
        PROVE  FALSE
    <3>1. r # p /\ file' = [file EXCEPT ![r] = file[q]]
      BY <2>2 DEF fork, CopyFiles
    <3> QED BY <3>1 DEF FilesInv, TypeOK
  <2>3. ASSUME NEW q \in Proc, NEW gd \in Fd, close_file(q, gd)
        PROVE  FALSE
    <3>1. file' = file \/ file' = [file EXCEPT ![q][gd] = NULL]
      BY <2>3 DEF close_file, Close
    <3> QED BY <3>1 DEF FilesInv, TypeOK
  <2>4. ASSUME NEW q \in Proc, wait(q)
        PROVE  FALSE
    <3>1. file' = [file EXCEPT ![q] = NoFiles]
      BY <2>4 DEF wait, ClearFiles
    <3> QED BY <3>1 DEF FilesInv, TypeOK, NoFiles
  <2>5. ASSUME NEW q \in Proc, NEW f \in File, init_process(q, f) \/ exec(q, f)
        PROVE  FALSE
    BY <2>5 DEF init_process, exec, exit, Load
  <2>6. ASSUME NEW q \in Proc, NEW gd \in Fd, NEW n \in 0 .. MaxRead, read_file(q, gd, n)
        PROVE  FALSE
    BY <2>6 DEF read_file, Read
  <2>7. ASSUME NEW q \in Proc, exit(q)
        PROVE  FALSE
    BY <2>7 DEF exit
  <2>8. \E q \in Proc, f \in File : open_file(q, f)
    BY <2>2, <2>3, <2>4, <2>5, <2>6, <2>7 DEF Next, Stopped, fileVars
  <2> QED BY <2>1, <2>8 DEF open_file
<1> DEFINE d == Min(FreeDescs)
<1>2. d \in Desc /\ desc[d].fcb = NULL
  BY <1>1, FoundIsFree DEF Open, FilesInv
<1>3. \A q \in Proc, gd \in Fd : file[q][gd] # d
  BY <1>2, FilesAssumption DEF FilesInv, NoDanglingDesc, Desc
<1>4. desc' = [desc EXCEPT ![d] = Opened(f)] /\ file' = [file EXCEPT ![p][Min(FreeFds(p))] = d]
  BY <1>1 DEF Open
<1> HIDE DEF d
<1>5. file'[p][fd] = d
  BY <1>4 DEF FilesInv, TypeOK
<1>6. desc'[d] = Opened(f)
  BY <1>2, <1>4 DEF FilesInv, TypeOK
<1> QED BY <1>3, <1>5, <1>6 DEF Holders, Opened

\* open_file() gives out an entry that nobody else holds, at the start of the
\* file, whoever used the entry before.
THEOREM OpenedEntriesAreFresh == Spec => OpensAreFresh
<1>1. FilesInv /\ [Next]_fileVars
        => [ \A p \in Proc, fd \in Fd :
               LET d == file'[p][fd]
               IN  life[p] = "live" /\ file[p][fd] = NULL /\ d # NULL
                     => Holders(d) = {} /\ desc'[d].position = 0 ]_fileVars
  BY StepOpensFresh
<1> QED BY <1>1, FilesInvariant, PTL DEF Spec, OpensAreFresh

-----------------------------------------------------------------------------
(* Counts and holders, for a process table that is finite.                 *)

\* Sets of places in the Process.file arrays.
Place == Proc \X Fd

\* Every place that leads to an entry, or to an FCB, is counted there.
CountsInv == FilesInv /\ CountsCoverHolders

LEMMA PlacesFinite ==
  ASSUME IsFiniteSet(Proc), NEW T \in SUBSET Place
  PROVE  IsFiniteSet(T) /\ Cardinality(T) \in Nat
<1>1. IsFiniteSet(Fd)
  BY FS_Interval, FilesAssumption DEF Fd
<1>2. IsFiniteSet(Place)
  BY <1>1, FS_Product DEF Place
<1> QED BY <1>2, FS_Subset, FS_CardinalityType

\* Fewer places need no larger count.
LEMMA FewerPlaces ==
  ASSUME IsFiniteSet(Proc), NEW T \in SUBSET Place, NEW U \in SUBSET T
  PROVE  Cardinality(U) <= Cardinality(T) /\ Cardinality(U) \in Nat /\ Cardinality(T) \in Nat
<1>1. U \in SUBSET Place
  OBVIOUS
<1> QED BY <1>1, PlacesFinite, FS_Subset

\* One more place needs one more.
LEMMA OneMorePlace ==
  ASSUME IsFiniteSet(Proc), NEW T \in SUBSET Place, NEW h \in Place,
         NEW U \in SUBSET (T \cup {h})
  PROVE  Cardinality(U) <= Cardinality(T) + 1 /\ Cardinality(U) \in Nat
<1>1. T \cup {h} \in SUBSET Place
  OBVIOUS
<1>2. Cardinality(U) <= Cardinality(T \cup {h}) /\ Cardinality(U) \in Nat
  BY <1>1, FewerPlaces
<1>3. Cardinality(T \cup {h}) <= Cardinality(T) + 1 /\ Cardinality(T) \in Nat
  BY PlacesFinite, FS_AddElement
<1>4. Cardinality(T \cup {h}) \in Nat
  BY <1>1, PlacesFinite
<1> QED BY <1>2, <1>3, <1>4

\* The places of a child are as many as the descriptors they copy.
LEMMA CopiedPlaces ==
  ASSUME IsFiniteSet(Proc), NEW T \in SUBSET Place, NEW q \in Proc, NEW X \in SUBSET Fd,
         NEW U \in SUBSET (T \cup ({q} \X X))
  PROVE  /\ Cardinality(U) <= Cardinality(T) + Cardinality(X)
         /\ Cardinality(U) \in Nat /\ Cardinality(T) \in Nat
<1> DEFINE C == {q} \X X
<1>1. C \in SUBSET Place /\ T \cup C \in SUBSET Place
  BY DEF Place
<1>2. IsFiniteSet(X) /\ Cardinality(X) \in Nat
  <2>1. IsFiniteSet(Fd)
    BY FS_Interval, FilesAssumption DEF Fd
  <2> QED BY <2>1, FS_Subset, FS_CardinalityType
<1>3. Cardinality(C) = Cardinality(X)
  <2>1. Cardinality(C) = Cardinality({q}) * Cardinality(X)
    BY <1>2, FS_Singleton, FS_Product
  <2>2. Cardinality({q}) = 1
    BY FS_Singleton
  <2> QED BY <1>2, <2>1, <2>2
<1> HIDE DEF C
<1>4. IsFiniteSet(T) /\ IsFiniteSet(C) /\ Cardinality(T) \in Nat
  BY <1>1, PlacesFinite
<1>5. Cardinality(T \cup C) <= Cardinality(T) + Cardinality(C)
  <2>1. Cardinality(T \cup C) = Cardinality(T) + Cardinality(C) - Cardinality(T \cap C)
    BY <1>4, FS_Union
  <2>2. Cardinality(T \cap C) \in Nat
    BY PlacesFinite
  <2> QED BY <1>2, <1>3, <1>4, <2>1, <2>2
<1>6. Cardinality(U) <= Cardinality(T \cup C) /\ Cardinality(U) \in Nat
  BY <1>1, FewerPlaces DEF C
<1>7. Cardinality(T \cup C) \in Nat
  BY <1>1, PlacesFinite
<1> QED BY <1>2, <1>3, <1>4, <1>5, <1>6, <1>7

LEMMA HoldersArePlaces ==
  /\ \A d : Holders(d) \in SUBSET Place
  /\ \A f : HoldersOfFile(f) \in SUBSET Place
BY DEF Holders, HoldersOfFile, Place

\* The numbers that are compared.
LEMMA CountTypes ==
  ASSUME IsFiniteSet(Proc), FilesInv
  PROVE  /\ \A d \in Desc : desc[d].count \in Nat /\ Cardinality(Holders(d)) \in Nat
         /\ \A f \in File : fcb_count[f] \in Nat /\ Cardinality(HoldersOfFile(f)) \in Nat
BY HoldersArePlaces, PlacesFinite DEF FilesInv, TypeOK

\* An entry that is not in use, or is not there, is held by nobody.
LEMMA UnusedIsUnheld ==
  ASSUME FilesInv, NEW d \in Desc, desc[d].fcb = NULL
  PROVE  Holders(d) = {}
BY FilesAssumption DEF FilesInv, NoDanglingDesc, Holders, Desc

\* Where no place is gained and no count of an entry held is lowered, the
\* counts cover their holders as before.
LEMMA CountsKept ==
  ASSUME IsFiniteSet(Proc), CountsInv, FilesInv',
         \A d \in Desc : Holders(d)' \subseteq Holders(d),
         \A d \in Desc : Holders(d) = {} \/ desc'[d].count >= desc[d].count,
         \A f \in File : HoldersOfFile(f)' \subseteq HoldersOfFile(f),
         \A f \in File : fcb_count'[f] >= fcb_count[f],
         panic' # "put_fcb"
  PROVE  CountsInv'
<1>1. ASSUME NEW d \in Desc, desc'[d].fcb # NULL
      PROVE  desc'[d].count >= Cardinality(Holders(d)')
  <2>1. desc'[d].count \in Nat /\ desc[d].count \in Nat
    BY DEF CountsInv, FilesInv, TypeOK
  <2>2. /\ Cardinality(Holders(d)') <= Cardinality(Holders(d))
        /\ Cardinality(Holders(d)') \in Nat /\ Cardinality(Holders(d)) \in Nat
    BY HoldersArePlaces, FewerPlaces
  <2>3. CASE Holders(d) = {}
    <3>1. Cardinality(Holders(d)) = 0
      BY <2>3, FS_EmptySet
    <3> QED BY <2>1, <2>2, <3>1
  <2>4. CASE Holders(d) # {}
    <3>1. desc[d].fcb # NULL
      BY <2>4, UnusedIsUnheld DEF CountsInv
    <3>2. desc[d].count >= Cardinality(Holders(d))
      BY <3>1 DEF CountsInv, CountsCoverHolders
    <3> QED BY <2>1, <2>2, <2>4, <3>2
  <2> QED BY <2>3, <2>4
<1>2. ASSUME NEW f \in File
      PROVE  fcb_count'[f] >= Cardinality(HoldersOfFile(f)')
  <2>1. fcb_count'[f] \in Nat /\ fcb_count[f] \in Nat
    BY DEF CountsInv, FilesInv, TypeOK
  <2>2. /\ Cardinality(HoldersOfFile(f)') <= Cardinality(HoldersOfFile(f))
        /\ Cardinality(HoldersOfFile(f)') \in Nat /\ Cardinality(HoldersOfFile(f)) \in Nat
    BY HoldersArePlaces, FewerPlaces
  <2>3. fcb_count[f] >= Cardinality(HoldersOfFile(f))
    BY DEF CountsInv, CountsCoverHolders
  <2> QED BY <2>1, <2>2, <2>3
<1> QED BY <1>1, <1>2 DEF CountsInv, CountsCoverHolders

LEMMA OpenCounts ==
  ASSUME IsFiniteSet(Proc), CountsInv, FilesInv', NEW p \in Proc, NEW f \in File, Open(p, f)
  PROVE  CountsInv'
<1> DEFINE d  == Min(FreeDescs)
           fd == Min(FreeFds(p))
           h  == <<p, fd>>
<1>1. d \in Desc /\ desc[d].fcb = NULL /\ fd \in Fd /\ file[p][fd] = NULL
  BY FoundIsFree DEF Open, CountsInv, FilesInv
<1>2. /\ desc' = [desc EXCEPT ![d] = Opened(f)]
      /\ file' = [file EXCEPT ![p][fd] = d]
      /\ fcb_count' = [fcb_count EXCEPT ![f] = @ + 1]
      /\ UNCHANGED panic
  BY DEF Open
<1> HIDE DEF d, fd
<1>3. h \in Place /\ Holders(d) = {} /\ NULL \notin Desc
  BY <1>1, UnusedIsUnheld, FilesAssumption DEF Place, CountsInv, Desc
<1>4. \A q \in Proc, gd \in Fd :
        file'[q][gd] = IF q = p /\ gd = fd THEN d ELSE file[q][gd]
  BY <1>1, <1>2 DEF CountsInv, FilesInv, TypeOK
<1>5. \A c \in Desc : desc'[c] = IF c = d THEN Opened(f) ELSE desc[c]
  BY <1>1, <1>2 DEF CountsInv, FilesInv, TypeOK
<1>6. ASSUME NEW c \in Desc, desc'[c].fcb # NULL
      PROVE  desc'[c].count >= Cardinality(Holders(c)')
  <2>1. CASE c = d
    <3>1. Holders(c)' \subseteq {} \cup {h}
      <4>1. \A q \in Proc, gd \in Fd : file[q][gd] # d
        BY <1>1, <1>3 DEF CountsInv, FilesInv, NoDanglingDesc
      <4>2. \A q \in Proc, gd \in Fd : file'[q][gd] = c => <<q, gd>> = h
        BY <1>4, <2>1, <4>1
      <4> HIDE DEF h
      <4> QED BY <4>2 DEF Holders
    <3>2. Cardinality(Holders(c)') <= Cardinality({}) + 1 /\ Cardinality(Holders(c)') \in Nat
      <4>1. {} \in SUBSET Place
        OBVIOUS
      <4> HIDE DEF h
      <4> QED BY <1>3, <3>1, <4>1, OneMorePlace
    <3>3. Cardinality({}) = 0 /\ desc'[c].count = 1
      BY <1>5, <2>1, FS_EmptySet DEF Opened
    <3> QED BY <2>1, <3>2, <3>3
  <2>2. CASE c # d
    <3>1. Holders(c)' = Holders(c)
      BY <1>1, <1>3, <1>4, <2>2 DEF Holders
    <3> QED BY <1>5, <1>6, <2>2, <3>1 DEF CountsInv, CountsCoverHolders
  <2> QED BY <2>1, <2>2
<1>7. ASSUME NEW g \in File
      PROVE  fcb_count'[g] >= Cardinality(HoldersOfFile(g)')
  <2>1. \A q \in Proc, gd \in Fd :
          ~ (q = p /\ gd = fd) /\ file[q][gd] # NULL
             => file'[q][gd] = file[q][gd] /\ desc'[file[q][gd]] = desc[file[q][gd]]
    BY <1>1, <1>4, <1>5 DEF CountsInv, FilesInv, TypeOK, NoDanglingDesc
  <2>2. desc'[d].fcb = f
    BY <1>1, <1>5 DEF Opened
  <2>3. fcb_count[g] >= Cardinality(HoldersOfFile(g))
    BY DEF CountsInv, CountsCoverHolders
  <2>4. fcb_count[g] \in Nat /\ Cardinality(HoldersOfFile(g)) \in Nat
    BY CountTypes DEF CountsInv
  <2>5. CASE g = f
    <3>1. HoldersOfFile(g)' \subseteq HoldersOfFile(g) \cup {h}
      BY <1>4, <2>1 DEF HoldersOfFile
    <3>2. Cardinality(HoldersOfFile(g)') <= Cardinality(HoldersOfFile(g)) + 1
          /\ Cardinality(HoldersOfFile(g)') \in Nat
      <4> HIDE DEF h
      <4> QED BY <1>3, <3>1, HoldersArePlaces, OneMorePlace
    <3>3. fcb_count'[g] = fcb_count[g] + 1
      BY <1>2, <2>5 DEF CountsInv, FilesInv, TypeOK
    <3> QED BY <2>3, <2>4, <3>2, <3>3
  <2>6. CASE g # f
    <3>1. HoldersOfFile(g)' \subseteq HoldersOfFile(g)
      BY <1>4, <2>1, <2>2, <2>6 DEF HoldersOfFile
    <3>2. Cardinality(HoldersOfFile(g)') <= Cardinality(HoldersOfFile(g))
          /\ Cardinality(HoldersOfFile(g)') \in Nat
      BY <3>1, HoldersArePlaces, FewerPlaces
    <3>3. fcb_count'[g] = fcb_count[g]
      BY <1>2, <2>6 DEF CountsInv, FilesInv, TypeOK
    <3> QED BY <2>3, <2>4, <3>2, <3>3
  <2> QED BY <2>5, <2>6
<1>8. panic' # "put_fcb"
  BY <1>2 DEF CountsInv, CountsCoverHolders
<1> QED BY <1>6, <1>7, <1>8 DEF CountsInv, CountsCoverHolders

LEMMA CloseCounts ==
  ASSUME IsFiniteSet(Proc), CountsInv, FilesInv', NEW p \in Proc, NEW fd \in Fd, Close(p, fd)
  PROVE  CountsInv'
<1> DEFINE f == desc[file[p][fd]].fcb
           h == <<p, fd>>
<1>1. file[p][fd] # NULL /\ file[p][fd] \in Desc /\ desc' = desc
  BY CloseKeepsEntries DEF Close, CountsInv
<1>2. f \in File /\ h \in HoldersOfFile(f)
  BY <1>1 DEF CountsInv, FilesInv, TypeOK, NoDanglingDesc, HoldersOfFile
<1>3. fcb_count[f] \in Nat /\ fcb_count[f] >= Cardinality(HoldersOfFile(f)) /\ fcb_count[f] > 0
  <2>1. HoldersOfFile(f) \in SUBSET Place /\ HoldersOfFile(f) # {}
    BY <1>2, HoldersArePlaces
  <2>2. IsFiniteSet(HoldersOfFile(f)) /\ Cardinality(HoldersOfFile(f)) \in Nat
    BY <2>1, PlacesFinite
  <2>3. Cardinality(HoldersOfFile(f)) # 0
    BY <2>1, <2>2, FS_EmptySet
  <2>4. fcb_count[f] \in Nat /\ fcb_count[f] >= Cardinality(HoldersOfFile(f))
    BY <1>2 DEF CountsInv, FilesInv, TypeOK, CountsCoverHolders
  <2> QED BY <2>2, <2>3, <2>4
<1>4. /\ fcb_count' = [fcb_count EXCEPT ![f] = @ - 1]
      /\ file' = [file EXCEPT ![p][fd] = NULL]
      /\ UNCHANGED panic
  BY <1>3 DEF Close
<1>5. \A q \in Proc, gd \in Fd :
        file'[q][gd] = IF q = p /\ gd = fd THEN NULL ELSE file[q][gd]
  BY <1>4 DEF CountsInv, FilesInv, TypeOK
<1>6. ASSUME NEW c \in Desc, desc'[c].fcb # NULL
      PROVE  desc'[c].count >= Cardinality(Holders(c)')
  <2>1. Holders(c)' \subseteq Holders(c)
    BY <1>5, FilesAssumption DEF Holders, Desc
  <2>2. Cardinality(Holders(c)') <= Cardinality(Holders(c))
        /\ Cardinality(Holders(c)') \in Nat /\ Cardinality(Holders(c)) \in Nat
    BY <2>1, HoldersArePlaces, FewerPlaces
  <2>3. desc[c].count \in Nat /\ desc[c].count >= Cardinality(Holders(c))
    BY <1>1, <1>6, CountTypes DEF CountsInv, CountsCoverHolders
  <2> QED BY <1>1, <2>2, <2>3
<1>7. ASSUME NEW g \in File
      PROVE  fcb_count'[g] >= Cardinality(HoldersOfFile(g)')
  <2>1. HoldersOfFile(g)' \subseteq HoldersOfFile(g) \ {h}
    BY <1>1, <1>5 DEF HoldersOfFile
  <2>2. fcb_count[g] \in Nat /\ fcb_count[g] >= Cardinality(HoldersOfFile(g))
    BY CountTypes DEF CountsInv, CountsCoverHolders
  <2>3. IsFiniteSet(HoldersOfFile(g)) /\ Cardinality(HoldersOfFile(g)) \in Nat
    BY HoldersArePlaces, PlacesFinite
  <2>4. CASE g = f
    <3> HIDE DEF f, h
    <3>1. Cardinality(HoldersOfFile(g) \ {h}) = Cardinality(HoldersOfFile(g)) - 1
      BY <1>2, <2>3, <2>4, FS_RemoveElement
    <3>2. /\ Cardinality(HoldersOfFile(g)') <= Cardinality(HoldersOfFile(g) \ {h})
          /\ Cardinality(HoldersOfFile(g)') \in Nat
      BY <2>1, HoldersArePlaces, FewerPlaces
    <3>3. fcb_count'[g] = fcb_count[g] - 1
      BY <1>4, <2>4 DEF CountsInv, FilesInv, TypeOK
    <3> QED BY <2>2, <2>3, <3>1, <3>2, <3>3
  <2>5. CASE g # f
    <3>1. /\ Cardinality(HoldersOfFile(g)') <= Cardinality(HoldersOfFile(g))
          /\ Cardinality(HoldersOfFile(g)') \in Nat
      BY <2>1, HoldersArePlaces, FewerPlaces
    <3> HIDE DEF f
    <3>2. fcb_count'[g] = fcb_count[g]
      BY <1>4, <2>5 DEF CountsInv, FilesInv, TypeOK
    <3> QED BY <2>2, <2>3, <3>1, <3>2
  <2> QED BY <2>4, <2>5
<1>8. panic' # "put_fcb"
  BY <1>4 DEF CountsInv, CountsCoverHolders
<1> QED BY <1>6, <1>7, <1>8 DEF CountsInv, CountsCoverHolders

\* fork() counts what it copies: each entry, and each FCB, as often as the
\* parent refers to it.
LEMMA CopyCounts ==
  ASSUME IsFiniteSet(Proc), CountsInv, FilesInv',
         NEW p \in Proc, NEW q \in Proc, CopyFiles(p, q)
  PROVE  CountsInv'
<1>1. /\ file' = [file EXCEPT ![q] = file[p]]
      /\ desc' = [d \in Desc |-> [desc[d] EXCEPT !.count = @ + Uses(p, d)]]
      /\ fcb_count' = [f \in File |-> fcb_count[f] + UsesOfFile(p, f)]
      /\ UNCHANGED panic
  BY DEF CopyFiles
<1>2. \A r \in Proc, fd \in Fd :
        file'[r][fd] = IF r = q THEN file[p][fd] ELSE file[r][fd]
  BY <1>1 DEF CountsInv, FilesInv, TypeOK
<1>3. \A d \in Desc : desc'[d].fcb = desc[d].fcb /\ desc'[d].count = desc[d].count + Uses(p, d)
  <2> TAKE d \in Desc
  <2>1. desc[d] \in Entry /\ desc'[d] = [desc[d] EXCEPT !.count = @ + Uses(p, d)]
    BY <1>1 DEF CountsInv, FilesInv, TypeOK, Entry
  <2> QED BY <2>1 DEF Entry
<1>4. ASSUME NEW d \in Desc, desc'[d].fcb # NULL
      PROVE  desc'[d].count >= Cardinality(Holders(d)')
  <2> DEFINE X == {fd \in Fd : file[p][fd] = d}
  <2>1. Holders(d)' \subseteq Holders(d) \cup ({q} \X X)
    BY <1>2 DEF Holders
  <2>2. Cardinality(X) = Uses(p, d) /\ X \in SUBSET Fd
    BY DEF Uses
  <2> HIDE DEF X
  <2>3. /\ Cardinality(Holders(d)') <= Cardinality(Holders(d)) + Uses(p, d)
        /\ Cardinality(Holders(d)') \in Nat /\ Cardinality(Holders(d)) \in Nat
    BY <2>1, <2>2, HoldersArePlaces, CopiedPlaces
  <2>4. /\ desc[d].count \in Nat /\ desc[d].count >= Cardinality(Holders(d))
        /\ Uses(p, d) \in Nat
    BY <1>3, <1>4, CountTypes, UsesAreNat DEF CountsInv, CountsCoverHolders
  <2> QED BY <1>3, <2>3, <2>4
<1>5. ASSUME NEW f \in File
      PROVE  fcb_count'[f] >= Cardinality(HoldersOfFile(f)')
  <2> DEFINE X == {fd \in Fd : file[p][fd] # NULL /\ desc[file[p][fd]].fcb = f}
  <2>1. \A r \in Proc, fd \in Fd :
          file[r][fd] # NULL => desc'[file[r][fd]].fcb = desc[file[r][fd]].fcb
    BY <1>3 DEF CountsInv, FilesInv, TypeOK
  <2>2. HoldersOfFile(f)' \subseteq HoldersOfFile(f) \cup ({q} \X X)
    BY <1>2, <2>1 DEF HoldersOfFile
  <2>3. Cardinality(X) = UsesOfFile(p, f) /\ X \in SUBSET Fd
    BY DEF UsesOfFile
  <2> HIDE DEF X
  <2>4. /\ Cardinality(HoldersOfFile(f)') <= Cardinality(HoldersOfFile(f)) + UsesOfFile(p, f)
        /\ Cardinality(HoldersOfFile(f)') \in Nat /\ Cardinality(HoldersOfFile(f)) \in Nat
    BY <2>2, <2>3, HoldersArePlaces, CopiedPlaces
  <2>5. /\ fcb_count[f] \in Nat /\ fcb_count[f] >= Cardinality(HoldersOfFile(f))
        /\ UsesOfFile(p, f) \in Nat
    BY CountTypes, UsesAreNat DEF CountsInv, CountsCoverHolders
  <2>6. fcb_count'[f] = fcb_count[f] + UsesOfFile(p, f)
    BY <1>1
  <2> QED BY <2>4, <2>5, <2>6
<1>6. panic' # "put_fcb"
  BY <1>1 DEF CountsInv, CountsCoverHolders
<1> QED BY <1>4, <1>5, <1>6 DEF CountsInv, CountsCoverHolders

LEMMA CountsInit == Init => CountsCoverHolders
<1> SUFFICES ASSUME Init PROVE CountsCoverHolders
  OBVIOUS
<1>1. \A p \in Proc, fd \in Fd : file[p][fd] = NULL
  BY DEF Init, NoFiles
<1>2. \A f \in File : HoldersOfFile(f) = {}
  BY <1>1 DEF HoldersOfFile
<1>3. \A d \in Desc : desc[d].fcb = NULL
  BY DEF Init, FreeDesc
<1>4. \A f \in File : fcb_count[f] >= Cardinality(HoldersOfFile(f))
  BY <1>2, FS_EmptySet DEF Init
<1> QED BY <1>3, <1>4 DEF Init, CountsCoverHolders

\* Loading a program uses an entry that nobody holds.
LEMMA LoadCounts ==
  ASSUME IsFiniteSet(Proc), CountsInv, FilesInv', NEW f \in File, Load(f),
         \/ \E p \in Proc : CanOpen(p)
         \/ \A q \in Proc : life[q] = "free"
  PROVE  CountsInv'
<1>1. desc' = [desc EXCEPT ![Min(FreeDescs)] = Loaded(f)] /\ UNCHANGED <<file, fcb_count, panic>>
  BY DEF Load
<1>2. \A d \in Desc : Holders(d)' = Holders(d)
  BY <1>1 DEF Holders
<1>3. \A q \in Proc, gd \in Fd : file[q][gd] # NULL => desc'[file[q][gd]] = desc[file[q][gd]]
  <2>1. \A q \in Proc, gd \in Fd : file[q][gd] # Min(FreeDescs) \/ file[q][gd] = NULL
    BY FoundIsFree DEF CountsInv, FilesInv, NoDanglingDesc
  <2> QED BY <1>1, <2>1 DEF CountsInv, FilesInv, TypeOK
<1>4. \A g \in File : HoldersOfFile(g)' = HoldersOfFile(g)
  BY <1>1, <1>3 DEF HoldersOfFile
<1>5. \A d \in Desc : Holders(d) = {} \/ desc'[d].count >= desc[d].count
  <2> SUFFICES ASSUME NEW d \in Desc, Holders(d) # {} PROVE desc'[d].count >= desc[d].count
    OBVIOUS
  <2>1. PICK q \in Proc, gd \in Fd : file[q][gd] = d
    BY DEF Holders
  <2>2. desc'[d] = desc[d] /\ desc[d].count \in Nat
    BY <1>3, <2>1, FilesAssumption DEF CountsInv, FilesInv, TypeOK, Desc
  <2> QED BY <2>2
<1>6. \A g \in File : fcb_count'[g] >= fcb_count[g]
  BY <1>1 DEF CountsInv, FilesInv, TypeOK
<1>7. panic' # "put_fcb"
  BY <1>1 DEF CountsInv, CountsCoverHolders
<1> QED BY <1>2, <1>4, <1>5, <1>6, <1>7, CountsKept

LEMMA ReadCounts ==
  ASSUME IsFiniteSet(Proc), CountsInv, FilesInv',
         NEW p \in Proc, NEW fd \in Fd, NEW n \in 0 .. MaxRead, Read(p, fd, n)
  PROVE  CountsInv'
<1> DEFINE d == file[p][fd]
           e == [desc[d] EXCEPT !.position = @ + n]
<1>1. d \in Desc /\ desc[d] \in Entry
  BY DEF Read, CountsInv, FilesInv, TypeOK, Entry
<1>2. e.fcb = desc[d].fcb /\ e.count = desc[d].count
  BY <1>1 DEF Entry
<1>3. desc' = desc \/ desc' = [desc EXCEPT ![d] = e]
  BY DEF Read
<1>4. \A c \in Desc : desc'[c].fcb = desc[c].fcb /\ desc'[c].count = desc[c].count
  <2> HIDE DEF d, e
  <2> QED BY <1>1, <1>2, <1>3 DEF CountsInv, FilesInv, TypeOK
<1>5. UNCHANGED <<file, fcb_count>> /\ panic' # "put_fcb"
  BY DEF Read, CountsInv, CountsCoverHolders
<1>6. \A c \in Desc : Holders(c)' = Holders(c)
  BY <1>5 DEF Holders
<1>7. \A g \in File : HoldersOfFile(g)' = HoldersOfFile(g)
  BY <1>4, <1>5 DEF HoldersOfFile, CountsInv, FilesInv, TypeOK
<1>8. /\ \A c \in Desc : desc'[c].count >= desc[c].count
      /\ \A g \in File : fcb_count'[g] >= fcb_count[g]
  BY <1>4, <1>5, CountTypes DEF CountsInv
<1> QED BY <1>5, <1>6, <1>7, <1>8, CountsKept

\* exit() and wait() lower no count: exit() leaves the descriptors where they
\* are, wait() only takes places away.
LEMMA LeaveCounts ==
  ASSUME IsFiniteSet(Proc), CountsInv, FilesInv', UNCHANGED <<desc, fcb_count, panic>>,
         \/ UNCHANGED file
         \/ \E q \in Proc : file' = [file EXCEPT ![q] = NoFiles]
  PROVE  CountsInv'
<1>1. \A q \in Proc, gd \in Fd : file'[q][gd] \in {NULL, file[q][gd]}
  BY DEF CountsInv, FilesInv, TypeOK, NoFiles
<1>2. \A d \in Desc : Holders(d)' \subseteq Holders(d)
  BY <1>1, FilesAssumption DEF Holders, Desc
<1>3. \A f \in File : HoldersOfFile(f)' \subseteq HoldersOfFile(f)
  BY <1>1 DEF HoldersOfFile
<1>4. /\ \A d \in Desc : desc'[d].count >= desc[d].count
      /\ \A f \in File : fcb_count'[f] >= fcb_count[f]
  BY CountTypes DEF CountsInv
<1>5. panic' # "put_fcb"
  BY DEF CountsInv, CountsCoverHolders
<1> QED BY <1>2, <1>3, <1>4, <1>5, CountsKept

LEMMA NextCounts ==
  ASSUME IsFiniteSet(Proc), CountsInv, [Next]_fileVars
  PROVE  CountsInv'
<1>1. FilesInv'
  BY NextInv DEF CountsInv
<1>2. ASSUME NEW p \in Proc, NEW f \in File, init_process(p, f)
      PROVE  CountsInv'
  BY <1>1, <1>2, LoadCounts DEF init_process
<1>3. ASSUME NEW p \in Proc, NEW f \in File, open_file(p, f)
      PROVE  CountsInv'
  BY <1>1, <1>3, OpenCounts DEF open_file
<1>4. ASSUME NEW p \in Proc, exit(p)
      PROVE  CountsInv'
  BY <1>1, <1>4, LeaveCounts DEF exit
<1>5. ASSUME NEW p \in Proc, NEW f \in File, exec(p, f)
      PROVE  CountsInv'
  <2>1. CASE CanOpen(p)
    BY <1>1, <1>5, <2>1, LoadCounts DEF exec
  <2>2. CASE ~ CanOpen(p)
    BY <1>4, <1>5, <2>2 DEF exec
  <2> QED BY <2>1, <2>2
<1>6. ASSUME NEW p \in Proc, NEW fd \in Fd, close_file(p, fd)
      PROVE  CountsInv'
  BY <1>1, <1>6, CloseCounts DEF close_file
<1>7. ASSUME NEW p \in Proc, NEW fd \in Fd, NEW n \in 0 .. MaxRead, read_file(p, fd, n)
      PROVE  CountsInv'
  BY <1>1, <1>7, ReadCounts DEF read_file
<1>8. ASSUME NEW p \in Proc, NEW q \in Proc, fork(p, q)
      PROVE  CountsInv'
  BY <1>1, <1>8, CopyCounts DEF fork
<1>9. ASSUME NEW q \in Proc, wait(q)
      PROVE  CountsInv'
  BY <1>1, <1>9, LeaveCounts DEF wait, ClearFiles
<1>10. CASE UNCHANGED fileVars
  BY <1>1, <1>10, LeaveCounts DEF fileVars
<1> QED BY <1>2, <1>3, <1>4, <1>5, <1>6, <1>7, <1>8, <1>9, <1>10 DEF Next, Stopped

\* The counts of entries and of FCBs cover the descriptors that lead to them,
\* through every fork, close and exit, so put_fcb()'s assertion never fails.
THEOREM CountsAreSound == ASSUME IsFiniteSet(Proc) PROVE Spec => []CountsCoverHolders
<1>1. Init => CountsInv
  BY InitInv, CountsInit DEF CountsInv
<1>2. CountsInv /\ [Next]_fileVars => CountsInv'
  BY NextCounts
<1> QED BY <1>1, <1>2, PTL DEF Spec, CountsInv
=============================================================================
