------------------------------- MODULE Files -------------------------------
(***************************************************************************)
(* Open files: the descriptor numbers of each process, the table of        *)
(* FileDesc and the table of FCB, with the operations of fs.c and what     *)
(* fork(), exec(), exit() and wait() of process.c do to them.              *)
(*                                                                         *)
(* None of these operations sleeps and the kernel runs with interrupts     *)
(* masked, so each is one action.  A call that fails and returns -1        *)
(* changes nothing and is left out, except where its caller then exits.    *)
(* The image on the disk is taken to be sound: a file of n bytes has the   *)
(* clusters n bytes need.  User code passes descriptors it has open.       *)
(*                                                                         *)
(* Operators whose names start with Wrong: see Process.                    *)
(***************************************************************************)
EXTENDS Integers, FiniteSets, FiniteSetsExt

CONSTANTS
  Proc,         \* slots of process_table that user processes take
  NumFd,        \* length of Process.file
  NumDesc,      \* length of file_desc_table
  File,         \* root directory entries that are files; also FCBs
  FileSize,     \* their sizes in bytes
  ClusterSize,
  MaxRead,      \* bound: the most bytes one read asks for
  MaxCount,     \* bound: fork() makes no count larger
  NULL

ASSUME FilesAssumption ==
  /\ NumFd \in Nat \ {0} /\ NumDesc \in Nat \ {0}
  /\ FileSize \in [File -> Nat]
  /\ ClusterSize \in Nat \ {0}
  /\ MaxRead \in Nat /\ MaxCount \in Nat
  /\ NULL \notin File /\ NULL \notin 0 .. NumDesc - 1

Fd   == 0 .. NumFd - 1
Desc == 0 .. NumDesc - 1

VARIABLES
  life,        \* of each slot: "free", "live" or "killed"
  file,        \* Process.file: NULL or the index of a FileDesc
  desc,        \* file_desc_table: fcb (NULL in a free entry), position, count
  fcb_count,   \* FCB.count, what changes in fcb_table
  panic        \* the function whose ASSERT failed, or "none"

fileVars == <<life, file, desc, fcb_count, panic>>

FreeDesc == [fcb |-> NULL, position |-> 0, count |-> 0]
NoFiles  == [fd \in Fd |-> NULL]

\* init_fs() has made both tables.
Init ==
  /\ life = [p \in Proc |-> "free"]
  /\ file = [p \in Proc |-> NoFiles]
  /\ desc = [d \in Desc |-> FreeDesc]
  /\ fcb_count = [f \in File |-> 0]
  /\ panic = "none"

-----------------------------------------------------------------------------
\* What open_file() looks for: a free descriptor number, a free FileDesc.
FreeFds(p) == {fd \in Fd : file[p][fd] = NULL}

WrongFreeDescs == {d \in Desc : desc[d].count <= 1}

FreeDescs == {d \in Desc : desc[d].fcb = NULL}

\* A FileDesc as open_file() fills it in.
Opened(f) == [fcb |-> f, position |-> 0, count |-> 1]

\* ... and as close_file() leaves it, which never lowers its count.
WrongReleased(e) == [e EXCEPT !.fcb = NULL]

Released(e) == IF e.count = 0 THEN [e EXCEPT !.fcb = NULL] ELSE e

\* A FileDesc that was opened, read to the end of the file and closed.
Loaded(f) == Released([Opened(f) EXCEPT !.position = FileSize[f]])

CanOpen(p) == FreeFds(p) # {} /\ FreeDescs # {}

\* What each operation does to the tables, for a process that may call it.
Open(p, f) ==
  /\ CanOpen(p)
  /\ LET d == Min(FreeDescs)
     IN  /\ desc' = [desc EXCEPT ![d] = Opened(f)]
         /\ file' = [file EXCEPT ![p][Min(FreeFds(p))] = d]
  /\ fcb_count' = [fcb_count EXCEPT ![f] = @ + 1]
  /\ UNCHANGED panic

\* close_file(), with the ASSERT of put_fcb().
Close(p, fd) ==
  /\ file[p][fd] # NULL
  /\ LET d == file[p][fd]
         f == desc[d].fcb
     IN  IF fcb_count[f] > 0
         THEN /\ fcb_count' = [fcb_count EXCEPT ![f] = @ - 1]
              /\ desc' = [desc EXCEPT ![d] = Released(@)]
              /\ file' = [file EXCEPT ![p][fd] = NULL]
              /\ UNCHANGED panic
         ELSE panic' = "put_fcb" /\ UNCHANGED <<file, desc, fcb_count>>

\* read_raw_data() follows the chain for the clusters before the position,
\* and asserts that it is not at the end of the chain: this many clusters.
Clusters(f) == (FileSize[f] + ClusterSize - 1) \div ClusterSize
Walked(e)   == e.position \div ClusterSize

InFile(e, n) == e.position + n <= FileSize[e.fcb]

\* read_file(): a read past the end returns -1, a read in the file n bytes.
Read(p, fd, n) ==
  /\ file[p][fd] # NULL
  /\ LET d == file[p][fd]
     IN  /\ InFile(desc[d], n)
         /\ IF Walked(desc[d]) > 0 /\ Walked(desc[d]) >= Clusters(desc[d].fcb)
            THEN panic' = "read_raw_data" /\ UNCHANGED desc
            ELSE desc' = [desc EXCEPT ![d].position = @ + n] /\ UNCHANGED panic
  /\ UNCHANGED <<file, fcb_count>>

\* exec() and setup_uvm() open the file, read it to its end and close it, on
\* one of the process's own free descriptors.
Load(f) ==
  /\ desc' = [desc EXCEPT ![Min(FreeDescs)] = Loaded(f)]
  /\ UNCHANGED <<file, fcb_count, panic>>

\* fork(): the child has the parent's descriptors, each counted once more.
Uses(p, d) == Cardinality({fd \in Fd : file[p][fd] = d})
UsesOfFile(p, f) ==
  Cardinality({fd \in Fd : file[p][fd] # NULL /\ desc[file[p][fd]].fcb = f})

WrongCopyFcbNotCounted(p, q) ==
  /\ \A d \in Desc : desc[d].count + Uses(p, d) <= MaxCount
  /\ file' = [file EXCEPT ![q] = file[p]]
  /\ desc' = [d \in Desc |-> [desc[d] EXCEPT !.count = @ + Uses(p, d)]]
  /\ UNCHANGED <<fcb_count, panic>>

CopyFiles(p, q) ==
  /\ \A d \in Desc : desc[d].count + Uses(p, d) <= MaxCount
  /\ \A f \in File : fcb_count[f] + UsesOfFile(p, f) <= MaxCount
  /\ file' = [file EXCEPT ![q] = file[p]]
  /\ desc' = [d \in Desc |-> [desc[d] EXCEPT !.count = @ + Uses(p, d)]]
  /\ fcb_count' = [f \in File |-> fcb_count[f] + UsesOfFile(p, f)]
  /\ UNCHANGED panic

\* wait() clears struct Process, the descriptors in it, and no count.
WrongClearKeepsFiles(q) == UNCHANGED <<file, desc, fcb_count, panic>>

ClearFiles(q) ==
  /\ file' = [file EXCEPT ![q] = NoFiles]
  /\ UNCHANGED <<desc, fcb_count, panic>>

-----------------------------------------------------------------------------
(* The calls, with the life of the process that makes them.                *)

Running(p) == panic = "none" /\ life[p] = "live"

open_file(p, f)     == Running(p) /\ Open(p, f) /\ UNCHANGED life
close_file(p, fd)   == Running(p) /\ Close(p, fd) /\ UNCHANGED life
read_file(p, fd, n) == Running(p) /\ Read(p, fd, n) /\ UNCHANGED life

init_process(p, f) ==
  /\ panic = "none" /\ \A q \in Proc : life[q] = "free"
  /\ life' = [life EXCEPT ![p] = "live"]
  /\ Load(f)

fork(p, q) ==
  /\ Running(p) /\ life[q] = "free"
  /\ life' = [life EXCEPT ![q] = "live"]
  /\ CopyFiles(p, q)

exit(p) ==
  /\ Running(p)
  /\ life' = [life EXCEPT ![p] = "killed"]
  /\ UNCHANGED <<file, desc, fcb_count, panic>>

\* A process that cannot open the file it is to execute exits.
exec(p, f) ==
  IF CanOpen(p) THEN Running(p) /\ Load(f) /\ UNCHANGED life ELSE exit(p)

wait(q) ==
  /\ panic = "none" /\ life[q] = "killed"
  /\ \E p \in Proc : Running(p)
  /\ life' = [life EXCEPT ![q] = "free"]
  /\ ClearFiles(q)

\* All processes have exited, or an ASSERT failed.
Stopped == ~ (\E p \in Proc : Running(p)) /\ UNCHANGED fileVars

Next ==
  \/ \E p \in Proc :
       \/ \E f \in File : init_process(p, f) \/ open_file(p, f) \/ exec(p, f)
       \/ \E fd \in Fd : close_file(p, fd)
       \/ \E fd \in Fd, n \in 0 .. MaxRead : read_file(p, fd, n)
       \/ \E q \in Proc : fork(p, q)
       \/ exit(p)
       \/ wait(p)
  \/ Stopped

Spec == Init /\ [][Next]_fileVars

-----------------------------------------------------------------------------
(* Properties.                                                             *)

TypeOK ==
  /\ life \in [Proc -> {"free", "live", "killed"}]
  /\ file \in [Proc -> [Fd -> Desc \cup {NULL}]]
  /\ desc \in [Desc -> [fcb : File \cup {NULL}, position : Nat, count : Nat]]
  /\ fcb_count \in [File -> Nat]
  /\ panic \in {"none", "put_fcb", "read_raw_data"}

\* Where a process's descriptor leads: the places that refer to d, or to f.
Holders(d)     == {h \in Proc \X Fd : file[h[1]][h[2]] = d}
HoldersOfFile(f) ==
  {h \in Proc \X Fd : file[h[1]][h[2]] # NULL /\ desc[file[h[1]][h[2]]].fcb = f}

\* A descriptor a process holds leads to a FileDesc in use, and so to a file,
\* whatever other processes have closed; a free slot of the process table
\* holds none, so a new process starts with those of its parent.
NoDanglingDesc ==
  \A p \in Proc, fd \in Fd :
    file[p][fd] # NULL => life[p] # "free" /\ desc[file[p][fd]].fcb # NULL

\* Every descriptor that leads to an FCB or a FileDesc is counted there: the
\* FCB is not given up, and put_fcb()'s ASSERT does not fail, while one is left.
CountsCoverHolders ==
  /\ \A f \in File : fcb_count[f] >= Cardinality(HoldersOfFile(f))
  /\ \A d \in Desc : desc[d].fcb # NULL => desc[d].count >= Cardinality(Holders(d))
  /\ panic # "put_fcb"

\* Two descriptors lead to one FileDesc, and so to one position.
Share(p, fd, q, gd) ==
  <<p, fd>> # <<q, gd>> /\ file[p][fd] # NULL /\ file[p][fd] = file[q][gd]

\* A step starts a child with the descriptors of its parent.
Inherits(child, parent) ==
  /\ life[child] = "free" /\ life'[child] = "live" /\ life[parent] = "live"
  /\ file'[child] = file[parent]

\* Two descriptors come to share a position in one way: fork() starts a child
\* with those of its parent, and what it then shares, under the same number,
\* is with the parent or with those the parent shared with.  Files opened
\* apart never come to share one, whoever closes and opens in between, and
\* a process never shares one with itself.
SharesOnlyByFork ==
  [][ \A p, q \in Proc, fd, gd \in Fd :
        Share(p, fd, q, gd)' /\ ~ Share(p, fd, q, gd)
          => /\ fd = gd /\ p # q
             /\ \E child \in {p, q}, parent \in Proc :
                  /\ Inherits(child, parent)
                  /\ \A other \in {p, q} \ {child} : file[other][fd] = file[parent][fd] ]_fileVars

\* While a process holds a descriptor its file does not change under it and
\* its position does not go back: nobody else's open_file() or close_file()
\* reaches it.
HeldDescIsStable ==
  [][ \A p \in Proc, fd \in Fd :
        LET d == file[p][fd]
        IN  d # NULL /\ file'[p][fd] = d
              => desc'[d].fcb = desc[d].fcb /\ desc'[d].position >= desc[d].position ]_fileVars

\* A number that open_file() hands out leads to a FileDesc nobody held, read
\* from its start.
OpensAreFresh ==
  [][ \A p \in Proc, fd \in Fd :
        LET d == file'[p][fd]
        IN  life[p] = "live" /\ file[p][fd] = NULL /\ d # NULL
              => Holders(d) = {} /\ desc'[d].position = 0 ]_fileVars

\* fs.c, of close_file(): it clears the FileDesc when nothing refers to it.
\* An entry of file_desc_table in use is one that some process holds.
UnheldDescIsFree ==
  \A d \in Desc : desc[d].fcb # NULL => Holders(d) # {}
=============================================================================
