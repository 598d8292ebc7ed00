------------------------------- MODULE Fat16 -------------------------------
(***************************************************************************)
(* The FAT16 image as fs.c reads it: the search for a path in the root     *)
(* directory and the walk along the cluster chain of an open file.         *)
(*                                                                         *)
(* The image does not change, so one file open at a time shows what there  *)
(* is to show; who holds which descriptor is in Files.  A byte is known by *)
(* the cluster and the place in it that it was copied from.  Reads are too *)
(* small for position + size to pass 2^32.                                 *)
(*                                                                         *)
(* Operators whose names start with Wrong: see Process.                    *)
(***************************************************************************)
EXTENDS Integers, Sequences, FiniteSets, SequencesExt

CONSTANTS
  Char,         \* the characters of names and paths, with those named below
  MAX_FILENAME, MAX_FILE_EXT_NAME,
  ClusterSize,
  MaxCluster,   \* the FAT has entries 0 .. MaxCluster
  Image,        \* images the card may hold: records of dir and fat
  Path,         \* paths that user code asks for
  MaxRead,      \* bound: the most bytes one read asks for
  NONE

NUL     == "NUL"      \* '\0'
BLANK   == " "
DOT     == "."
SLASH   == "/"
DELETED == "E5"       \* ENTRY_DELETED; ENTRY_EMPTY is NUL

LongName == 15        \* the attributes of a part of a long name
LastLink == 65527     \* 0xfff7: from here on, not a cluster

Cluster == 2 .. MaxCluster
IsEnd(i) == i >= LastLink

\* A file of n bytes has the clusters for n bytes: an entry's chain is such a
\* sequence of different clusters, and an empty file has none.
ClustersFor(n) == (n + ClusterSize - 1) \div ClusterSize
Chains(n) == {c \in [1 .. n -> Cluster] : IsInjective(c)}
IsChain(c, fat, first) ==
  c # <<>> => /\ c[1] = first /\ IsEnd(fat[c[Len(c)]])
              /\ \A k \in 1 .. Len(c) - 1 : fat[c[k]] = c[k + 1]
IsFile(e) == e.name[1] \notin {NUL, DELETED} /\ e.attributes # LongName

\* Names are of the characters a short name may have, padded with blanks.
IsImage(im) ==
  /\ im.dir \in Seq([name : [1 .. MAX_FILENAME -> Char], ext : [1 .. MAX_FILE_EXT_NAME -> Char],
                     attributes : Nat, cluster_index : Nat, file_size : Nat])
  /\ \A k \in DOMAIN im.dir :
       LET e == im.dir[k]
       IN  IsFile(e) =>
             /\ \A i \in DOMAIN e.name : e.name[i] \notin {NUL, DOT, SLASH}
             /\ \A i \in DOMAIN e.ext : e.ext[i] # SLASH
             /\ \E c \in Chains(ClustersFor(e.file_size)) : IsChain(c, im.fat, e.cluster_index)

ASSUME Fat16Assumption ==
  /\ {MAX_FILENAME, MAX_FILE_EXT_NAME, ClusterSize, MaxCluster} \subseteq Nat \ {0}
  /\ MaxCluster < LastLink
  /\ MaxRead \in Nat
  /\ \A im \in Image : IsImage(im)
  /\ {NUL, BLANK, DOT, SLASH, DELETED} \subseteq Char /\ Path \subseteq Seq(Char)
  /\ NONE \notin Path /\ NONE \notin Nat

VARIABLES
  image,      \* the image on the card
  path,       \* the path open_file() was last called with, or NONE
  opened,     \* FCB.dir_index of the open file, or NONE
  position,   \* FileDesc.position
  data,       \* what all reads since then copied, one after the other
  call,       \* size and result of the last read
  panic       \* the function whose ASSERT failed, or "none"

fatVars == <<image, path, opened, position, data, call, panic>>

Entry(i) == image.dir[i]
NoCall   == [size |-> 0, result |-> 0]

Init ==
  /\ image \in Image
  /\ path = NONE /\ opened = NONE
  /\ position = 0 /\ data = <<>> /\ call = NoCall
  /\ panic = "none"

-----------------------------------------------------------------------------
\* Finding a file.

\* path[k] of a string that ends in '\0'.
CharAt(p, k) == IF k <= Len(p) THEN p[k] ELSE NUL
Pad(s, n)    == [k \in 1 .. n |-> IF k <= Len(s) THEN s[k] ELSE BLANK]

\* How far the two loops of split_path() copy.
NameOf(p) ==
  LET stop == CHOOSE k \in 1 .. MAX_FILENAME + 1 :
                /\ k = MAX_FILENAME + 1 \/ CharAt(p, k) \in {DOT, NUL}
                /\ \A j \in 1 .. k - 1 : CharAt(p, j) \notin {DOT, NUL}
  IN  SubSeq(p, 1, stop - 1)

HasDot(p) == CharAt(p, Len(NameOf(p)) + 1) = DOT

ExtOf(p) ==
  LET from == Len(NameOf(p)) + 2
      last == from + MAX_FILE_EXT_NAME - 1
  IN  IF HasDot(p) THEN SubSeq(p, from, IF last < Len(p) THEN last ELSE Len(p))
      ELSE <<>>

\* split_path() returns true: no '/' was met and nothing is left over.
WrongSplitsLeftover(p) == ~ Contains(NameOf(p) \o ExtOf(p), SLASH)

Splits(p) ==
  /\ ~ Contains(NameOf(p) \o ExtOf(p), SLASH)
  /\ Len(p) = Len(NameOf(p)) + Len(ExtOf(p)) + (IF HasDot(p) THEN 1 ELSE 0)

is_file_name_equal(e, p) ==
  /\ e.name = Pad(NameOf(p), MAX_FILENAME)
  /\ e.ext = Pad(ExtOf(p), MAX_FILE_EXT_NAME)

search_file(p) ==
  IF Splits(p)
  THEN SelectInSeq(image.dir, LAMBDA e : IsFile(e) /\ is_file_name_equal(e, p))
  ELSE 0

Open(p) ==
  /\ panic = "none" /\ path = NONE
  /\ path' = p
  /\ opened' = IF search_file(p) = 0 THEN NONE ELSE search_file(p)
  /\ position' = 0 /\ data' = <<>> /\ call' = NoCall
  /\ UNCHANGED <<image, panic>>

-----------------------------------------------------------------------------
\* Reading it.

get_cluster_value(i) == image.fat[i]

\* memcpy() of n bytes from the given place of a cluster.
Copied(i, offset, n) == [k \in 1 .. n |-> [cluster |-> i, at |-> offset + k - 1]]

\* The walk to the cluster of a position, and whether its ASSERT holds.
WrongWalkRoundsUp(pos) == (pos + ClusterSize - 1) \div ClusterSize

WalkLength(pos) == pos \div ClusterSize

Walk(first, count) ==
  LET index[k \in 0 .. count] ==
        IF k = 0 THEN first
        ELSE IF IsEnd(index[k - 1]) THEN index[k - 1]
        ELSE get_cluster_value(index[k - 1])
  IN  index[count]

\* How much the copy from the middle of a cluster takes, and where it leaves.
FirstSize(offset, size) ==
  IF offset = 0 THEN 0
  ELSE IF offset + size <= ClusterSize THEN size
  ELSE ClusterSize - offset

WrongIndexAfterFirst(i, offset) == i

IndexAfterFirst(i, offset) == IF offset = 0 THEN i ELSE get_cluster_value(i)

\* The loop over the clusters that are read from their start ends with the chain.
CopiedFrom(i, size) ==
  LET cluster(k) == Walk(i, (k - 1) \div ClusterSize)
      K == {k \in 1 .. size : ~ IsEnd(cluster(k))}
  IN  [k \in 1 .. Cardinality(K) |-> [cluster |-> cluster(k), at |-> (k - 1) % ClusterSize]]

read_raw_data(first, pos, size) ==
  LET index  == Walk(first, WalkLength(pos))
      offset == pos % ClusterSize
      part   == FirstSize(offset, size)
  IN  Copied(index, offset, part)
        \o CopiedFrom(IndexAfterFirst(index, offset), size - part)

\* The ASSERTs of read_raw_data() and, of every cluster that is copied from,
\* of get_cluster_offset().
FailedAssert(first, pos, size) ==
  IF WalkLength(pos) > 0 /\ IsEnd(Walk(first, WalkLength(pos)))
  THEN "read_raw_data"
  ELSE IF \E b \in ToSet(read_raw_data(first, pos, size)) : b.cluster < 2
  THEN "get_cluster_offset"
  ELSE "none"

WrongInFile(size) == position < Entry(opened).file_size

InFile(size) == position + size <= Entry(opened).file_size

read_file(size) ==
  /\ panic = "none" /\ opened # NONE
  /\ LET first == Entry(opened).cluster_index
         bytes == read_raw_data(first, position, size)
         failed == FailedAssert(first, position, size)
     IN  IF ~ InFile(size)
         THEN call' = [size |-> size, result |-> -1] /\ UNCHANGED <<position, data, panic>>
         ELSE IF failed # "none"
         THEN panic' = failed /\ UNCHANGED <<position, data, call>>
         ELSE /\ data' = data \o bytes
              /\ position' = position + Len(bytes)
              /\ call' = [size |-> size, result |-> Len(bytes)]
              /\ UNCHANGED panic
  /\ UNCHANGED <<image, path, opened>>

close_file ==
  /\ panic = "none" /\ opened # NONE
  /\ path' = NONE /\ opened' = NONE
  /\ position' = 0 /\ data' = <<>> /\ call' = NoCall
  /\ UNCHANGED <<image, panic>>

\* An ASSERT failed; or, to keep the instances small, a path was not found.
Stopped ==
  /\ panic # "none" \/ (path # NONE /\ opened = NONE)
  /\ UNCHANGED fatVars

Next ==
  \/ \E p \in Path : Open(p)
  \/ \E size \in 0 .. MaxRead : read_file(size)
  \/ close_file
  \/ Stopped

Spec == Init /\ [][Next]_fatVars

-----------------------------------------------------------------------------
(* Properties.                                                             *)

Byte == [cluster : Cluster, at : 0 .. ClusterSize - 1]

\* How a user may write an entry's name: with the blanks that pad it or without
\* some, and with the dot or, when there is no extension, without.
Cuts(s) ==
  {SubSeq(s, 1, n) : n \in {m \in 0 .. Len(s) : \A k \in m + 1 .. Len(s) : s[k] = BLANK}}
Spellings(e) ==
  {n \o <<DOT>> \o x : n \in Cuts(e.name), x \in Cuts(e.ext)}
    \cup {n \in Cuts(e.name) : <<>> \in Cuts(e.ext)}

\* open_file() finds the first file with the name, when there is one, and
\* neither a deleted one, nor a part of a long name, nor one whose name the
\* path only begins like.
FindsByName ==
  path # NONE =>
    LET found == {i \in DOMAIN image.dir :
                    IsFile(Entry(i)) /\ path \in Spellings(Entry(i))}
    IN  IF opened = NONE THEN found = {}
        ELSE opened \in found /\ \A i \in found : opened <= i

\* However a file is cut into reads, what they copied is the beginning of the
\* file, byte after byte along its chain, and as long as the position says.
NextByte(b) ==
  IF b.at + 1 < ClusterSize THEN [b EXCEPT !.at = @ + 1]
  ELSE [cluster |-> image.fat[b.cluster], at |-> 0]
ReadsAreSequential ==
  /\ Len(data) = position
  /\ data # <<>> => data[1] = [cluster |-> Entry(opened).cluster_index, at |-> 0]
  /\ \A k \in 1 .. Len(data) - 1 : data[k + 1] = NextByte(data[k])

\* A read returns as many bytes as it was asked for, or -1 and moves nothing.
ReadsAllOrNothing ==
  [][ /\ call'.result \in {-1, call'.size}
      /\ call'.result = -1 => position' = position ]_fatVars

\* On a sound image an assertion of a read can fail in one place only: at the
\* end of a file that fills its last cluster.
StopsOnlyAtFullEnd ==
  panic # "none" =>
    /\ position = Entry(opened).file_size
    /\ position > 0 /\ position % ClusterSize = 0
=============================================================================
