------------------------------ MODULE MCFat16 ------------------------------
(***************************************************************************)
(* Instances of Fat16 for TLC: names of two characters and extensions of   *)
(* one, clusters of two bytes.  The file A.A has every size that needs up  *)
(* to three clusters and every chain; around it are an empty file AA, a    *)
(* second A.A, a deleted file, a part of a long name that reads AA, and an *)
(* entry that was never used, in several orders.                           *)
(***************************************************************************)
EXTENDS Fat16

CONSTANT MaxFileSize

Named(name, ext, attributes, first, size) ==
  [name |-> name, ext |-> ext, attributes |-> attributes,
   cluster_index |-> first, file_size |-> size]

OneA    == <<"A", " ">>
Empty   == Named(<<"A", "A">>, <<" ">>, 32, 0, 0)
Second  == Named(OneA, <<"A">>, 32, 0, 0)
Deleted == Named(<<"E5", "A">>, <<"A">>, 32, 2, 1)
Long    == Named(<<"A", "A">>, <<" ">>, 15, 0, 0)
Unused  == Named(<<"NUL", "NUL">>, <<"NUL">>, 0, 0, 0)

Target(c, size) == Named(OneA, <<"A">>, 32, IF c = <<>> THEN 0 ELSE c[1], size)

\* The FAT of a card that holds the target only.
Fat(c) ==
  [i \in 0 .. MaxCluster |->
     IF i < 2 THEN 65535
     ELSE IF \E k \in DOMAIN c : c[k] = i
     THEN LET k == CHOOSE k \in DOMAIN c : c[k] = i
          IN  IF k = Len(c) THEN 65535 ELSE c[k + 1]
     ELSE 0]

Directories(t) ==
  { <<t>>, <<Unused, t, Second>>, <<Deleted, Long, Empty, t>>,
    <<Empty, Deleted, t>>, <<Long, Unused, Deleted>> }

MCImage ==
  UNION { UNION { {[dir |-> d, fat |-> Fat(c)] : d \in Directories(Target(c, n))} :
                  c \in Chains(ClustersFor(n)) } : n \in 0 .. MaxFileSize }

\* All strings of up to five of these characters, and some with the byte that
\* marks a deleted file or with blanks.
MCPath ==
  BoundedSeq({"A", ".", "/"}, 5)
    \cup {<<"E5", "A", ".", "A">>, <<"E5", "A">>, <<"E5">>}
    \cup {<<"A", " ", ".", "A">>, <<"A", " ", "A">>, <<"A", "A", ".", " ">>, <<" ", "A">>}
=============================================================================
