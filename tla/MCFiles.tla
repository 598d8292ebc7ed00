------------------------------ MODULE MCFiles ------------------------------
(***************************************************************************)
(* Instances of Files for TLC: three process slots of two descriptors, a   *)
(* table of three FileDesc, one of which loading INIT.BIN uses up and the  *)
(* rest of which can run out, and two files: one fills its clusters        *)
(* exactly, the other does not.                                            *)
(***************************************************************************)
EXTENDS Files, TLC

CONSTANTS even, odd

MCFileSize == [f \in File |-> IF f = even THEN 4 ELSE 3]

Symmetry == Permutations(Proc)
=============================================================================
