----------------------------- MODULE MCHandle -----------------------------
(***************************************************************************)
(* Handle for TLC: the functions that the process does not define are      *)
(* interchangeable.                                                        *)
(***************************************************************************)
EXTENDS Handle, TLC

Symmetry == Permutations(Fn \ Extern)
=============================================================================
