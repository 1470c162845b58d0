---------------------------- MODULE MCLabelStack ----------------------------
(***************************************************************************)
(* LabelStack for TLC: two names, each possibly declared by a block, by a  *)
(* block in it and used in the function; addresses are interchangeable.    *)
(***************************************************************************)
EXTENDS LabelStack, TLC

Symmetry == Permutations(Addr) \union Permutations(Names)
=============================================================================
