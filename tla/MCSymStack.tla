----------------------------- MODULE MCSymStack -----------------------------
(***************************************************************************)
(* SymStack for TLC: the addresses of Syms are interchangeable, and so are *)
(* the names.                                                              *)
(***************************************************************************)
EXTENDS SymStack, TLC

Symmetry == Permutations(Addr) \union Permutations(Names)
=============================================================================
