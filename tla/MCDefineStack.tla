--------------------------- MODULE MCDefineStack ---------------------------
(***************************************************************************)
(* DefineStack for TLC: one keyword, one standard define and one name of   *)
(* the user; two handles; room for a redefinition of a macro, with a       *)
(* parameter, above what two handles have built in.                        *)
(***************************************************************************)
EXTENDS DefineStack
=============================================================================
