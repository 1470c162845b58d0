---------------------------- MODULE MCElfSymbols ----------------------------
(***************************************************************************)
(* ElfSymbols for TLC.  The hashes make f and v share a bucket until the   *)
(* table has grown twice.                                                  *)
(***************************************************************************)
EXTENDS ElfSymbols

MCHash == [n \in Names \union Linker |->
    CASE n = "f" -> 0 [] n = "v" -> 2 [] n = "g" -> 1 [] n = "w" -> 4
      [] n = "_etext" -> 2 [] n = "_edata" -> 3 [] OTHER -> 6]

MCSize == [n \in Var |-> 2]
=============================================================================
