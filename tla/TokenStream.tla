----------------------------- MODULE TokenStream -----------------------------
(***************************************************************************)
(* The tokens the parser of src/generic/tcc.c gets: next and unget_tok,    *)
(* and the strings of tokens that are read in the place of the file: the   *)
(* expansion of a macro, the unget buffer, an initializer that is read     *)
(* twice and an inline function that is compiled at the end of the unit.   *)
(* macro_ptr is a static; an error leaves it, and what belongs to it, as   *)
(* they are.  What the parser does with the tokens is left open.           *)
(***************************************************************************)
EXTENDS MacroSubst

CONSTANTS
    Wide,       \* the constants with two words of value, in Punctuators
    Programs,   \* the programs: macros, source, and the tokens they mean
    MaxUnits    \* bound: the units compiled, all of the same program

ASSUME TokenStreamAssumption ==
    /\ MaxUnits \in Nat /\ Wide \subseteq Punctuators
    /\ \A p \in Programs : DOMAIN p = {"defs", "source", "means"}

VARIABLES
    program,    \* the one that is compiled
    st,         \* the statics
    phase,      \* what the parser reads
    inline,     \* the static inline functions that were recorded
    compiling,  \* in the middle of a unit
    units,      \* units begun
    failed,     \* history: a unit has failed
    n           \* history: the place of tok in what the program means

vars == <<program, st, phase, inline, compiling, units, failed, n>>

(* macro_ptr: the string it points to (body: of a macro, where an error    *)
(* has left it) and what is left of it.                                    *)
Reading(from, rest) == [from |-> from, rest |-> rest]
File == Reading("file", <<>>)

(* kind: unit, or the initializer (size, fill) or function (inline) that   *)
(* is read; str: its tokens; saved: the ParseState; start: its place.      *)
Phase(kind, str, start) == [kind |-> kind, str |-> str, saved |-> <<>>, start |-> start]
Unit == Phase("unit", <<>>, 0)

(* stale: the third word of unget_saved_buffer is not 0.                   *)
Init ==
    /\ program \in Programs
    /\ st = [file |-> <<>>, macro_ptr |-> File, allocated |-> "none", tok |-> Eof,
             unget_buffer_enabled |-> FALSE, unget_saved |-> File, stale |-> FALSE, twice |-> FALSE]
    /\ phase = Unit /\ inline = <<>>
    /\ compiling = FALSE /\ units = 0 /\ failed = FALSE /\ n = 0

---------------------------------------------------------------------------
(* Mutant: the expansion is freed at the end of the unget buffer too.      *)
EndOfString_free(g) ==
    IF g.unget_buffer_enabled
    THEN [g EXCEPT !.macro_ptr = g.unget_saved, !.unget_buffer_enabled = FALSE, !.allocated = "freed"]
    ELSE [g EXCEPT !.macro_ptr = File, !.twice = @ \/ g.allocated = "freed",
                   !.allocated = IF @ = "live" THEN "freed" ELSE @]

(* At the end of a string: of the unget buffer, or of another one, which   *)
(* is taken for the expansion.  twice: it was freed before.                *)
EndOfString(g) ==
    IF g.unget_buffer_enabled THEN [g EXCEPT !.macro_ptr = g.unget_saved, !.unget_buffer_enabled = FALSE]
    ELSE [g EXCEPT !.macro_ptr = File, !.twice = @ \/ g.allocated = "freed",
                   !.allocated = IF @ = "live" THEN "freed" ELSE @]

(* The token u of the file, or its expansion if it is a macro.             *)
expansion(u) ==
    IF u.tok \in DOMAIN program.defs THEN macro_subst_tok(program.defs, u, u.tok, {}, TRUE) ELSE u

(* next.  tok is error, or hang, if macro_subst_tok did not return; it is  *)
(* unsupported if unget_tok has stopped.                                   *)
RECURSIVE next(_)
Read(g, e) ==
    CASE e.status # "ok" ->
           [g EXCEPT !.tok = e.status, !.file = e.file,
                     !.macro_ptr = IF e.macro_ptr = Null THEN File ELSE Reading("body", e.macro_ptr[1])]
      [] e.status = "ok" /\ ~e.subst -> [g EXCEPT !.tok = e.tok, !.file = e.file]
      [] OTHER -> next([g EXCEPT !.file = e.file, !.macro_ptr = Reading("expansion", e.out), !.allocated = "live"])
next(g) ==
    IF g.macro_ptr.from = "file" THEN Read(g, expansion(next_nomacro(Stream(g.file))))
    ELSE IF g.macro_ptr.rest = <<>> THEN next(EndOfString(g))
    ELSE [g EXCEPT !.tok = Head(g.macro_ptr.rest), !.macro_ptr.rest = Tail(@)]

(* unget_tok writes no flags, and TOK_GET reads them: the end mark is read *)
(* as those of a token that is one word, and the word behind it as the     *)
(* end.  A string token has no room (tok_ext_size).                        *)
unget_tok(g, last_tok) ==
    LET read == CASE g.tok \in Wide -> <<"garbled">> [] g.tok \notin Wide /\ g.stale -> <<g.tok, "garbled">>
                  [] OTHER -> <<g.tok>>
    IN [g EXCEPT !.tok = IF g.tok \in Idents \union Punctuators \union {Eof} THEN last_tok ELSE "unsupported",
                 !.unget_buffer_enabled = TRUE, !.unget_saved = g.macro_ptr,
                 !.macro_ptr = Reading("unget", read), !.stale = @ \/ g.tok \in Wide]

Stopped(g) == g.tok \in {"error", "hang", "unsupported"}

---------------------------------------------------------------------------
(* A unit begins; where the body of a macro was left, it has been freed.   *)
tcc_compile ==
    /\ ~compiling /\ inline = <<>> /\ phase = Unit /\ units < MaxUnits
    /\ st.macro_ptr.from # "body"
    /\ st' = next([st EXCEPT !.file = program.source])
    /\ compiling' = TRUE /\ units' = units + 1 /\ n' = 1
    /\ UNCHANGED <<program, phase, inline, failed>>

Parses == ~Stopped(st) /\ (compiling \/ phase.kind = "inline")

(* The parser goes on.                                                     *)
advance ==
    /\ Parses /\ st.tok # Eof
    /\ st' = next(st) /\ n' = n + 1
    /\ UNCHANGED <<program, phase, inline, compiling, units, failed>>

(* Of an identifier, at the beginning of a statement: it was not tested    *)
(* before, nor was an identifier before it.                                *)
is_label ==
    LET g == next(st)
    IN /\ Parses /\ st.tok \in Idents /\ st.macro_ptr.from # "unget"
       /\ IF ~Stopped(g) /\ g.tok = ":" THEN st' = next(g) /\ n' = n + 2
          ELSE st' = (IF Stopped(g) THEN g ELSE unget_tok(g, st.tok)) /\ UNCHANGED n
       /\ UNCHANGED <<program, phase, inline, compiling, units, failed>>

(* The tokens from tok on, of a function, or of an initializer to the , or *)
(* ; that follows it.                                                      *)
RECURSIVE Recorded(_, _, _, _, _)
Recorded(g, function, level, str, last) ==
    LET open == CASE g.tok = "{" -> level + 1 [] g.tok = "}" -> level - 1 [] OTHER -> level
        end == last \/ (~function /\ (open < 0 \/ (level = 0 /\ g.tok \in {",", ";"})))
    IN IF Stopped(g) \/ end THEN [g |-> g, str |-> str]
       ELSE IF g.tok = Eof THEN [g |-> [g EXCEPT !.tok = "error"], str |-> str]
       ELSE Recorded(next(g), function, open, Append(str, g.tok), function /\ g.tok = "}" /\ open = 0)

(* An initializer of an object of unknown size: read for the size, then to *)
(* fill it, and both times to its end.                                     *)
initializer ==
    LET r == Recorded(st, FALSE, 0, <<>>, FALSE)
        str == Append(r.str, Eof)
    IN /\ Parses /\ phase.kind = "unit" /\ st.tok = "{"
       /\ IF Stopped(r.g) THEN st' = r.g /\ UNCHANGED phase
          ELSE /\ st' = next([r.g EXCEPT !.macro_ptr = Reading("initializer", str)])
               /\ phase' = [Phase("size", str, n) EXCEPT !.saved = <<r.g.macro_ptr, r.g.tok>>]
       /\ UNCHANGED <<program, inline, compiling, units, failed, n>>
second_parsing ==
    /\ Parses /\ phase.kind = "size" /\ st.tok = Eof
    /\ st' = next([st EXCEPT !.macro_ptr = Reading("initializer", phase.str)])
    /\ phase' = [phase EXCEPT !.kind = "fill"] /\ n' = phase.start
    /\ UNCHANGED <<program, inline, compiling, units, failed>>
restore_parse_state ==
    /\ Parses /\ phase.kind = "fill" /\ st.tok = Eof
    /\ st' = [st EXCEPT !.macro_ptr = phase.saved[1], !.tok = phase.saved[2]]
    /\ phase' = Unit
    /\ UNCHANGED <<program, inline, compiling, units, failed, n>>

(* decl, at the body of a static inline function.                          *)
record_inline ==
    LET r == Recorded(st, TRUE, 0, <<>>, FALSE)
    IN /\ Parses /\ phase.kind = "unit" /\ st.tok = "{"
       /\ st' = r.g
       /\ IF Stopped(r.g) THEN UNCHANGED <<inline, n>>
          ELSE inline' = Append(inline, [str |-> Append(r.str, Eof), start |-> n]) /\ n' = n + Len(r.str)
       /\ UNCHANGED <<program, phase, compiling, units, failed>>

(* The end of a unit, and an error anywhere in it.                         *)
end_of_file ==
    /\ Parses /\ phase.kind = "unit" /\ st.tok = Eof
    /\ compiling' = FALSE
    /\ UNCHANGED <<program, st, phase, inline, units, failed, n>>
tcc_error ==
    /\ compiling /\ st.tok # "hang"
    /\ compiling' = FALSE /\ failed' = TRUE /\ phase' = Unit
    /\ UNCHANGED <<program, st, inline, units, n>>

(* gen_inline_functions: of the functions that are used.                   *)
gen_inline ==
    /\ ~compiling /\ inline # <<>> /\ phase = Unit
    /\ inline' = Tail(inline)
    /\ \/ /\ st' = next([st EXCEPT !.macro_ptr = Reading("inline", inline[1].str)])
          /\ phase' = Phase("inline", inline[1].str, inline[1].start) /\ n' = inline[1].start
       \/ UNCHANGED <<st, phase, n>>
    /\ UNCHANGED <<program, compiling, units, failed>>
end_inline ==
    /\ Parses /\ phase.kind = "inline" /\ st.tok = Eof
    /\ st' = [st EXCEPT !.macro_ptr = File]
    /\ phase' = Unit
    /\ UNCHANGED <<program, inline, compiling, units, failed, n>>

Next ==
    \/ tcc_compile \/ advance \/ is_label \/ initializer \/ second_parsing \/ restore_parse_state
    \/ record_inline \/ end_of_file \/ tcc_error \/ gen_inline \/ end_inline

Spec == Init /\ [][Next]_vars

---------------------------------------------------------------------------
(* The token that the program means at this place; Eof ends a string that  *)
(* is read again.                                                          *)
Meant == IF phase.str # <<>> /\ n - phase.start = Len(phase.str) - 1 THEN Eof ELSE program.means[n]

(* The parser gets the tokens of a standard preprocessor, each once and in *)
(* order, until an error: no macro is expanded inside itself or left where *)
(* it should not be, the arguments of a call are found in the texts around *)
(* it, and what is put back or read again does not lose, repeat or change  *)
(* a token (macro_subst, next, unget_tok, restore_parse_state).            *)
Delivered ==
    (compiling \/ phase.kind = "inline") /\ ~failed => st.tok \in {Meant, "unsupported"}

(* Also after an error: a unit reads its own tokens, and nothing that an   *)
(* earlier one has left (tcc_compile).                                     *)
OwnTokens == (compiling \/ phase.kind = "inline") => st.tok = Meant

(* What macro_ptr, and its saved values, point to was not freed, and no    *)
(* expansion is freed twice (next, decl_initializer_alloc).                *)
Live ==
    LET Alive(r) ==
            /\ r.from = "expansion" => st.allocated = "live"
            /\ r.from = "initializer" => phase.kind \in {"size", "fill"}
            /\ r.from = "inline" => phase.kind = "inline"
    IN ~failed =>
          /\ ~st.twice /\ Alive(st.macro_ptr)
          /\ st.unget_buffer_enabled => Alive(st.unget_saved)
          /\ phase.saved # <<>> => Alive(phase.saved[1])
=============================================================================
