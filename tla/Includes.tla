------------------------------ MODULE Includes ------------------------------
(***************************************************************************)
(* Conditionals and #include in src/generic/tcc.c: preprocess,             *)
(* preprocess_skip and the end of a file in next_nomacro1, with the stack  *)
(* of files, the stack of conditionals and the cache of guarded headers    *)
(* (cached_includes) that lets a second #include be skipped.               *)
(*                                                                         *)
(* A file is a sequence of lines and a step processes one.  Text stands    *)
(* for anything that makes a token.  The conditions are those of #ifdef    *)
(* and #ifndef; an #elif tests whether a macro is defined.                 *)
(***************************************************************************)
EXTENDS Integers, Sequences, FiniteSets

CONSTANTS
    Macros,             \* names that may be macros
    Headers,            \* files that may be included
    Main,               \* the file that is compiled
    Sources,            \* the contents the files may have
    INCLUDE_STACK_SIZE, \* room on include_stack
    IFDEF_STACK_SIZE,   \* room on ifdef_stack
    MaxUnits            \* bound: units compiled

NoMacro == "no macro"       \* token 0
Junk == "junk"              \* what malloc returns
Files == Headers \union {Main}

Line == [d : {"text", "else", "endif"}]
          \union [d : {"define", "undef", "ifdef", "ifndef", "elif"}, m : Macros]
          \union [d : {"include"}, c : {"quote", "angle"}, name : Headers]

ASSUME IncludeAssumption ==
    /\ Main \notin Headers /\ NoMacro \notin Macros /\ Junk \notin Macros
    /\ Sources \subseteq [Files -> Seq(Line)]
    /\ INCLUDE_STACK_SIZE \in Nat /\ IFDEF_STACK_SIZE \in Nat /\ MaxUnits \in Nat \ {0}

VARIABLES
    lines,          \* the files: they do not change
    file,           \* the file being read
    include_stack,  \* the files that include it, the innermost last
    ifdef_stack,    \* the conditionals that are open, the innermost last
    next_tok_flags, \* BOF, ENDIF
    cached,         \* cached_includes: the macro that guards a header
    defined,        \* the names that are macros
    mode,           \* what the compiler is doing
    output,         \* the text that has reached the parser
    units           \* how many units have begun

vars == <<lines, file, include_stack, ifdef_stack, next_tok_flags, cached, defined,
          mode, output, units>>

(* ifdef_stack_ptr of a file is how many conditionals were open around it; *)
(* inc_type how its #include was written, which is part of the cache's key.*)
Types == {"quote", "angle"}
File == [name : Files, inc_type : Types, pos : Nat \ {0}, ifdef_stack_ptr : Nat,
         ifndef_macro : Macros \union {NoMacro},
         ifndef_macro_saved : Macros \union {Junk}]

tcc_open(f, c) == [name |-> f, inc_type |-> c, pos |-> 1, ifdef_stack_ptr |-> Len(ifdef_stack),
                   ifndef_macro |-> NoMacro, ifndef_macro_saved |-> Junk]

Start == [name |-> Main, inc_type |-> "quote", pos |-> 1, ifdef_stack_ptr |-> 0,
          ifndef_macro |-> NoMacro, ifndef_macro_saved |-> Junk]

Init ==
    /\ lines \in Sources
    /\ file = Start
    /\ include_stack = << >> /\ ifdef_stack = << >>
    /\ next_tok_flags = {"BOF"}
    /\ cached = {} /\ defined = {}
    /\ mode = "read" /\ output = << >> /\ units = 1

-----------------------------------------------------------------------------
Length(f) == Len(lines[f])
AtEnd == file.pos > Length(file.name)
Here == lines[file.name][file.pos]
At(d) == mode = "read" /\ ~AtEnd /\ Here.d = d

Opens(i) == lines[file.name][i].d \in {"ifdef", "ifndef"}
Closes(i) == lines[file.name][i].d = "endif"

(* preprocess_skip from a line: to the #else, #elif or #endif of the same  *)
(* conditional, which is processed next.                                   *)
SameLevel(p, q) == Cardinality({i \in p .. q - 1 : Opens(i)})
                     = Cardinality({i \in p .. q - 1 : Closes(i)})
SkipStops(p) == {q \in p .. Length(file.name) :
                    /\ lines[file.name][q].d \in {"else", "elif", "endif"}
                    /\ SameLevel(p, q)}

(* A directive has been read.  Its tokens clear the flags.                 *)
Advance(f) == file' = [f EXCEPT !.pos = @ + 1]

(* Mutant: stays at the directive.                                          *)
Skip_stays(f) == file' = f /\ UNCHANGED mode

Skip(f) ==
    LET stops == SkipStops(f.pos + 1)
    IN  IF stops = {}
        THEN mode' = "error" /\ UNCHANGED file
        ELSE /\ file' = [f EXCEPT !.pos = CHOOSE q \in stops : \A r \in stops : q <= r]
             /\ UNCHANGED mode

(* test_skip: go on after the directive if bit 0 of c is set.              *)
TestSkip(f, c) == IF c % 2 = 1 THEN Advance(f) /\ UNCHANGED mode ELSE Skip(f)

Text ==
    /\ At("text")
    /\ output' = Append(output, <<file.name, file.pos>>)
    /\ Advance(file)
    /\ next_tok_flags' = {}
    /\ UNCHANGED <<lines, include_stack, ifdef_stack, cached, defined, mode, units>>

Directive(d) ==
    /\ At(d)
    /\ next_tok_flags' = {}
    /\ UNCHANGED <<lines, include_stack, cached, output, units>>

define ==
    /\ Directive("define")
    /\ defined' = defined \union {Here.m}
    /\ Advance(file)
    /\ UNCHANGED <<ifdef_stack, mode>>

undef ==
    /\ Directive("undef")
    /\ defined' = defined \ {Here.m}
    /\ Advance(file)
    /\ UNCHANGED <<ifdef_stack, mode>>

(* #ifdef and #ifndef.  An #ifndef at the beginning of a file may be the   *)
(* guard of the header.                                                    *)
Bit(b) == IF b THEN 1 ELSE 0

(* Mutant: no limit.                                                       *)
do_if_unbounded(f, c) == ifdef_stack' = Append(ifdef_stack, c) /\ TestSkip(f, c)

do_if(f, c) ==
    IF Len(ifdef_stack) < IFDEF_STACK_SIZE
    THEN ifdef_stack' = Append(ifdef_stack, c) /\ TestSkip(f, c)
    ELSE mode' = "error" /\ UNCHANGED <<ifdef_stack, file>>

ifdef ==
    /\ Directive("ifdef")
    /\ do_if(file, Bit(Here.m \in defined))
    /\ UNCHANGED defined

ifndef ==
    /\ Directive("ifndef")
    /\ do_if(IF "BOF" \in next_tok_flags THEN [file EXCEPT !.ifndef_macro = Here.m]
             ELSE file,
             Bit(Here.m \notin defined))
    /\ UNCHANGED defined

(* #else, #elif and #endif act on the innermost conditional; only #endif   *)
(* asks whether it is one of this file.  Bit 1: there has been an #else.   *)
Top == ifdef_stack[Len(ifdef_stack)]
SetTop(c) == ifdef_stack' = [ifdef_stack EXCEPT ![Len(ifdef_stack)] = c]
Fails == mode' = "error" /\ UNCHANGED <<ifdef_stack, file>>

(* Mutant: no #else after a branch that was taken.                         *)
else_taken ==
    /\ Directive("else")
    /\ IF ifdef_stack = << >> \/ (ifdef_stack # << >> /\ Top # 0) THEN Fails
       ELSE SetTop(3 - Top) /\ TestSkip(file, 3 - Top)
    /\ UNCHANGED defined

else ==
    /\ Directive("else")
    /\ IF ifdef_stack = << >> \/ (ifdef_stack # << >> /\ Top >= 2) THEN Fails
       ELSE SetTop(3 - Top) /\ TestSkip(file, 3 - Top)
    /\ UNCHANGED defined

elif ==
    /\ Directive("elif")
    /\ IF ifdef_stack = << >> \/ (ifdef_stack # << >> /\ Top > 1) THEN Fails
       ELSE IF Top = 1 THEN Skip(file) /\ UNCHANGED ifdef_stack
       ELSE LET c == Bit(Here.m \in defined) IN SetTop(c) /\ TestSkip(file, c)
    /\ UNCHANGED defined

(* Mutant: closes whatever is open.                                        *)
endif_crosses ==
    /\ At("endif")
    /\ IF ifdef_stack = << >>
       THEN mode' = "error" /\ UNCHANGED <<ifdef_stack, file>>
       ELSE /\ ifdef_stack' = SubSeq(ifdef_stack, 1, Len(ifdef_stack) - 1)
            /\ Advance(file)
            /\ UNCHANGED mode
    /\ next_tok_flags' = {}
    /\ UNCHANGED <<lines, include_stack, cached, defined, output, units>>

(* The #endif of the guard leaves its mark; whether it is at the end of    *)
(* the file shows when the end is reached with the mark still there.       *)
endif ==
    /\ At("endif")
    /\ IF Len(ifdef_stack) <= file.ifdef_stack_ptr
       THEN /\ mode' = "error"
            /\ next_tok_flags' = {}
            /\ UNCHANGED <<ifdef_stack, file>>
       ELSE /\ ifdef_stack' = SubSeq(ifdef_stack, 1, Len(ifdef_stack) - 1)
            /\ IF file.ifndef_macro # NoMacro /\ Len(ifdef_stack') = file.ifdef_stack_ptr
               THEN /\ Advance([file EXCEPT !.ifndef_macro_saved = file.ifndef_macro,
                                            !.ifndef_macro = NoMacro])
                    /\ next_tok_flags' = {"ENDIF"}
               ELSE /\ Advance(file)
                    /\ next_tok_flags' = {}
            /\ UNCHANGED mode
    /\ UNCHANGED <<lines, include_stack, cached, defined, output, units>>

(* #include.  A cached header whose guard is defined is skipped.  The      *)
(* files are in one directory, which is also an include path: "name" finds *)
(* the file before the test of the stack, <name> after it.                 *)
Same(e, f, c) == e.name = f /\ e.type = c
(* Mutant: whether the guard is defined or not.                            *)
Skipped_always(f, c) == \E e \in cached : Same(e, f, c)

Skipped(f, c) == \E e \in cached : Same(e, f, c) /\ e.ifndef_macro \in defined

Suspended == [file EXCEPT !.pos = @ + 1]

include ==
    /\ At("include")
    /\ IF Skipped(Here.name, Here.c)
       THEN /\ Advance(file) /\ next_tok_flags' = {}
            /\ UNCHANGED <<include_stack, mode>>
       ELSE IF Len(include_stack) < INCLUDE_STACK_SIZE
       THEN /\ include_stack' = Append(include_stack, Suspended)
            /\ file' = tcc_open(Here.name, Here.c)
            /\ next_tok_flags' = {"BOF"}
            /\ UNCHANGED mode
       ELSE /\ mode' = IF Here.c = "quote" THEN "undefined" ELSE "error"
            /\ next_tok_flags' = {}
            /\ UNCHANGED <<include_stack, file>>
    /\ UNCHANGED <<lines, ifdef_stack, cached, defined, output, units>>

(* The end of an included file.  Popping it leaves the flags as they are.  *)
Including == include_stack[Len(include_stack)]

add_cached_include(m) ==
    cached' = IF \E e \in cached : Same(e, file.name, file.inc_type) THEN cached
              ELSE cached \union {[type |-> file.inc_type, name |-> file.name,
                                   ifndef_macro |-> m]}

PopInclude ==
    /\ mode = "read" /\ AtEnd /\ include_stack # << >>
    /\ IF "ENDIF" \in next_tok_flags
       THEN IF file.ifndef_macro_saved = Junk
            THEN \E m \in Macros \union {NoMacro} : add_cached_include(m)
            ELSE add_cached_include(file.ifndef_macro_saved)
       ELSE UNCHANGED cached
    /\ file' = Including
    /\ include_stack' = SubSeq(include_stack, 1, Len(include_stack) - 1)
    /\ UNCHANGED <<lines, ifdef_stack, next_tok_flags, defined, mode, output, units>>

EndOfFile ==
    /\ mode = "read" /\ AtEnd /\ include_stack = << >>
    /\ mode' = "end"
    /\ UNCHANGED <<lines, file, include_stack, ifdef_stack, next_tok_flags, cached,
                   defined, output, units>>

(* The next unit of the handle: tcc_compile frees the macros, and          *)
(* preprocess_init empties the stacks.  The cache stays.                   *)
tcc_compile ==
    /\ mode \in {"end", "error"} /\ units < MaxUnits
    /\ file' = Start
    /\ include_stack' = << >> /\ ifdef_stack' = << >>
    /\ next_tok_flags' = {"BOF"}
    /\ defined' = {}
    /\ mode' = "read" /\ output' = << >> /\ units' = units + 1
    /\ UNCHANGED <<lines, cached>>

Next ==
    \/ Text \/ define \/ undef \/ ifdef \/ ifndef \/ else \/ elif \/ endif
    \/ include \/ PopInclude \/ EndOfFile \/ tcc_compile

Spec == Init /\ [][Next]_vars /\ WF_vars(Next)

-----------------------------------------------------------------------------
(* Type invariant.                                                         *)
TypeOK ==
    /\ lines \in [Files -> Seq(Line)]
    /\ file \in File
    /\ include_stack \in Seq(File) /\ Len(include_stack) <= INCLUDE_STACK_SIZE
    /\ ifdef_stack \in Seq(0 .. 3) /\ Len(ifdef_stack) <= IFDEF_STACK_SIZE
    /\ next_tok_flags \subseteq {"BOF", "ENDIF"}
    /\ cached \subseteq [type : Types, name : Headers, ifndef_macro : Macros \union {NoMacro}]
    /\ defined \subseteq Macros
    /\ mode \in {"read", "end", "error", "undefined"}
    /\ units \in 1 .. MaxUnits

(* A file's #endif never closes a conditional of the file that includes    *)
(* it: the conditionals of a file lie above those of its includers.        *)
Base(i) == IF i > Len(include_stack) THEN file.ifdef_stack_ptr
           ELSE include_stack[i].ifdef_stack_ptr
IfdefNested ==
    /\ \A i \in 1 .. Len(include_stack) : Base(i) <= Base(i + 1)
    /\ file.ifdef_stack_ptr <= Len(ifdef_stack)

(* The conditional a line of a file belongs to, and well-formed files.     *)
OpensIn(f, i) == lines[f][i].d \in {"ifdef", "ifndef"}
Owners(f, i) == {j \in 1 .. i - 1 :
    /\ OpensIn(f, j)
    /\ Cardinality({k \in j + 1 .. i - 1 : OpensIn(f, k)})
         = Cardinality({k \in j + 1 .. i - 1 : lines[f][k].d = "endif"})}
Owner(f, i) == CHOOSE j \in Owners(f, i) : \A k \in Owners(f, i) : k <= j
Of(f, d) == {i \in 1 .. Length(f) : lines[f][i].d \in d}

WellFormed(f) ==
    /\ \A i \in Of(f, {"else", "elif", "endif"}) : Owners(f, i) # {}
    /\ \A j \in Of(f, {"ifdef", "ifndef"}) :
          Cardinality({i \in Of(f, {"endif"}) : Owner(f, i) = j}) = 1
    /\ \A i \in Of(f, {"else"}) : \A k \in Of(f, {"else", "elif"}) :
          k > i => Owner(f, k) # Owner(f, i)

AllWellFormed == \A f \in Files : WellFormed(f)

(* Files that are well formed are refused only when they nest too deep.    *)
Accepted ==
    mode = "error" /\ AllWellFormed =>
        \/ Len(include_stack) = INCLUDE_STACK_SIZE
        \/ Len(ifdef_stack) = IFDEF_STACK_SIZE

(* Every unit comes to an end, whatever includes what.                     *)
Terminates == (mode = "read") ~> (mode # "read")

(* tcc.c:2049: "#include recursion too deep".  Recursion that is too deep  *)
(* for include_stack is an error, and nothing is pushed.                   *)
RecursionStops == mode # "undefined"

(* tcc.c:2146: "'#ifndef macro' was at the start of file. Now we check if  *)
(* an '#endif' is exactly at the end of file".  A header that is cached    *)
(* ends with its #endif.                                                   *)
EndifAtEnd ==
    \A e \in cached : Length(e.name) > 0 /\ lines[e.name][Length(e.name)].d = "endif"
=============================================================================
