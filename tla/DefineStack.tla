---------------------------- MODULE DefineStack ----------------------------
(***************************************************************************)
(* The macro definitions of src/generic/tcc.c: the token table             *)
(* (table_ident, tok_ident), the stack of definitions (define_stack) and   *)
(* the pointer each token has to its definition (TokenSym.sym_define).     *)
(* All three are statics of the process: every handle shares them.         *)
(*                                                                         *)
(* A name is its token number less TOK_IDENT, so 1 .. Keywords are the     *)
(* words of tcctok.h and a name met for the first time gets number         *)
(* tok_ident + 1.  A Sym of the stack is its position, counted from the    *)
(* bottom, and 0 is the null pointer.                                      *)
(***************************************************************************)
EXTENDS Integers, Sequences, FiniteSets

CONSTANTS
    Dummies,    \* special macros defined without a body: __LINE__, __FILE__...
    Keywords,   \* keywords, the special macros among them
    Standard,   \* standard defines of tcc_new: __STDC__, __TINYC__...
    MaxTok,     \* bound: token numbers
    MaxStack,   \* bound: definitions and parameters on the stack
    MaxParams,  \* bound: parameters of a function-like macro
    MaxLive     \* bound: handles at a time

ASSUME DefineAssumption ==
    /\ Dummies \in Nat /\ Keywords \in Nat /\ Standard \in Nat
    /\ MaxTok \in Nat /\ MaxStack \in Nat /\ MaxParams \in Nat /\ MaxLive \in Nat
    /\ Dummies <= Keywords
    /\ Keywords + Standard <= MaxTok

VARIABLES
    tok_ident,      \* how many names the token table holds
    define_stack,   \* the definitions, the newest last
    sym_define,     \* for every token, the definition it has now
    define_start,   \* height of the stack when the open unit began (0 outside)
    defining,       \* the #define being parsed, or NoDefine
    mode,           \* what the process is doing
    live,           \* handles that exist
    at_start,       \* history: sym_define when the open unit began
    defined,        \* history: names the open unit has #defined
    undefined,      \* history: names the open unit has #undefd
    table_base      \* history: height of the stack when the table was made

vars == <<tok_ident, define_stack, sym_define, define_start, defining, mode,
          live, at_start, defined, undefined, table_base>>

Tok == 1 .. MaxTok
Ptr == 0 .. MaxStack
Units == {"compile", "assemble"}

(* A Sym of the stack: the token (0 once undefined), whether it is the     *)
(* parameter of a macro (its v carries SYM_FIELD), and the parameters.     *)
Sym == [v : 0 .. MaxTok, field : BOOLEAN, params : SUBSET Ptr]

NoDefine == [v |-> 0, params |-> {}]
Defining == [v : 0 .. MaxTok, params : SUBSET Ptr]

Height == Len(define_stack)

(* A name the table has, or the one it would allocate next.                *)
Nameable == {n \in Tok : n <= tok_ident + 1}
(* Mutant: a name is never found again.                                     *)
TokAlloc_forgets(n) == tok_ident' = tok_ident + 1

TokAlloc(n) == tok_ident' = IF n > tok_ident THEN n ELSE tok_ident

define_find(n) == sym_define[n]

-----------------------------------------------------------------------------
(* tcc_new makes a new token table and pushes the built-in macros: the     *)
(* dummies are keywords, the standard defines are the names after them.    *)
(* The stack itself is not reset.                                          *)
Builtins == Dummies + Standard
BuiltinTok(i) == IF i <= Dummies THEN i ELSE Keywords + (i - Dummies)
BuiltinSyms == [i \in 1 .. Builtins |->
                  [v |-> BuiltinTok(i), field |-> FALSE, params |-> {}]]
BuiltinDefine(n) ==
    IF n <= Dummies THEN Height + n
    ELSE IF n > Keywords /\ n <= Keywords + Standard
         THEN Height + Dummies + (n - Keywords)
         ELSE 0

Init ==
    /\ tok_ident = 0
    /\ define_stack = << >>
    /\ sym_define = [n \in Tok |-> 0]
    /\ define_start = 0
    /\ defining = NoDefine
    /\ mode = "idle"
    /\ live = 0
    /\ at_start = [n \in Tok |-> 0]
    /\ defined = {} /\ undefined = {}
    /\ table_base = 0

(* Mutant: a new table keeps the definitions of the old one's numbers.      *)
tcc_new_keeps ==
    /\ mode = "idle" /\ defining = NoDefine
    /\ live < MaxLive /\ Height + Builtins <= MaxStack
    /\ live' = live + 1
    /\ tok_ident' = Keywords + Standard
    /\ define_stack' = define_stack \o BuiltinSyms
    /\ sym_define' = [n \in Tok |->
                        IF BuiltinDefine(n) # 0 THEN BuiltinDefine(n) ELSE sym_define[n]]
    /\ table_base' = Height
    /\ UNCHANGED <<define_start, defining, mode, at_start, defined, undefined>>

tcc_new ==
    /\ mode = "idle" /\ defining = NoDefine
    /\ live < MaxLive /\ Height + Builtins <= MaxStack
    /\ live' = live + 1
    /\ tok_ident' = Keywords + Standard
    /\ define_stack' = define_stack \o BuiltinSyms
    /\ sym_define' = [n \in Tok |-> BuiltinDefine(n)]
    /\ table_base' = Height
    /\ UNCHANGED <<define_start, defining, mode, at_start, defined, undefined>>

(* free_defines pops to height b and takes the definition from the token   *)
(* of every Sym it pops, whichever definition that token has.              *)
Popped(b) == {define_stack[i].v :
                i \in {j \in 1 .. Height : j > b /\ ~define_stack[j].field}}

(* Mutant: pops without clearing the tokens.                               *)
free_defines_dangling(b) ==
    /\ define_stack' = SubSeq(define_stack, 1, b)
    /\ UNCHANGED sym_define

free_defines(b) ==
    /\ define_stack' = SubSeq(define_stack, 1, b)
    /\ sym_define' = [n \in Tok |->
                        IF n \in Popped(b) /\ n <= tok_ident THEN 0 ELSE sym_define[n]]

(* The command of a handle is deleted.  A handle whose output is memory    *)
(* keeps its state, any other calls tcc_delete, which frees every define.  *)
Forget ==
    /\ mode = "idle" /\ defining = NoDefine
    /\ live > 0
    /\ live' = live - 1
    /\ UNCHANGED <<tok_ident, define_stack, sym_define, define_start, defining,
                   mode, at_start, defined, undefined, table_base>>

tcc_delete ==
    /\ mode = "idle" /\ defining = NoDefine
    /\ live > 0
    /\ live' = live - 1
    /\ free_defines(0)
    /\ table_base' = 0
    /\ UNCHANGED <<tok_ident, define_start, defining, mode, at_start, defined,
                   undefined>>

-----------------------------------------------------------------------------
(* Mutant: forgets what is below the unit.                                 *)
Open_unmarked(u) ==
    /\ mode = "idle" /\ defining = NoDefine /\ live > 0
    /\ mode' = u
    /\ define_start' = 0
    /\ at_start' = sym_define
    /\ UNCHANGED <<tok_ident, define_stack, sym_define, defining, live, defined,
                   undefined, table_base>>

(* A translation unit: tcc_compile for C, tcc_assemble for a .S file.      *)
Open(u) ==
    /\ mode = "idle" /\ defining = NoDefine /\ live > 0
    /\ mode' = u
    /\ define_start' = Height
    /\ at_start' = sym_define
    /\ UNCHANGED <<tok_ident, define_stack, sym_define, defining, live, defined,
                   undefined, table_base>>

(* Mutant: an error leaves the #define it interrupts half parsed.          *)
Close_halfway ==
    /\ mode \in Units
    /\ mode' = "idle"
    /\ free_defines(define_start)
    /\ define_start' = 0
    /\ at_start' = [n \in Tok |-> 0] /\ defined' = {} /\ undefined' = {}
    /\ UNCHANGED <<tok_ident, defining, live, table_base>>

Close ==
    /\ mode \in Units
    /\ mode' = "idle"
    /\ defining' = NoDefine
    /\ free_defines(define_start)
    /\ define_start' = 0
    /\ at_start' = [n \in Tok |-> 0] /\ defined' = {} /\ undefined' = {}
    /\ UNCHANGED <<tok_ident, live, table_base>>

(* The end of the unit, reached between two directives.                    *)
EndOfFile == defining = NoDefine /\ Close

(* exit(1): what the process held is gone.                                 *)
Exit ==
    /\ mode' = "exit"
    /\ tok_ident' = 0 /\ define_stack' = << >> /\ sym_define' = [n \in Tok |-> 0]
    /\ define_start' = 0 /\ defining' = NoDefine /\ live' = 0
    /\ at_start' = [n \in Tok |-> 0] /\ defined' = {} /\ undefined' = {}
    /\ table_base' = 0

(* tcc_error: under tcc_compile it jumps back to tcc_compile, which goes   *)
(* on as at the end of the unit; anywhere else the process exits.          *)
tcc_error ==
    \/ mode = "compile" /\ Close
    \/ /\ mode = "assemble" \/ (mode = "idle" /\ defining # NoDefine)
       /\ Exit

(* #define in a unit, or tcc_define_symbol (the command "define") outside: *)
(* parse_define reads the name and pushes the parameters one by one.       *)
parse_define(n) ==
    /\ mode # "exit" /\ defining = NoDefine /\ live > 0
    /\ n \in Nameable
    /\ TokAlloc(n)
    /\ defining' = [v |-> n, params |-> {}]
    /\ UNCHANGED <<define_stack, sym_define, define_start, mode, live, at_start,
                   defined, undefined, table_base>>

parse_param(n) ==
    /\ mode # "exit" /\ defining # NoDefine
    /\ Height < MaxStack /\ Cardinality(defining.params) < MaxParams
    /\ n \in Nameable
    /\ TokAlloc(n)
    /\ define_stack' = Append(define_stack, [v |-> n, field |-> TRUE, params |-> {}])
    /\ defining' = [defining EXCEPT !.params = @ \union {Height + 1}]
    /\ UNCHANGED <<sym_define, define_start, mode, live, at_start, defined,
                   undefined, table_base>>

(* Mutant: the next macro inherits the parameters.                         *)
define_push_shares ==
    /\ mode # "exit" /\ defining # NoDefine
    /\ Height < MaxStack
    /\ define_stack' = Append(define_stack,
            [v |-> defining.v, field |-> FALSE, params |-> defining.params])
    /\ sym_define' = [sym_define EXCEPT ![defining.v] = Height + 1]
    /\ UNCHANGED <<tok_ident, define_start, defining, mode, live, at_start,
                   defined, undefined, table_base>>

(* define_push, once the body has been read.                               *)
define_push ==
    /\ mode # "exit" /\ defining # NoDefine
    /\ Height < MaxStack
    /\ define_stack' = Append(define_stack,
            [v |-> defining.v, field |-> FALSE, params |-> defining.params])
    /\ sym_define' = [sym_define EXCEPT ![defining.v] = Height + 1]
    /\ defining' = NoDefine
    /\ defined' = IF mode \in Units THEN defined \union {defining.v} ELSE defined
    /\ UNCHANGED <<tok_ident, define_start, mode, live, at_start, undefined, table_base>>

(* Mutant: the name keeps the Sym that lost it.                            *)
define_undef_keeps(n) ==
    /\ mode # "exit" /\ defining = NoDefine /\ live > 0
    /\ n \in Nameable
    /\ TokAlloc(n)
    /\ define_stack' = IF define_find(n) = 0 THEN define_stack
                       ELSE [define_stack EXCEPT ![define_find(n)].v = 0]
    /\ undefined' = IF mode \in Units THEN undefined \union {n} ELSE undefined
    /\ UNCHANGED <<sym_define, define_start, defining, mode, live, at_start,
                   defined, table_base>>

(* #undef, and tcc_undefine_symbol: the Sym stays with an invalid name.    *)
define_undef(n) ==
    /\ mode # "exit" /\ defining = NoDefine /\ live > 0
    /\ n \in Nameable
    /\ TokAlloc(n)
    /\ define_stack' = IF define_find(n) = 0 THEN define_stack
                       ELSE [define_stack EXCEPT ![define_find(n)].v = 0]
    /\ sym_define' = [sym_define EXCEPT ![n] = 0]
    /\ undefined' = IF mode \in Units THEN undefined \union {n} ELSE undefined
    /\ UNCHANGED <<define_start, defining, mode, live, at_start, defined, table_base>>

Next ==
    \/ tcc_new \/ Forget \/ tcc_delete
    \/ \E u \in Units : Open(u)
    \/ EndOfFile \/ tcc_error
    \/ \E n \in Tok : parse_define(n) \/ parse_param(n) \/ define_undef(n)
    \/ define_push

Spec == Init /\ [][Next]_vars

-----------------------------------------------------------------------------
(* Type invariant.                                                         *)
TypeOK ==
    /\ tok_ident \in 0 .. MaxTok
    /\ define_stack \in Seq(Sym) /\ Height <= MaxStack
    /\ sym_define \in [Tok -> Ptr]
    /\ define_start \in Ptr
    /\ defining \in Defining
    /\ mode \in {"idle", "exit"} \union Units
    /\ live \in 0 .. MaxLive
    /\ at_start \in [Tok -> Ptr]
    /\ defined \subseteq Tok /\ undefined \subseteq Tok
    /\ table_base \in Ptr

(* The definition a name has is on the stack under that name, and no newer *)
(* definition of the name hides it: free_defines, define_undef and tcc_new *)
(* never leave a token with a freed, renamed or outdated Sym.              *)
DefinesLive ==
    \A n \in Tok : sym_define[n] # 0 =>
        /\ sym_define[n] <= Height
        /\ define_stack[sym_define[n]].v = n
        /\ ~define_stack[sym_define[n]].field
        /\ \A i \in sym_define[n] + 1 .. Height :
              define_stack[i].v = n => define_stack[i].field

(* The parameters of a macro that can be expanded are Syms of parameters   *)
(* older than the macro, so free_defines frees no parameter before its     *)
(* macro, also when an error ends the unit in the middle of a #define.     *)
ParamsBelow ==
    \A n \in Tok : sym_define[n] # 0 =>
        \A p \in define_stack[sym_define[n]].params :
            p # 0 /\ p < sym_define[n] /\ define_stack[p].field

(* No two macros share a parameter.                                        *)
ParamsOwned ==
    \A i, j \in 1 .. Height :
        i # j => define_stack[i].params \intersect define_stack[j].params = {}

(* Token numbers start again with every handle and the stack does not: a   *)
(* macro of an older table is never found under a name of the present one. *)
OwnTable ==
    \A n \in Tok : sym_define[n] # 0 => n <= tok_ident /\ sym_define[n] > table_base

(* What a unit did to the macros ends with it, by an error or not: a name  *)
(* it neither #defined nor #undefd has the very definition it had before,  *)
(* and none of the others is a macro: a -D symbol that the unit defines    *)
(* again is lost with it (the end of tcc_compile).                         *)
UnitFrame ==
    [][(mode \in Units /\ mode' = "idle") =>
          \A n \in Tok : sym_define'[n] =
              IF n \in defined \union undefined THEN 0 ELSE at_start[n]]_vars

(* The abstract macro table this module implements.                        *)
Macros == INSTANCE MacroEnv WITH
    Names <- Tok,
    env <- {n \in Tok : sym_define[n] # 0},
    touched <- defined \union undefined,
    scope <- mode
MacroEnvSpec == Macros!Spec
=============================================================================
