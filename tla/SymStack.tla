------------------------------ MODULE SymStack ------------------------------
(***************************************************************************)
(* The identifiers of src/generic/tcc.c: global_stack and local_stack, the *)
(* pointer every token has to the innermost Sym of its name                *)
(* (TokenSym.sym_identifier), the chain from a Sym to the one it hides     *)
(* (prev_tok) and the pool all Syms come from.  They are statics of the    *)
(* process and outlive a compile that fails.                               *)
(*                                                                         *)
(* A unit is a sequence of file-scope declarations, function bodies with   *)
(* nested blocks, and static inline functions, whose tokens are recorded   *)
(* when met and compiled by gen_inline_functions at the end of the unit.   *)
(***************************************************************************)
EXTENDS Integers, Sequences, FiniteSets

CONSTANTS
    Names,          \* identifiers
    Addr,           \* the Syms of the pool
    NULL,           \* the null pointer
    MaxBlocks,      \* bound: blocks nested in a function
    MaxGlobals,     \* bound: Syms on global_stack
    MaxResidue      \* bound: units compiled once one has left locals behind

Anon == "anon"      \* v of a field or an anonymous Sym: not in the table

ASSUME SymAssumption ==
    /\ NULL \notin Addr /\ Anon \notin Names
    /\ MaxBlocks \in Nat /\ MaxGlobals \in Nat /\ MaxResidue \in Nat

VARIABLES
    sym,            \* the Syms
    free,           \* the Syms on the free list
    sym_identifier, \* for every name, its innermost Sym
    global_stack,   \* Syms of file scope, the newest last
    local_stack,    \* Syms of the function being compiled, the newest last
    blocks,         \* what each open block saved, the innermost last
    mode,           \* what the compiler is doing
    current,        \* the Sym of the function being defined
    resume,         \* where the end of a function leads
    scan,           \* gen_inline_functions: Syms it has still to visit
    generated,      \* gen_inline_functions: inline_generated
    declared,       \* history: names the unit has declared at file scope
    residue         \* history: units ended since local_stack was left not empty

vars == <<sym, free, sym_identifier, global_stack, local_stack, blocks, mode,
          current, resume, scan, generated, declared, residue>>

Ptr == Addr \union {NULL}

(* type: whether the Sym is a static inline function; used: c # 0, code    *)
(* refers to it; r of an inline function: its tokens, or anything else.    *)
Sym == [v : Names \union {Anon}, prev_tok : Ptr, type : {"plain", "inline"},
        used : BOOLEAN, r : {"tokens", "other"}]

Fresh(n) == [v |-> n, prev_tok |-> NULL, type |-> "plain", used |-> FALSE, r |-> "other"]

sym_find(n) == sym_identifier[n]

(* The saved state of a block: its local_stack, and (history) what every   *)
(* name meant when the block began.                                        *)
Block == [height : Nat, meaning : [Names -> Ptr]]

Idle ==
    /\ blocks = << >> /\ current = NULL /\ resume = "file"
    /\ scan = 0 /\ generated = FALSE /\ declared = {}

Init ==
    /\ sym = [a \in Addr |-> Fresh(Anon)]
    /\ free = Addr
    /\ sym_identifier = [n \in Names |-> NULL]
    /\ global_stack = << >> /\ local_stack = << >>
    /\ mode = "idle" /\ Idle
    /\ residue = 0

-----------------------------------------------------------------------------
(* sym_push2 of a Sym a for name n on one of the stacks, with sym_push's   *)
(* entry in the token table: the new Sym hides the present one.            *)
Hiding(n) == IF n = Anon THEN NULL ELSE sym_find(n)
Name(n, a) == IF n = Anon THEN sym_identifier ELSE [sym_identifier EXCEPT ![n] = a]

sym_push(n, type, a) ==
    /\ a \in free
    /\ free' = free \ {a}
    /\ sym' = [sym EXCEPT ![a] = [Fresh(n) EXCEPT !.prev_tok = Hiding(n), !.type = type]]
    /\ sym_identifier' = Name(n, a)
    /\ IF local_stack # << >>
       THEN /\ local_stack' = Append(local_stack, a)
            /\ UNCHANGED global_stack
       ELSE /\ Len(global_stack) < MaxGlobals
            /\ global_stack' = Append(global_stack, a)
            /\ UNCHANGED local_stack

(* sym_pop of a stack down to height h.  A name's entry is overwritten for *)
(* every Sym popped, so the oldest one decides: the name means again what  *)
(* that Sym hid.  The contents of a freed Sym are not kept: reading them   *)
(* through a pointer left to it is undefined (Undefined below).            *)
PoppedAt(stack, h, n) == {i \in h + 1 .. Len(stack) : sym[stack[i]].v = n}
(* Mutant: the first Sym popped decides.                                   *)
Oldest_not(I) == CHOOSE i \in I : \A j \in I : j <= i

Oldest(I) == CHOOSE i \in I : \A j \in I : i <= j

PoppedSyms(stack, h) == {stack[i] : i \in h + 1 .. Len(stack)}

sym_pop(stack, h) ==
    /\ free' = free \union PoppedSyms(stack, h)
    /\ sym' = [a \in Addr |-> IF a \in PoppedSyms(stack, h) THEN Fresh(Anon) ELSE sym[a]]
    /\ sym_identifier' = [n \in Names |->
            IF PoppedAt(stack, h, n) = {} THEN sym_identifier[n]
            ELSE sym[stack[Oldest(PoppedAt(stack, h, n))]].prev_tok]

-----------------------------------------------------------------------------
(* tcc_compile pushes the Sym of func_old_type before it reads the source. *)
tcc_compile ==
    /\ mode = "idle" /\ residue <= MaxResidue
    /\ \E a \in Addr : sym_push(Anon, "plain", a)
    /\ mode' = "file"
    /\ UNCHANGED <<blocks, current, resume, scan, generated, declared, residue>>

(* A typedef, variable or prototype at file scope; a parameter, a local    *)
(* variable, a typedef or an extern in a function.  The prototype of a     *)
(* static inline function pushes a Sym only for a name without meaning.    *)
declare(n, type) ==
    /\ mode \in {"file", "body"}
    /\ type = "inline" => sym_find(n) = NULL
    /\ \E a \in Addr : sym_push(n, type, a)
    /\ declared' = IF mode = "file" THEN declared \union {n} ELSE declared
    /\ UNCHANGED <<blocks, mode, current, resume, scan, generated, residue>>

(* Mutant: a call hides a local of the same name.                          *)
global_identifier_push_over(n, a) ==
    /\ a \in free
    /\ Len(global_stack) < MaxGlobals
    /\ free' = free \ {a}
    /\ sym_identifier' = Name(n, a)
    /\ global_stack' = Append(global_stack, a)

(* Both callers of global_identifier_push look the name up first and push  *)
(* only one that means nothing: the chain whose bottom it walks to is      *)
(* empty, and the new Sym hides nothing.                                   *)
global_identifier_push(n, a) ==
    /\ sym_find(n) = NULL
    /\ a \in free
    /\ Len(global_stack) < MaxGlobals
    /\ free' = free \ {a}
    /\ sym_identifier' = Name(n, a)
    /\ global_stack' = Append(global_stack, a)

(* decl on the head of a function definition; tokens only once recorded.   *)
function(n, type) ==
    /\ mode = "file"
    /\ \/ /\ sym_find(n) \in Addr \ free
          /\ current' = sym_find(n)
          /\ sym' = [sym EXCEPT ![sym_find(n)].type = type]
          /\ UNCHANGED <<free, sym_identifier, global_stack>>
       \/ \E a \in Addr :
             /\ global_identifier_push(n, a)
             /\ current' = a
             /\ sym' = [sym EXCEPT ![a] = [Fresh(n) EXCEPT !.type = type]]
    /\ declared' = declared \union {n}
    /\ mode' = IF type = "inline" THEN "record" ELSE "head"
    /\ UNCHANGED <<local_stack, blocks, resume, scan, generated, residue>>

(* All tokens of a static inline function, up to its last brace.           *)
record_inline ==
    /\ mode = "record"
    /\ sym' = [sym EXCEPT ![current].r = "tokens"]
    /\ current' = NULL
    /\ mode' = "file"
    /\ UNCHANGED <<free, sym_identifier, global_stack, local_stack, blocks,
                   resume, scan, generated, declared, residue>>

(* Mutant: a compiled inline function stays one.                           *)
gen_function_inline(f, a) ==
    /\ a \in free
    /\ free' = free \ {a}
    /\ sym' = [sym EXCEPT ![f].used = TRUE, ![a] = Fresh(Anon)]
    /\ local_stack' = Append(local_stack, a)
    /\ mode' = "body"
    /\ UNCHANGED <<sym_identifier, global_stack>>

(* gen_function gives the Sym its code, in r and c, and pushes a Sym of no *)
(* name on local_stack "to enable local sym storage".                      *)
gen_function(f, a) ==
    /\ a \in free
    /\ free' = free \ {a}
    /\ sym' = [sym EXCEPT ![f].type = "plain", ![f].r = "other", ![f].used = TRUE,
                          ![a] = Fresh(Anon)]
    /\ local_stack' = Append(local_stack, a)
    /\ mode' = "body"
    /\ UNCHANGED <<sym_identifier, global_stack>>

begin_body ==
    /\ mode = "head"
    /\ \E a \in Addr : gen_function(current, a)
    /\ current' = NULL
    /\ UNCHANGED <<blocks, resume, scan, generated, declared, residue>>

(* An identifier in an expression.  One that means nothing can only be     *)
(* called: external_global_sym declares it at file scope.                  *)
reference(n) ==
    /\ mode = "body"
    /\ \/ /\ sym_find(n) \in Addr \ free
          /\ sym' = [sym EXCEPT ![sym_find(n)].used = TRUE]
          /\ UNCHANGED <<free, sym_identifier, global_stack>>
       \/ \E a \in Addr :
             /\ global_identifier_push(n, a)
             /\ sym' = [sym EXCEPT ![a] = [Fresh(n) EXCEPT !.used = TRUE]]
    /\ UNCHANGED <<local_stack, blocks, mode, current, resume, scan, generated,
                   declared, residue>>

(* "{": block saves local_stack.                                           *)
open_block ==
    /\ mode = "body" /\ Len(blocks) < MaxBlocks
    /\ blocks' = Append(blocks, [height |-> Len(local_stack), meaning |-> sym_identifier])
    /\ UNCHANGED <<sym, free, sym_identifier, global_stack, local_stack, mode,
                   current, resume, scan, generated, declared, residue>>

(* "}" of an inner block.                                                  *)
Inner == blocks[Len(blocks)]

close_block ==
    /\ mode = "body" /\ blocks # << >>
    /\ sym_pop(local_stack, Inner.height)
    /\ local_stack' = SubSeq(local_stack, 1, Inner.height)
    /\ blocks' = SubSeq(blocks, 1, Len(blocks) - 1)
    /\ UNCHANGED <<global_stack, mode, current, resume, scan, generated,
                   declared, residue>>

(* The end of gen_function: "reset local stack".                           *)
end_body ==
    /\ mode = "body" /\ blocks = << >>
    /\ sym_pop(local_stack, 0)
    /\ local_stack' = << >>
    /\ mode' = resume
    /\ UNCHANGED <<global_stack, blocks, current, resume, scan, generated,
                   declared, residue>>

-----------------------------------------------------------------------------
(* The end of the source, and tcc_error, which jumps to the same place and *)
(* forgets the C frames of decl and block.  gen_inline_functions runs      *)
(* either way, now without the jump: an error in it exits the process.     *)
StartInline ==
    /\ mode' = "inline" /\ resume' = "inline"
    /\ blocks' = << >> /\ current' = NULL
    /\ scan' = Len(global_stack) /\ generated' = FALSE
    /\ UNCHANGED <<sym, free, sym_identifier, global_stack, local_stack,
                   declared, residue>>

end_of_file == mode = "file" /\ StartInline

tcc_error == mode \in {"file", "head", "record", "body"} /\ resume = "file" /\ StartInline

(* The process exits: nothing of it is left.                               *)
Exit ==
    /\ mode = "body" /\ resume = "inline"
    /\ sym' = [a \in Addr |-> Fresh(Anon)] /\ free' = Addr
    /\ sym_identifier' = [n \in Names |-> NULL]
    /\ global_stack' = << >> /\ local_stack' = << >>
    /\ blocks' = << >> /\ current' = NULL /\ resume' = "file"
    /\ scan' = 0 /\ generated' = FALSE /\ declared' = {} /\ residue' = 0
    /\ mode' = "exit"

(* A pass of gen_inline_functions goes down global_stack and compiles the  *)
(* inline functions code refers to.  A pass that compiled one is followed  *)
(* by another.                                                             *)
Inline(a) == sym[a].type = "inline"
Wanted == {i \in 1 .. scan : Inline(global_stack[i]) /\ sym[global_stack[i]].used}
First == CHOOSE i \in Wanted : \A j \in Wanted : j <= i

gen_inline ==
    /\ mode = "inline" /\ Wanted # {}
    /\ sym[global_stack[First]].r = "tokens"
    /\ \E a \in Addr : gen_function(global_stack[First], a)
    /\ scan' = First - 1
    /\ generated' = TRUE
    /\ UNCHANGED <<blocks, current, resume, declared, residue>>

next_pass ==
    /\ mode = "inline" /\ Wanted = {} /\ generated
    /\ scan' = Len(global_stack) /\ generated' = FALSE
    /\ UNCHANGED <<sym, free, sym_identifier, global_stack, local_stack, blocks,
                   mode, current, resume, declared, residue>>

(* Then the tokens of the others are freed and global_stack is emptied.    *)
Unused == {a \in {global_stack[i] : i \in 1 .. Len(global_stack)} : Inline(a)}

(* Mutant: one pass only.                                                  *)
finish_early ==
    /\ mode = "inline" /\ Wanted = {}
    /\ \A a \in Unused : sym[a].r = "tokens"
    /\ sym_pop(global_stack, 0)
    /\ global_stack' = << >>
    /\ mode' = "idle" /\ resume' = "file" /\ scan' = 0 /\ declared' = {}
    /\ residue' = IF residue > 0 \/ local_stack # << >> THEN residue + 1 ELSE 0
    /\ generated' = FALSE
    /\ UNCHANGED <<local_stack, blocks, current>>

finish ==
    /\ mode = "inline" /\ Wanted = {} /\ ~generated
    /\ \A a \in Unused : sym[a].r = "tokens"
    /\ sym_pop(global_stack, 0)
    /\ global_stack' = << >>
    /\ mode' = "idle" /\ resume' = "file" /\ scan' = 0 /\ declared' = {}
    /\ residue' = IF residue > 0 \/ local_stack # << >> THEN residue + 1 ELSE 0
    /\ UNCHANGED <<local_stack, blocks, current, generated>>

(* Reading or freeing as tokens what are not tokens, or going from a name  *)
(* to a Sym that has been freed: anything may happen.                      *)
NotTokens ==
    /\ mode = "inline"
    /\ \/ Wanted # {} /\ sym[global_stack[First]].r # "tokens"
       \/ Wanted = {} /\ ~generated /\ \E a \in Unused : sym[a].r # "tokens"

Dangling == mode \in {"file", "body"} /\ \E n \in Names : sym_find(n) \in free

Undefined ==
    /\ NotTokens \/ Dangling
    /\ mode' = "undefined"
    /\ UNCHANGED <<sym, free, sym_identifier, global_stack, local_stack, blocks,
                   current, resume, scan, generated, declared, residue>>

Next ==
    \/ tcc_compile \/ record_inline \/ begin_body
    \/ open_block \/ close_block \/ end_body
    \/ end_of_file \/ tcc_error \/ Exit
    \/ gen_inline \/ next_pass \/ finish \/ Undefined
    \/ \E n \in Names : \/ reference(n)
                        \/ \E type \in {"plain", "inline"} : declare(n, type) \/ function(n, type)

Spec == Init /\ [][Next]_vars

-----------------------------------------------------------------------------
(* Type invariant.                                                         *)
TypeOK ==
    /\ sym \in [Addr -> Sym]
    /\ free \subseteq Addr
    /\ sym_identifier \in [Names -> Ptr]
    /\ global_stack \in Seq(Addr) /\ local_stack \in Seq(Addr)
    /\ blocks \in Seq(Block)
    /\ mode \in {"idle", "file", "head", "record", "body", "inline", "exit", "undefined"}
    /\ current \in Ptr
    /\ resume \in {"file", "inline"}
    /\ scan \in Nat /\ generated \in BOOLEAN
    /\ declared \subseteq Names
    /\ residue \in Nat

(* Until a unit has ended in the middle of a function, the token table is  *)
(* the scope rule: the Syms of the two stacks are distinct and allocated,  *)
(* every name means its newest Sym, local before global, and every Sym     *)
(* hides the next older one of its name.  The global a call declares in    *)
(* the middle of a function, below the locals, is no exception.            *)
Scope == global_stack \o local_stack
Newest(n, m) ==   \* the newest Sym of n among the m oldest
    LET I == {i \in 1 .. m : sym[Scope[i]].v = n}
    IN  IF I = {} THEN NULL ELSE Scope[CHOOSE i \in I : \A j \in I : j <= i]

ScopeRule ==
    residue = 0 =>
        /\ \A i, j \in 1 .. Len(Scope) : i # j => Scope[i] # Scope[j]
        /\ free = Addr \ {Scope[i] : i \in 1 .. Len(Scope)}
        /\ \A n \in Names : sym_identifier[n] = Newest(n, Len(Scope))
        /\ \A i \in 1 .. Len(Scope) : sym[Scope[i]].v \in Names =>
              sym[Scope[i]].prev_tok = Newest(sym[Scope[i]].v, i - 1)

(* Leaving a block gives every name the meaning it had when the block      *)
(* began, but for a function first called in the block, which stays.       *)
BlockRestores ==
    [][(mode' = "body" /\ Len(blocks') < Len(blocks) /\ residue = 0) =>
          \A n \in Names :
             \/ sym_identifier'[n] = Inner.meaning[n]
             \/ /\ Inner.meaning[n] = NULL
                /\ sym_identifier'[n] \in {global_stack[i] : i \in 1 .. Len(global_stack)}]_vars

(* The passes of gen_inline_functions reach a fixed point: when the tokens *)
(* left over are freed, no code refers to one of those functions, also if  *)
(* the last function compiled was the first to call it.                    *)
InlineCompiled ==
    [][(mode = "inline" /\ mode' = "idle") =>
          \A i \in 1 .. Len(global_stack) :
             ~(Inline(global_stack[i]) /\ sym[global_stack[i]].used)]_vars

(* No pass repeats the work of another: what gen_inline_functions compiles *)
(* is an inline function no more, and no function it compiles adds one to  *)
(* those it goes over, so there are at most as many passes as functions.   *)
InlineShrinks ==
    [][(resume = "inline" /\ mode' \in {"inline", "body"}) =>
          /\ Unused' \subseteq Unused
          /\ (mode = "inline" /\ mode' = "body") => Unused' # Unused]_vars

(* libtcc.h:56: "compile a string containing a C source. Return non zero   *)
(* if error."  A source without error must find its declarations: what it  *)
(* declares at file scope means something until its end.                   *)
FileScopeLasts ==
    mode \in {"file", "head", "record", "body"} /\ resume = "file" =>
        \A n \in declared : sym_find(n) # NULL

(* tcc.c:8246: "free all remaining inline function tokens".  What is read  *)
(* or freed there are the tokens of a recorded inline function.            *)
TokensFreed == mode # "undefined"
=============================================================================
