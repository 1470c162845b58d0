----------------------------- MODULE LabelStack -----------------------------
(***************************************************************************)
(* The labels of src/generic/tcc.c: global_label_stack for the labels of a *)
(* function, local_label_stack for those a block declares with __label__,  *)
(* and the pointer every token has to its innermost label                  *)
(* (TokenSym.sym_label).  A forward goto waits in the chain of its label   *)
(* (Sym.next) until the label is met; &&label is a symbol that label_pop   *)
(* defines.  The stacks are statics and outlive an error, which jumps out  *)
(* of block and gen_function to tcc_compile.  (An error in a static inline *)
(* function exits the process and has no step here.)                       *)
(*                                                                         *)
(* unary takes &&label outside a function too, in an initializer of the    *)
(* file: the label then waits on global_label_stack for the next function, *)
(* of this unit or a later one.  Statement expressions outside a function, *)
(* and a new handle, with another token table, between such an initializer *)
(* and the function, are left out.                                         *)
(***************************************************************************)
EXTENDS Integers, Sequences, FiniteSets

CONSTANTS
    Names,          \* labels
    Addr,           \* the Syms
    NULL,           \* the null pointer
    MaxBlocks,      \* bound: blocks of a function
    MaxRefs,        \* bound: gotos and &&labels up to the end of a function
    MaxFunctions    \* bound: functions once an error has left labels behind

ASSUME LabelAssumption ==
    /\ NULL \notin Addr /\ NULL \notin Names
    /\ MaxBlocks \in Nat /\ MaxRefs \in Nat /\ MaxFunctions \in Nat

VARIABLES
    label,              \* the Syms of labels
    free,               \* the Syms on the free list
    sym_label,          \* for every name, its innermost label
    global_label_stack, \* labels of the function, the newest last
    local_label_stack,  \* labels declared by blocks, the newest last
    blocks,             \* the blocks that are open, the innermost last
    refs,               \* the gotos and &&labels since the last function
    mode,               \* what the compiler is doing
    message,            \* the error that ended the last function, if any
    opened,             \* how many blocks the function has begun
    defs,               \* history: the labels the function has defined
    residue             \* history: functions since an error left labels behind

vars == <<label, free, sym_label, global_label_stack, local_label_stack, blocks,
          refs, mode, message, opened, defs, residue>>

Ptr == Addr \union {NULL}

(* A place code can jump to: a label of this function, by its name and the *)
(* block that declares it (0: none does), or code of an earlier function.  *)
Place == [v : Names, scope : 0 .. MaxBlocks]
None == [v |-> NULL, scope |-> 0]
Old == [v |-> NULL, scope |-> 1]
Target == Place \union {Old, None}

(* next of a forward label is the chain of refs that wait for it, next of  *)
(* a defined one its address; c: the refs to the symbol of &&label.        *)
Label == [v : Names \union {NULL}, r : {"DECLARED", "FORWARD", "DEFINED"}, prev_tok : Ptr,
          chain : SUBSET (1 .. MaxRefs), address : Target, c : SUBSET (1 .. MaxRefs)]

(* scope: history, the block that declares the label a ref names.          *)
Ref == [v : Names, scope : 0 .. MaxBlocks, to : Target]
Message == [what : {"none", "undefined", "duplicate", "other"}, v : Names \union {NULL}]
Block == [height : Nat, id : 1 .. MaxBlocks, names : SUBSET Names]

(* The block whose __label__ a name refers to, 0 if there is none.         *)
ScopeOf(n) ==
    LET I == {k \in DOMAIN blocks : n \in blocks[k].names}
    IN  IF I = {} THEN 0 ELSE blocks[CHOOSE k \in I : \A j \in I : j <= k].id

Here(n) == [v |-> n, scope |-> ScopeOf(n)]

Blank == [v |-> NULL, r |-> "DEFINED", prev_tok |-> NULL, chain |-> {},
          address |-> None, c |-> {}]
Silent == [what |-> "none", v |-> NULL]

Init ==
    /\ label = [a \in Addr |-> Blank]
    /\ free = Addr
    /\ sym_label = [n \in Names |-> NULL]
    /\ global_label_stack = << >> /\ local_label_stack = << >>
    /\ blocks = << >> /\ refs = << >>
    /\ mode = "idle" /\ message = Silent /\ opened = 0 /\ defs = {} /\ residue = 0

-----------------------------------------------------------------------------
label_find(n) == sym_label[n]

New(n, r) == [Blank EXCEPT !.v = n, !.r = r, !.prev_tok = label_find(n)]

label_push(a, s) ==
    /\ a \in free
    /\ free' = free \ {a}
    /\ label' = [label EXCEPT ![a] = s]
    /\ sym_label' = [sym_label EXCEPT ![s.v] = a]

(* The label a statement names, pushed on global_label_stack with flags r  *)
(* when it is not known; s is what the statement makes of it.  All callers *)
(* of label_push on that stack have found nothing, so the new label is at  *)
(* the bottom of an empty chain.  A freed Sym is blank: only a stack that  *)
(* still holds it could lead to its contents (Dangling below).             *)
Known(n) == label_find(n) # NULL

Update(a, s) ==
    /\ label' = [label EXCEPT ![a] = s]
    /\ UNCHANGED <<free, sym_label, global_label_stack>>

Push(a, s) ==
    /\ label_push(a, s)
    /\ global_label_stack' = Append(global_label_stack, a)

(* label_pop goes down from the top of a stack to height h and stops with  *)
(* an error at the first label used and not defined.  The labels above it  *)
(* are popped by then: their symbols defined, their names taken from the   *)
(* table and the Syms freed.                                               *)
Undefineds(stack, h) == {i \in h + 1 .. Len(stack) : label[stack[i]].r = "FORWARD"}
StopsAt(stack, h) ==
    LET U == Undefineds(stack, h)
    IN  IF U = {} THEN h ELSE CHOOSE i \in U : \A j \in U : j <= i

PoppedAt(stack, h, n) == {i \in h + 1 .. Len(stack) : label[stack[i]].v = n}
Oldest(I) == CHOOSE i \in I : \A j \in I : i <= j

SymbolOf(stack, h, k) == {i \in h + 1 .. Len(stack) : k \in label[stack[i]].c}

(* Mutant: a label declared and not used leaks.                            *)
Popped_used(stack, b) == {stack[i] : i \in {j \in b + 1 .. Len(stack) :
                                              label[stack[j]].r # "DECLARED"}}

Popped(stack, b) == {stack[i] : i \in b + 1 .. Len(stack)}

label_pop(stack, h) ==
    LET b == StopsAt(stack, h)
        popped == Popped(stack, b)
    IN  /\ free' = free \union popped
        /\ label' = [a \in Addr |-> IF a \in popped THEN Blank ELSE label[a]]
        /\ sym_label' = [n \in Names |->
              IF PoppedAt(stack, b, n) = {} THEN sym_label[n]
              ELSE label[stack[Oldest(PoppedAt(stack, b, n))]].prev_tok]
        /\ refs' = [k \in DOMAIN refs |->
              IF SymbolOf(stack, b, k) = {} THEN refs[k]
              ELSE [refs[k] EXCEPT !.to =
                       label[stack[CHOOSE i \in SymbolOf(stack, b, k) : TRUE]].address]]

-----------------------------------------------------------------------------
(* gen_function.  A stack that still holds a freed Sym is one the pool     *)
(* will give out again: from there on anything may happen.                 *)
OnStack == {global_label_stack[i] : i \in DOMAIN global_label_stack}
             \union {local_label_stack[i] : i \in DOMAIN local_label_stack}
Dangling == OnStack \intersect free # {}

(* Between functions, and the &&labels there since the last one.           *)
Outside == mode \in {"idle", "waiting"} /\ residue <= MaxFunctions
Since == IF mode = "waiting" THEN refs ELSE << >>

gen_function ==
    /\ Outside
    /\ mode' = IF Dangling THEN "undefined" ELSE "body"
    /\ message' = Silent /\ refs' = Since /\ defs' = {} /\ opened' = 0
    /\ UNCHANGED <<label, free, sym_label, global_label_stack, local_label_stack,
                   blocks, residue>>

(* "{" of a block, and the names of its __label__, if it has one.          *)
open_block ==
    /\ mode \in {"body", "declare"} /\ opened < MaxBlocks
    /\ opened' = opened + 1
    /\ blocks' = Append(blocks, [height |-> Len(local_label_stack), id |-> opened + 1,
                                 names |-> {}])
    /\ mode' = "declare"
    /\ UNCHANGED <<label, free, sym_label, global_label_stack, local_label_stack,
                   refs, message, defs, residue>>

declare_label(n) ==
    /\ mode = "declare"
    /\ \E a \in Addr :
          /\ label_push(a, New(n, "DECLARED"))
          /\ local_label_stack' = Append(local_label_stack, a)
    /\ blocks' = [blocks EXCEPT ![Len(blocks)].names = @ \union {n}]
    /\ UNCHANGED <<global_label_stack, refs, mode, message, opened, defs, residue>>

Statement ==
    /\ mode \in {"body", "declare"}
    /\ mode' = "body"
    /\ UNCHANGED <<local_label_stack, blocks, message, opened, residue>>

(* The number the next goto or &&label of the function gets.               *)
Next_ref == Len(refs) + 1

Used(s) == IF s.r = "DECLARED" THEN [s EXCEPT !.r = "FORWARD"] ELSE s

(* Mutant: the chain starts again.                                         *)
Chained_lost(s) ==
    IF Used(s).r = "FORWARD" THEN [Used(s) EXCEPT !.chain = {Next_ref}] ELSE s

Chained(s) == IF Used(s).r = "FORWARD" THEN [Used(s) EXCEPT !.chain = @ \union {Next_ref}]
              ELSE s
Jump(n, s) == [v |-> n, scope |-> ScopeOf(n),
               to |-> IF s.r = "DEFINED" THEN s.address ELSE None]

(* goto n: a jump to a label that is defined, or one more in its chain.    *)
goto(n) ==
    /\ Statement /\ Len(refs) < MaxRefs
    /\ \/ /\ Known(n)
          /\ Update(label_find(n), Chained(label[label_find(n)]))
          /\ refs' = Append(refs, Jump(n, label[label_find(n)]))
       \/ /\ ~Known(n)
          /\ \E a \in Addr : Push(a, Chained(New(n, "FORWARD")))
          /\ refs' = Append(refs, Jump(n, New(n, "FORWARD")))
    /\ UNCHANGED defs

(* &&n, after the refs before: the label of the name gets the symbol.      *)
WithSymbol(s, k) == [Used(s) EXCEPT !.c = @ \union {k}]

unary(n, before) ==
    /\ Len(before) < MaxRefs
    /\ \/ /\ Known(n)
          /\ Update(label_find(n), WithSymbol(label[label_find(n)], Len(before) + 1))
       \/ /\ ~Known(n)
          /\ \E a \in Addr : Push(a, WithSymbol(New(n, "FORWARD"), Len(before) + 1))
    /\ refs' = Append(before, [v |-> n, scope |-> ScopeOf(n), to |-> None])

take_address(n) == Statement /\ unary(n, refs) /\ UNCHANGED defs

(* &&n in the value of an initializer outside a function.                  *)
init_putv(n) ==
    /\ Outside /\ ~Dangling
    /\ unary(n, Since)
    /\ mode' = "waiting"
    /\ message' = Silent /\ defs' = {} /\ opened' = 0
    /\ UNCHANGED <<local_label_stack, blocks, residue>>

(* n: the chain is patched.  A label that is defined is an error, below.   *)
Defined(s, n) == [s EXCEPT !.r = "DEFINED", !.chain = {}, !.address = Here(n)]

define_label(n) ==
    /\ Statement
    /\ \/ /\ Known(n) /\ label[label_find(n)].r # "DEFINED"
          /\ Update(label_find(n), Defined(label[label_find(n)], n))
          /\ refs' = [k \in DOMAIN refs |->
                        IF k \in label[label_find(n)].chain
                        THEN [refs[k] EXCEPT !.to = Here(n)] ELSE refs[k]]
       \/ /\ ~Known(n)
          /\ \E a \in Addr : Push(a, Defined(New(n, "DEFINED"), n))
          /\ UNCHANGED refs
    /\ defs' = defs \union {Here(n)}

(* "}" of a block and the end of the function, when label_pop finds no     *)
(* label undefined.                                                        *)
Inner == blocks[Len(blocks)]

(* Mutant: the block's labels survive it.                                  *)
close_block_keeps ==
    /\ mode \in {"body", "declare"} /\ blocks # << >>
    /\ Undefineds(local_label_stack, Inner.height) = {}
    /\ blocks' = SubSeq(blocks, 1, Len(blocks) - 1)
    /\ mode' = "body"
    /\ UNCHANGED <<label, free, sym_label, global_label_stack, local_label_stack,
                   refs, message, opened, defs, residue>>

close_block ==
    /\ mode \in {"body", "declare"} /\ blocks # << >>
    /\ Undefineds(local_label_stack, Inner.height) = {}
    /\ label_pop(local_label_stack, Inner.height)
    /\ local_label_stack' = SubSeq(local_label_stack, 1, Inner.height)
    /\ blocks' = SubSeq(blocks, 1, Len(blocks) - 1)
    /\ mode' = "body"
    /\ UNCHANGED <<global_label_stack, message, opened, defs, residue>>

Ended == IF residue > 0 THEN residue + 1 ELSE 0

end_function ==
    /\ mode = "body" /\ blocks = << >>
    /\ Undefineds(global_label_stack, 0) = {}
    /\ label_pop(global_label_stack, 0)
    /\ global_label_stack' = << >>
    /\ mode' = "idle" /\ residue' = Ended
    /\ UNCHANGED <<local_label_stack, blocks, message, opened, defs>>

(* An error jumps to tcc_compile.  The blocks are forgotten, the stacks    *)
(* are not; where their labels are is now code of the past.                *)
Error(what, n) ==
    /\ mode' = "idle"
    /\ message' = [what |-> what, v |-> n]
    /\ blocks' = << >>
    /\ residue' = IF OnStack = {} THEN Ended ELSE residue + 1
    /\ UNCHANGED <<global_label_stack, local_label_stack, opened, defs>>

Past(s) == [s EXCEPT !.chain = {}, !.c = {},
                     !.address = IF s.r = "DEFINED" THEN Old ELSE None]
Abandon ==
    /\ label' = [a \in Addr |-> IF a \in free THEN Blank ELSE Past(label[a])]
    /\ UNCHANGED <<free, sym_label, refs>>

(* label_pop stops at a label: *ptop is not assigned, and what is popped   *)
(* stays on the stack.                                                     *)
Undefined_at(stack, h) ==
    /\ Undefineds(stack, h) # {}
    /\ label_pop(stack, h)
    /\ Error("undefined", label[stack[StopsAt(stack, h)]].v)

label_undefined ==
    \/ mode \in {"body", "declare"} /\ blocks # << >> /\ Undefined_at(local_label_stack, Inner.height)
    \/ mode = "body" /\ blocks = << >> /\ Undefined_at(global_label_stack, 0)

label_duplicate(n) ==
    /\ mode \in {"body", "declare"}
    /\ Known(n) /\ label[label_find(n)].r = "DEFINED"
    /\ Error("duplicate", n)
    /\ Abandon

(* Any other error of the source.                                          *)
tcc_error ==
    /\ mode \in {"body", "declare", "waiting"}
    /\ Error("other", NULL)
    /\ Abandon

Next ==
    \/ gen_function \/ open_block \/ close_block \/ end_function
    \/ label_undefined \/ tcc_error
    \/ \E n \in Names : \/ declare_label(n) \/ goto(n) \/ take_address(n)
                        \/ init_putv(n) \/ define_label(n) \/ label_duplicate(n)

Spec == Init /\ [][Next]_vars

-----------------------------------------------------------------------------
(* Type invariant.                                                         *)
TypeOK ==
    /\ label \in [Addr -> Label]
    /\ free \subseteq Addr
    /\ sym_label \in [Names -> Ptr]
    /\ global_label_stack \in Seq(Addr) /\ local_label_stack \in Seq(Addr)
    /\ blocks \in Seq(Block)
    /\ refs \in Seq(Ref) /\ Len(refs) <= MaxRefs
    /\ mode \in {"idle", "waiting", "declare", "body", "undefined"}
    /\ message \in Message
    /\ opened \in 0 .. MaxBlocks
    /\ defs \subseteq Place
    /\ residue \in Nat

(* The label a ref names: by the blocks, not by the table.                 *)
Meant(k) == [v |-> refs[k].v, scope |-> refs[k].scope]

(* A goto or &&label goes to the label its block structure says, that of   *)
(* the innermost block declaring the name or of the function, whatever     *)
(* labels of the same name blocks before and around it have declared; an   *)
(* &&label outside a function to that of the next function.                *)
RefsBound ==
    residue = 0 => \A k \in DOMAIN refs : refs[k].to \in {None, Meant(k)}

(* A function that ends without an error has bound all it refers to, and   *)
(* all that the initializers before it did.  The label an error calls      *)
(* undefined has not been defined in the scope that ends, and been used in *)
(* it or, if that is the function, in an initializer since the function    *)
(* before; the one it calls a duplicate has been defined in the scope.     *)
Ending == IF blocks = << >> THEN 0 ELSE Inner.id
Verdict ==
    [][(mode \in {"body", "declare"} /\ mode' = "idle" /\ residue = 0) =>
          /\ message'.what = "none" =>
                \A k \in DOMAIN refs' : refs'[k].to = Meant(k)
          /\ message'.what = "undefined" =>
                /\ [v |-> message'.v, scope |-> Ending] \notin defs
                /\ \E k \in DOMAIN refs : Meant(k) = [v |-> message'.v, scope |-> Ending]
          /\ message'.what = "duplicate" => Here(message'.v) \in defs]_vars

(* No label is lost or freed twice: a Sym is on one stack, once, or free,  *)
(* until an error leaves some behind.  Between functions there are labels  *)
(* only for the &&labels of initializers since the last one, one for every *)
(* name.                                                                   *)
Pooled ==
    residue = 0 =>
        /\ free = Addr \ OnStack
        /\ Len(global_label_stack) + Len(local_label_stack) = Cardinality(OnStack)
        /\ mode = "idle" => OnStack = {}
        /\ mode = "waiting" =>
              /\ local_label_stack = << >>
              /\ {label[a].v : a \in OnStack} = {refs[k].v : k \in DOMAIN refs}
              /\ \A a, b \in OnStack : label[a].v = label[b].v => a = b

(* tcc.c:1693 on label_pop: "Look if any labels are undefined."  A         *)
(* function it accepts has defined every label it refers to.               *)
UndefinedFound ==
    [][(mode = "body" /\ mode' = "idle" /\ message'.what = "none") =>
          \A k \in DOMAIN refs : Meant(k) \in defs]_vars
=============================================================================
