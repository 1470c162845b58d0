-------------------------- MODULE LabelStackProofs --------------------------
(***************************************************************************)
(* Proofs about LabelStack, for all names, pools of Syms, blocks and gotos.*)
(***************************************************************************)
EXTENDS LabelStack, StackFacts, FiniteSetTheorems, TLAPS

(* The blocks that are open lie one in the other, and each has a number of *)
(* its own.                                                                *)
Nested ==
    /\ \A b \in 1 .. Len(blocks) :
          /\ blocks[b].height <= Len(local_label_stack)
          /\ blocks[b].id <= opened
          /\ \A c \in 1 .. b : blocks[c].height <= blocks[b].height
          /\ \A c \in 1 .. b - 1 : blocks[c].id < blocks[b].id
    /\ mode \in {"idle", "waiting", "undefined"} => blocks = << >>
    /\ mode = "declare" => blocks # << >>

(* A Sym is on one of the stacks, once, or on the free list.               *)
Scope == global_label_stack \o local_label_stack
Allocated == Allotted(Addr, free, Scope)

(* The label at j of local_label_stack has been declared by block b.       *)
In(j, b) ==
    /\ blocks[b].height < j
    /\ b < Len(blocks) => j <= blocks[b + 1].height

(* Every local label has its block, a block the names it has declared, and *)
(* two labels of the function have two names.                              *)
Owned ==
    /\ \A j \in 1 .. Len(local_label_stack) : \E b \in 1 .. Len(blocks) : In(j, b)
    /\ \A b \in 1 .. Len(blocks), n \in Names :
          n \in blocks[b].names <=>
             \E j \in 1 .. Len(local_label_stack) : In(j, b) /\ label[local_label_stack[j]].v = n
    /\ \A i, j \in 1 .. Len(global_label_stack) :
          label[global_label_stack[i]].v = label[global_label_stack[j]].v => i = j

(* The label of a Sym on the stacks, by its name and its block.            *)
GlobalAt(a, q) ==
    \E i \in 1 .. Len(global_label_stack) :
       global_label_stack[i] = a /\ q = [v |-> label[a].v, scope |-> 0]
LocalAt(a, q) ==
    \E j \in 1 .. Len(local_label_stack), b \in 1 .. Len(blocks) :
       /\ local_label_stack[j] = a /\ In(j, b)
       /\ q = [v |-> label[a].v, scope |-> blocks[b].id]
At(a, q) == GlobalAt(a, q) \/ LocalAt(a, q)

(* A label its block has declared again: no statement reaches it.          *)
Hidden(a) ==
    \E i, j \in 1 .. Len(local_label_stack), b \in 1 .. Len(blocks) :
       /\ i < j /\ In(i, b) /\ In(j, b)
       /\ local_label_stack[i] = a /\ label[local_label_stack[j]].v = label[a].v

(* What is known of a label q: its address, when it is defined, the gotos  *)
(* and &&labels that name it, and whether the function has defined it.     *)
Waiting(a) == label[a].chain \union label[a].c
Names_it(a, q) ==
    \A k \in Waiting(a) : k \in 1 .. Len(refs) /\ refs[k].v = q.v /\ refs[k].scope = q.scope
Content(a, q) ==
    /\ Names_it(a, q)
    /\ label[a].r = "DEFINED" => /\ label[a].address = q /\ label[a].chain = {} /\ q \in defs
                                 /\ ~Hidden(a)
    /\ label[a].r = "FORWARD" => Waiting(a) # {} /\ q \notin defs /\ ~Hidden(a)
    /\ label[a].r = "DECLARED" => Waiting(a) = {} /\ (q \notin defs \/ Hidden(a))
Contents == \A a \in Addr, q \in Place : At(a, q) => Content(a, q)

(* The labels defined are of blocks that have begun, those of the function *)
(* are all there; the innermost block has neither used nor defined one of  *)
(* its labels while it declares them.                                      *)
Defs ==
    /\ \A q \in defs : q.scope <= opened
    /\ \A q \in defs : q.scope = 0 =>
          \E i \in 1 .. Len(global_label_stack) : label[global_label_stack[i]].v = q.v
    /\ mode = "declare" =>
          /\ \A q \in defs : q.scope # blocks[Len(blocks)].id
          /\ \A j \in 1 .. Len(local_label_stack) :
                In(j, Len(blocks)) => label[local_label_stack[j]].r = "DECLARED"

(* A goto or &&label is bound, or waits with a label.                      *)
Bound ==
    \A k \in 1 .. Len(refs) :
       \/ refs[k].to = Meant(k)
       \/ refs[k].to = None /\ \E a \in OnStack : k \in Waiting(a)

(* All that until an error leaves labels behind.                           *)
LabelInv ==
    residue = 0 =>
        /\ Allocated /\ Owned /\ Contents /\ Bound
        /\ mode # "idle" => Defs
        /\ IsScope(Names, NULL, Scope, label, sym_label)
        /\ \A i \in 1 .. Len(Scope) : label[Scope[i]].v \in Names
        /\ mode = "idle" => Scope = << >>
        /\ mode # "undefined"

(* No function is compiled with the error of an earlier one.               *)
Quiet == mode \in {"body", "declare"} => message = Silent

(* Between functions the labels are those that initializers have named, a  *)
(* function that begins has begun no block and defined no label.           *)
FileScope ==
    mode = "waiting" =>
        /\ defs = {} /\ opened = 0
        /\ residue = 0 =>
              /\ \A a \in OnStack : \E k \in 1 .. Len(refs) : refs[k].v = label[a].v
              /\ \A k \in 1 .. Len(refs) : \E a \in OnStack : label[a].v = refs[k].v

IInv == TypeOK /\ Nested /\ LabelInv /\ Quiet /\ FileScope

-----------------------------------------------------------------------------
(* The block a name refers to is the innermost that has declared it.       *)
LEMMA ScopeIs ==
    ASSUME TypeOK, NEW n
    PROVE  /\ ScopeOf(n) \in 0 .. MaxBlocks
           /\ \/ ScopeOf(n) = 0 /\ \A b \in 1 .. Len(blocks) : n \notin blocks[b].names
              \/ \E b \in 1 .. Len(blocks) :
                    /\ n \in blocks[b].names /\ ScopeOf(n) = blocks[b].id
                    /\ \A c \in b + 1 .. Len(blocks) : n \notin blocks[c].names
<1> DEFINE I == {k \in DOMAIN blocks : n \in blocks[k].names}
           top == CHOOSE k \in I : \A j \in I : j <= k
<1>1. /\ Len(blocks) \in Nat /\ DOMAIN blocks = 1 .. Len(blocks)
      /\ \A b \in 1 .. Len(blocks) : blocks[b] \in Block
  BY DEF TypeOK
<1>2. ScopeOf(n) = IF I = {} THEN 0 ELSE blocks[top].id
  BY DEF ScopeOf
<1>3. CASE I = {}
  <2>1. \A b \in 1 .. Len(blocks) : n \notin blocks[b].names
    BY <1>1, <1>3
  <2> QED BY <2>1, <1>2, <1>3, LabelAssumption
<1>4. CASE I # {}
  <2>1. I \subseteq 0 .. Len(blocks)
    BY <1>1
  <2> HIDE DEF I
  <2>2. \E k \in I : \A j \in I : j <= k
    BY <2>1, <1>1, <1>4, GreatestNat
  <2>3. top \in I /\ \A j \in I : j <= top
    BY <2>2
  <2> HIDE DEF top
  <2>4. top \in 1 .. Len(blocks) /\ n \in blocks[top].names
    BY <2>3, <1>1 DEF I
  <2>5. blocks[top].id \in 1 .. MaxBlocks
    BY <2>4, <1>1 DEF Block
  <2>6. ASSUME NEW c \in top + 1 .. Len(blocks) PROVE n \notin blocks[c].names
    <3>1. c \in 1 .. Len(blocks) /\ ~(c <= top)
      BY <2>4, <1>1
    <3> QED BY <3>1, <2>3, <1>1 DEF I
  <2> QED BY <2>4, <2>5, <2>6, <1>2, <1>4, LabelAssumption
<1> QED BY <1>3, <1>4

(* Here(n) is a place.                                                     *)
LEMMA HereIs == ASSUME TypeOK, NEW n \in Names PROVE Here(n) \in Place
BY ScopeIs DEF Here, Place

(* label_pop stops at a height of the stack, and has popped no label that  *)
(* is undefined.                                                           *)
LEMMA Stops ==
    ASSUME NEW s \in Seq(Addr), NEW h \in 0 .. Len(s)
    PROVE  /\ StopsAt(s, h) \in h .. Len(s)
           /\ Undefineds(s, h) = {} => StopsAt(s, h) = h
           /\ Undefineds(s, h) # {} => StopsAt(s, h) \in Undefineds(s, h)
<1> DEFINE U == Undefineds(s, h)
<1>1. Len(s) \in Nat /\ U \subseteq 0 .. Len(s) /\ U \subseteq h + 1 .. Len(s)
  BY DEF Undefineds
<1>2. StopsAt(s, h) = IF U = {} THEN h ELSE CHOOSE i \in U : \A j \in U : j <= i
  BY DEF StopsAt
<1> HIDE DEF U
<1>3. CASE U = {}
  BY <1>1, <1>2, <1>3 DEF U
<1>4. CASE U # {}
  <2>1. \E i \in U : \A j \in U : j <= i
    BY <1>1, <1>4, GreatestNat
  <2>2. StopsAt(s, h) \in U
    BY <2>1, <1>2, <1>4
  <2>3. StopsAt(s, h) \in h + 1 .. Len(s)
    BY <2>2, <1>1
  <2>4. h + 1 .. Len(s) \subseteq h .. Len(s)
    BY <1>1
  <2>5. StopsAt(s, h) \in h .. Len(s)
    BY <2>3, <2>4
  <2> QED BY <2>2, <2>5, <1>4 DEF U
<1> QED BY <1>3, <1>4

(* The oldest of the labels popped that have a name.                       *)
LEMMA OldestIs ==
    ASSUME NEW s \in Seq(Addr), NEW h \in 0 .. Len(s), NEW n, PoppedAt(s, h, n) # {}
    PROVE  LET k == Oldest(PoppedAt(s, h, n))
           IN  /\ k \in h + 1 .. Len(s) /\ label[s[k]].v = n
               /\ \A i \in h + 1 .. k - 1 : label[s[i]].v # n
<1> DEFINE I == PoppedAt(s, h, n)
           k == Oldest(I)
<1>1. Len(s) \in Nat /\ I \subseteq Nat /\ I \subseteq h + 1 .. Len(s)
  BY DEF PoppedAt
<1>2. \A i \in h + 1 .. Len(s) : label[s[i]].v = n <=> i \in I
  BY DEF PoppedAt
<1> HIDE DEF I
<1>3. \E i \in I : \A j \in I : i <= j
  BY <1>1, LeastNat DEF I
<1>4. k \in I /\ \A j \in I : k <= j
  BY <1>3 DEF Oldest
<1> HIDE DEF k
<1>5. k \in h + 1 .. Len(s) /\ label[s[k]].v = n
  BY <1>1, <1>2, <1>4
<1>6. ASSUME NEW i \in h + 1 .. k - 1 PROVE label[s[i]].v # n
  <2>1. i \in h + 1 .. Len(s) /\ ~(k <= i)
    BY <1>5, <1>1
  <2> QED BY <2>1, <1>2, <1>4
<1> QED BY <1>5, <1>6 DEF k, I

-----------------------------------------------------------------------------
(* The parts of a label, by their types.                                   *)
LEMMA LabelTypes ==
    /\ Blank \in Label
    /\ \A s \in Label :
          /\ s.v \in Names \union {NULL} /\ s.prev_tok \in Ptr /\ s.address \in Target
          /\ s.chain \in SUBSET (1 .. MaxRefs) /\ s.c \in SUBSET (1 .. MaxRefs)
          /\ s.r \in {"DECLARED", "FORWARD", "DEFINED"}
          /\ Past(s) \in Label /\ Used(s) \in Label
BY ZenonT(60) DEF Blank, Label, Ptr, Target, Past, Used

(* A new label, and what a statement makes of one.                         *)
LEMMA NewTypes ==
    ASSUME TypeOK, Len(refs) < MaxRefs, NEW n \in Names,
           NEW r \in {"DECLARED", "FORWARD", "DEFINED"}, NEW s \in Label
    PROVE  New(n, r) \in Label /\ Chained(s) \in Label
<1>1. New(n, r) \in Label
  BY LabelTypes DEF New, TypeOK, label_find, Label, Blank, Ptr
<1>2. Next_ref \in 1 .. MaxRefs
  BY LabelAssumption DEF Next_ref, TypeOK
<1>3. Used(s) \in Label
  BY LabelTypes
<1>4. /\ s.chain \union {Next_ref} \in SUBSET (1 .. MaxRefs)
      /\ Used(s).chain \union {Next_ref} \in SUBSET (1 .. MaxRefs)
  BY <1>2, <1>3, LabelTypes
<1> HIDE DEF Next_ref
<1>5. Chained(s) \in Label
  BY <1>3, <1>4 DEF Chained, Label
<1> QED BY <1>1, <1>5

(* The same of &&label.                                                    *)
LEMMA SymbolTypes ==
    ASSUME TypeOK, NEW k \in 1 .. MaxRefs, NEW n \in Names, NEW s \in Label
    PROVE  /\ WithSymbol(s, k) \in Label
           /\ WithSymbol(New(n, "FORWARD"), k) \in Label /\ WithSymbol(New(n, "FORWARD"), k).v = n
<1>1. ASSUME NEW z \in Label PROVE WithSymbol(z, k) \in Label
  <2>1. Used(z) \in Label /\ Used(z).c \union {k} \in SUBSET (1 .. MaxRefs)
    BY LabelTypes
  <2> QED BY <2>1 DEF WithSymbol, Label
<1>2. New(n, "FORWARD") \in Label
  BY LabelTypes DEF New, TypeOK, label_find, Label, Blank, Ptr
<1>3. WithSymbol(New(n, "FORWARD"), k).v = n
  BY DEF New, Blank, WithSymbol, Used
<1> QED BY <1>1, <1>2, <1>3

(* A new label that is defined, and one defined at last.                   *)
LEMMA DefinedTypes ==
    ASSUME TypeOK, NEW n \in Names, NEW s \in Label
    PROVE  Defined(s, n) \in Label /\ New(n, "DEFINED") \in Label
<1>1. Here(n) \in Target
  BY HereIs DEF Target
<1>2. Defined(s, n) \in Label
  BY <1>1 DEF Defined, Label
<1>3. New(n, "DEFINED") \in Label
  BY LabelTypes DEF New, TypeOK, label_find, Label, Blank, Ptr
<1> QED BY <1>2, <1>3

(* What label_pop leaves.                                                  *)
LEMMA PopTypes ==
    ASSUME TypeOK, NEW s \in Seq(Addr), NEW h \in 0 .. Len(s), label_pop(s, h)
    PROVE  /\ label' \in [Addr -> Label] /\ free' \subseteq Addr
           /\ sym_label' \in [Names -> Ptr]
           /\ refs' \in Seq(Ref) /\ Len(refs') = Len(refs)
           /\ \A k \in 1 .. Len(refs) : refs'[k].v = refs[k].v /\ refs'[k].scope = refs[k].scope
<1> DEFINE b == StopsAt(s, h)
           popped == Popped(s, b)
<1>1. b \in 0 .. Len(s) /\ Len(s) \in Nat
  <2>1. b \in h .. Len(s)
    BY Stops
  <2> QED BY <2>1
<1>2. \A i \in b + 1 .. Len(s) : s[i] \in Addr /\ label[s[i]] \in Label
  <2>1. \A i \in b + 1 .. Len(s) : i \in 1 .. Len(s)
    BY <1>1
  <2> QED BY <2>1 DEF TypeOK
<1>3. /\ free' = free \union popped
      /\ label' = [a \in Addr |-> IF a \in popped THEN Blank ELSE label[a]]
      /\ sym_label' = [n \in Names |->
              IF PoppedAt(s, b, n) = {} THEN sym_label[n]
              ELSE label[s[Oldest(PoppedAt(s, b, n))]].prev_tok]
      /\ refs' = [k \in DOMAIN refs |->
              IF SymbolOf(s, b, k) = {} THEN refs[k]
              ELSE [refs[k] EXCEPT !.to =
                       label[s[CHOOSE i \in SymbolOf(s, b, k) : TRUE]].address]]
  BY DEF label_pop
<1> HIDE DEF b
<1>4. free' \subseteq Addr
  BY <1>2, <1>3 DEF TypeOK, Popped
<1>5. label' \in [Addr -> Label]
  BY <1>3, LabelTypes DEF TypeOK
<1>6. sym_label' \in [Names -> Ptr]
  <2>1. ASSUME NEW n \in Names, PoppedAt(s, b, n) # {}
        PROVE  label[s[Oldest(PoppedAt(s, b, n))]].prev_tok \in Ptr
    <3>1. Oldest(PoppedAt(s, b, n)) \in b + 1 .. Len(s)
      BY <1>1, <2>1, OldestIs
    <3> QED BY <3>1, <1>2, LabelTypes
  <2> QED BY <2>1, <1>3 DEF TypeOK
<1>7. ASSUME NEW k \in 1 .. Len(refs)
      PROVE  refs'[k] \in Ref /\ refs'[k].v = refs[k].v /\ refs'[k].scope = refs[k].scope
  <2>1. refs[k] \in Ref /\ k \in DOMAIN refs
    BY DEF TypeOK
  <2>2. CASE SymbolOf(s, b, k) = {}
    BY <2>1, <2>2, <1>3
  <2>3. CASE SymbolOf(s, b, k) # {}
    <3> DEFINE i == CHOOSE j \in SymbolOf(s, b, k) : TRUE
    <3>1. i \in b + 1 .. Len(s)
      BY <2>3 DEF SymbolOf
    <3>2. label[s[i]].address \in Target
      BY <3>1, <1>2, LabelTypes
    <3>3. refs'[k] = [refs[k] EXCEPT !.to = label[s[i]].address]
      BY <2>1, <2>3, <1>3
    <3> HIDE DEF i
    <3> QED BY <2>1, <3>2, <3>3 DEF Ref
  <2> QED BY <2>2, <2>3
<1>8. refs' \in Seq(Ref) /\ Len(refs') = Len(refs)
  <2>1. Len(refs) \in Nat /\ DOMAIN refs = 1 .. Len(refs)
    BY DEF TypeOK
  <2>2. refs' \in [1 .. Len(refs) -> Ref]
    <3>1. refs' = [k \in 1 .. Len(refs) |-> refs'[k]]
      BY <1>3, <2>1
    <3> QED BY <3>1, <1>7
  <2> QED BY <2>1, <2>2
<1> QED BY <1>4, <1>5, <1>6, <1>7, <1>8

-----------------------------------------------------------------------------
(* One more goto or &&label.                                               *)
LEMMA RefTypes ==
    ASSUME TypeOK, Len(refs) < MaxRefs, NEW r \in Ref
    PROVE  Append(refs, r) \in Seq(Ref) /\ Len(Append(refs, r)) <= MaxRefs
<1>1. refs \in Seq(Ref) /\ Len(refs) \in Nat
  BY DEF TypeOK
<1> QED BY <1>1, LabelAssumption

(* What Update does to the types.                                          *)
LEMMA UpdateTypes ==
    ASSUME TypeOK, NEW a \in Addr, NEW s \in Label, Update(a, s)
    PROVE  /\ label' \in [Addr -> Label] /\ free' \subseteq Addr
           /\ sym_label' \in [Names -> Ptr] /\ global_label_stack' \in Seq(Addr)
BY DEF TypeOK, Update

(* And Push.                                                               *)
LEMMA PushTypes ==
    ASSUME TypeOK, NEW a \in Addr, NEW s \in Label, s.v \in Names, Push(a, s)
    PROVE  /\ label' \in [Addr -> Label] /\ free' \subseteq Addr
           /\ sym_label' \in [Names -> Ptr] /\ global_label_stack' \in Seq(Addr)
<1>1. a \in Ptr
  BY DEF Ptr
<1> QED BY <1>1 DEF TypeOK, Push, label_push

(* The initial state has its types.                                        *)
LEMMA InitTypes == Init => TypeOK /\ Nested
BY LabelTypes, LabelAssumption DEF Init, TypeOK, Nested, Ptr, Message, Silent

(* &&label keeps the types, in a function or outside.                      *)
LEMMA UnaryTypes ==
    ASSUME TypeOK, NEW n \in Names, NEW before \in Seq(Ref), unary(n, before)
    PROVE  /\ label' \in [Addr -> Label] /\ free' \subseteq Addr
           /\ sym_label' \in [Names -> Ptr] /\ global_label_stack' \in Seq(Addr)
           /\ refs' \in Seq(Ref) /\ Len(refs') <= MaxRefs
<1>1. PICK k \in Nat : k = Len(before) + 1
  OBVIOUS
<1>2. k \in 1 .. MaxRefs
  BY <1>1, LabelAssumption DEF unary
<1>3. [v |-> n, scope |-> ScopeOf(n), to |-> None] \in Ref
  BY ScopeIs DEF Ref, Target
<1>4. refs' \in Seq(Ref) /\ Len(refs') <= MaxRefs
  BY <1>1, <1>2, <1>3 DEF unary
<1>5. CASE Known(n) /\ Update(label_find(n), WithSymbol(label[label_find(n)], k))
  <2>1. label_find(n) \in Addr /\ label[label_find(n)] \in Label
    BY <1>5 DEF Known, label_find, TypeOK, Ptr
  <2>2. WithSymbol(label[label_find(n)], k) \in Label
    BY <2>1, <1>2, SymbolTypes
  <2> QED BY <2>1, <2>2, <1>4, <1>5, UpdateTypes
<1>6. ASSUME NEW a \in Addr, Push(a, WithSymbol(New(n, "FORWARD"), k))
      PROVE  /\ label' \in [Addr -> Label] /\ free' \subseteq Addr
             /\ sym_label' \in [Names -> Ptr] /\ global_label_stack' \in Seq(Addr)
  <2>1. WithSymbol(New(n, "FORWARD"), k) \in Label /\ WithSymbol(New(n, "FORWARD"), k).v = n
    BY <1>2, SymbolTypes, LabelTypes
  <2> QED BY <2>1, <1>6, PushTypes
<1> QED BY <1>1, <1>4, <1>5, <1>6 DEF unary

(* Every step of a statement keeps the types.                              *)
LEMMA StatementTypes ==
    ASSUME TypeOK, NEW n \in Names, goto(n) \/ take_address(n) \/ define_label(n)
    PROVE  TypeOK'
<1>0. /\ local_label_stack' \in Seq(Addr) /\ blocks' \in Seq(Block) /\ message' \in Message
      /\ mode' \in {"idle", "waiting", "declare", "body", "undefined"}
      /\ opened' \in 0 .. MaxBlocks /\ residue' \in Nat
  BY DEF goto, take_address, define_label, Statement, TypeOK
<1>k. ASSUME Known(n) PROVE label_find(n) \in Addr /\ label[label_find(n)] \in Label
  BY <1>k DEF Known, label_find, TypeOK, Ptr
<1>s. ScopeOf(n) \in 0 .. MaxBlocks /\ Here(n) \in Place /\ Here(n) \in Target /\ None \in Target
  BY ScopeIs, HereIs DEF Target
<1>v. \A r : New(n, r).v = n /\ Chained(New(n, r)).v = n
             /\ Defined(New(n, r), n).v = n /\ New(n, "FORWARD").r = "FORWARD"
  BY DEF New, Blank, Chained, Defined, Used
<1>f. "FORWARD" \in {"DECLARED", "FORWARD", "DEFINED"}
  OBVIOUS
<1>1. CASE goto(n)
  <2> Len(refs) < MaxRefs
    BY <1>1 DEF goto
  <2>1. \A s \in Label : Jump(n, s) \in Ref
    <3> TAKE s \in Label
    <3>1. s.address \in Target
      BY LabelTypes
    <3> QED BY <3>1, <1>s DEF Jump, Ref
  <2>2. defs' \subseteq Place
    BY <1>1 DEF goto, TypeOK
  <2>3. CASE Known(n) /\ Update(label_find(n), Chained(label[label_find(n)]))
                      /\ refs' = Append(refs, Jump(n, label[label_find(n)]))
    <3>1. Chained(label[label_find(n)]) \in Label
      BY <2>3, <1>k, <1>f, NewTypes
    <3>2. /\ label' \in [Addr -> Label] /\ free' \subseteq Addr
          /\ sym_label' \in [Names -> Ptr] /\ global_label_stack' \in Seq(Addr)
      BY <2>3, <3>1, <1>k, UpdateTypes
    <3>3. refs' \in Seq(Ref) /\ Len(refs') <= MaxRefs
      BY <2>1, <2>3, <1>k, RefTypes
    <3> QED BY <3>2, <3>3, <2>2, <1>0 DEF TypeOK
  <2>4. ASSUME NEW a \in Addr, Push(a, Chained(New(n, "FORWARD"))),
               refs' = Append(refs, Jump(n, New(n, "FORWARD")))
        PROVE  TypeOK'
    <3>1. New(n, "FORWARD") \in Label
      BY <1>f, LabelTypes, NewTypes
    <3>2. Chained(New(n, "FORWARD")) \in Label
      BY <3>1, <1>f, NewTypes
    <3>3. /\ label' \in [Addr -> Label] /\ free' \subseteq Addr
          /\ sym_label' \in [Names -> Ptr] /\ global_label_stack' \in Seq(Addr)
      BY <2>4, <3>2, <1>v, PushTypes
    <3>4. refs' \in Seq(Ref) /\ Len(refs') <= MaxRefs
      BY <2>1, <2>4, <3>1, RefTypes
    <3> QED BY <3>3, <3>4, <2>2, <1>0 DEF TypeOK
  <2> QED BY <2>3, <2>4, <1>1 DEF goto
<1>2. CASE take_address(n)
  <2>1. unary(n, refs) /\ refs \in Seq(Ref) /\ defs' \subseteq Place
    BY <1>2 DEF take_address, TypeOK
  <2>2. /\ label' \in [Addr -> Label] /\ free' \subseteq Addr
        /\ sym_label' \in [Names -> Ptr] /\ global_label_stack' \in Seq(Addr)
        /\ refs' \in Seq(Ref) /\ Len(refs') <= MaxRefs
    BY <2>1, UnaryTypes
  <2> QED BY <2>1, <2>2, <1>0 DEF TypeOK
<1>3. CASE define_label(n)
  <2>1. defs' \subseteq Place
    BY <1>3, <1>s DEF define_label, TypeOK
  <2>2. CASE /\ Known(n) /\ Update(label_find(n), Defined(label[label_find(n)], n))
             /\ refs' = [k \in DOMAIN refs |->
                        IF k \in label[label_find(n)].chain
                        THEN [refs[k] EXCEPT !.to = Here(n)] ELSE refs[k]]
    <3>1. Defined(label[label_find(n)], n) \in Label
      BY <2>2, <1>k, DefinedTypes
    <3>2. /\ label' \in [Addr -> Label] /\ free' \subseteq Addr
          /\ sym_label' \in [Names -> Ptr] /\ global_label_stack' \in Seq(Addr)
      BY <2>2, <3>1, <1>k, UpdateTypes
    <3>3. Len(refs) \in Nat /\ DOMAIN refs = 1 .. Len(refs) /\ Len(refs) <= MaxRefs
      BY DEF TypeOK
    <3>4. \A k \in 1 .. Len(refs) : refs[k] \in Ref /\ [refs[k] EXCEPT !.to = Here(n)] \in Ref
      <4> TAKE k \in 1 .. Len(refs)
      <4>1. refs[k] \in Ref
        BY DEF TypeOK
      <4> QED BY <4>1, <1>s DEF Ref
    <3>5. refs' \in [1 .. Len(refs) -> Ref]
      BY <2>2, <3>3, <3>4
    <3>6. refs' \in Seq(Ref) /\ Len(refs') = Len(refs)
      BY <3>3, <3>5
    <3> QED BY <3>2, <3>3, <3>6, <2>1, <1>0 DEF TypeOK
  <2>3. ASSUME NEW a \in Addr, Push(a, Defined(New(n, "DEFINED"), n)), refs' = refs PROVE TypeOK'
    <3>1. Defined(New(n, "DEFINED"), n) \in Label
      BY LabelTypes, DefinedTypes
    <3>2. /\ label' \in [Addr -> Label] /\ free' \subseteq Addr
          /\ sym_label' \in [Names -> Ptr] /\ global_label_stack' \in Seq(Addr)
      BY <2>3, <3>1, <1>v, PushTypes
    <3> QED BY <3>2, <2>1, <2>3, <1>0 DEF TypeOK
  <2> QED BY <2>2, <2>3, <1>3 DEF define_label
<1> QED BY <1>1, <1>2, <1>3

(* And the other steps.                                                    *)
LEMMA OtherTypes ==
    ASSUME TypeOK, Nested, NEW n,
           \/ gen_function \/ open_block \/ close_block \/ end_function
           \/ label_undefined \/ tcc_error
           \/ n \in Names /\ (declare_label(n) \/ label_duplicate(n) \/ init_putv(n))
    PROVE  TypeOK'
<1>0. /\ Len(blocks) \in Nat /\ \A b \in 1 .. Len(blocks) : blocks[b] \in Block
      /\ Len(local_label_stack) \in Nat /\ Len(global_label_stack) \in Nat
      /\ Names \subseteq Names \union {NULL}
  BY DEF TypeOK
<1>i. ASSUME blocks # << >>
      PROVE  /\ Len(blocks) \in 1 .. Len(blocks) /\ Inner \in Block
             /\ Inner.height \in 0 .. Len(local_label_stack)
  <2>1. Len(blocks) \in 1 .. Len(blocks)
    BY <1>0, <1>i DEF TypeOK
  <2> QED BY <2>1, <1>0 DEF Nested, Inner, Block
<1>e. \A what \in {"undefined", "duplicate", "other"}, v \in Names \union {NULL} :
         Error(what, v) => /\ mode' \in {"idle", "waiting", "declare", "body", "undefined"}
                           /\ message' \in Message /\ blocks' \in Seq(Block)
                           /\ residue' \in Nat
                           /\ global_label_stack' \in Seq(Addr) /\ local_label_stack' \in Seq(Addr)
                           /\ opened' \in 0 .. MaxBlocks /\ defs' \subseteq Place
  BY DEF Error, Ended, TypeOK, Message
<1>a. Abandon => /\ label' \in [Addr -> Label] /\ free' \subseteq Addr
                 /\ sym_label' \in [Names -> Ptr]
                 /\ refs' \in Seq(Ref) /\ Len(refs') <= MaxRefs
  BY LabelTypes DEF Abandon, TypeOK
<1>9. CASE n \in Names /\ init_putv(n)
  <2>1. Since \in Seq(Ref) /\ unary(n, Since)
    BY <1>9 DEF init_putv, Since, TypeOK
  <2>2. /\ label' \in [Addr -> Label] /\ free' \subseteq Addr
        /\ sym_label' \in [Names -> Ptr] /\ global_label_stack' \in Seq(Addr)
        /\ refs' \in Seq(Ref) /\ Len(refs') <= MaxRefs
    BY <2>1, <1>9, UnaryTypes
  <2> QED BY <2>2, <1>9, LabelAssumption DEF init_putv, TypeOK, Message, Silent
<1>1. CASE gen_function
  <2>1. refs' \in Seq(Ref) /\ Len(refs') <= MaxRefs
    BY <1>1, LabelAssumption DEF gen_function, Since, TypeOK
  <2> QED BY <2>1, <1>1, LabelAssumption DEF gen_function, TypeOK, Message, Silent
<1>2. CASE open_block
  <2>1. [height |-> Len(local_label_stack), id |-> opened + 1, names |-> {}] \in Block
    BY <1>2, <1>0, LabelAssumption DEF open_block, TypeOK, Block
  <2>2. blocks' \in Seq(Block) /\ opened' \in 0 .. MaxBlocks
    BY <2>1, <1>2, LabelAssumption DEF open_block, TypeOK
  <2> QED BY <2>2, <1>2 DEF open_block, TypeOK
<1>3. CASE close_block
  <2>1. blocks # << >>
    BY <1>3 DEF close_block
  <2>2. /\ label' \in [Addr -> Label] /\ free' \subseteq Addr
        /\ sym_label' \in [Names -> Ptr]
        /\ refs' \in Seq(Ref) /\ Len(refs') = Len(refs)
    <3>1. local_label_stack \in Seq(Addr) /\ label_pop(local_label_stack, Inner.height)
      BY <1>3 DEF close_block, TypeOK
    <3> QED BY <3>1, <2>1, <1>i, PopTypes
  <2>3. local_label_stack' \in Seq(Addr) /\ blocks' \in Seq(Block)
    <3>1. \A s \in Seq(Addr) : \A k \in 0 .. Len(s) : SubSeq(s, 1, k) \in Seq(Addr)
      OBVIOUS
    <3>2. \A s \in Seq(Block) : \A k \in 0 .. Len(s) : SubSeq(s, 1, k) \in Seq(Block)
      OBVIOUS
    <3>3. Len(blocks) - 1 \in 0 .. Len(blocks)
      BY <2>1, <1>i
    <3> QED BY <3>1, <3>2, <3>3, <2>1, <1>i, <1>3 DEF close_block, TypeOK
  <2> QED BY <2>2, <2>3, <1>3 DEF close_block, TypeOK
<1>4. CASE end_function
  <2>1. /\ label' \in [Addr -> Label] /\ free' \subseteq Addr
        /\ sym_label' \in [Names -> Ptr]
        /\ refs' \in Seq(Ref) /\ Len(refs') = Len(refs)
    <3>1. /\ global_label_stack \in Seq(Addr) /\ label_pop(global_label_stack, 0)
          /\ 0 \in 0 .. Len(global_label_stack)
      BY <1>4, <1>0 DEF end_function, TypeOK
    <3> QED BY <3>1, PopTypes
  <2> QED BY <2>1, <1>4 DEF end_function, Ended, TypeOK
<1>5. CASE label_undefined
  <2>1. ASSUME NEW s \in Seq(Addr), NEW h \in 0 .. Len(s), Undefined_at(s, h)
        PROVE  TypeOK'
    <3>1. StopsAt(s, h) \in 1 .. Len(s)
      BY <2>1, Stops DEF Undefined_at, Undefineds
    <3>2. label[s[StopsAt(s, h)]].v \in Names \union {NULL}
      BY <3>1, LabelTypes DEF TypeOK
    <3>3. /\ mode' \in {"idle", "waiting", "declare", "body", "undefined"}
          /\ message' \in Message /\ blocks' \in Seq(Block)
          /\ residue' \in Nat
          /\ global_label_stack' \in Seq(Addr) /\ local_label_stack' \in Seq(Addr)
          /\ opened' \in 0 .. MaxBlocks /\ defs' \subseteq Place
      BY <3>2, <2>1, <1>e DEF Undefined_at
    <3>4. /\ label' \in [Addr -> Label] /\ free' \subseteq Addr
          /\ sym_label' \in [Names -> Ptr]
          /\ refs' \in Seq(Ref) /\ Len(refs') = Len(refs)
      BY <2>1, PopTypes DEF Undefined_at
    <3> QED BY <3>3, <3>4 DEF TypeOK
  <2>2. /\ local_label_stack \in Seq(Addr) /\ global_label_stack \in Seq(Addr)
        /\ 0 \in 0 .. Len(global_label_stack)
    BY <1>0 DEF TypeOK
  <2>3. CASE blocks # << >> /\ Undefined_at(local_label_stack, Inner.height)
    BY <2>1, <2>2, <2>3, <1>i
  <2>4. CASE Undefined_at(global_label_stack, 0)
    BY <2>1, <2>2, <2>4
  <2> QED BY <2>3, <2>4, <1>5 DEF label_undefined
<1>6. CASE tcc_error
  <2>1. Error("other", NULL) /\ Abandon
    BY <1>6 DEF tcc_error
  <2> QED BY <2>1, <1>e, <1>a DEF TypeOK
<1>7. CASE n \in Names /\ declare_label(n)
  <2>0. blocks # << >>
    BY <1>7 DEF declare_label, Nested
  <2>1. blocks' \in Seq(Block)
    <3>1. [Inner EXCEPT !.names = @ \union {n}] \in Block
      BY <2>0, <1>7, <1>i DEF Block
    <3>2. blocks' = [blocks EXCEPT ![Len(blocks)] = [Inner EXCEPT !.names = @ \union {n}]]
      BY <1>7 DEF declare_label, Inner
    <3> QED BY <3>1, <3>2, <2>0, <1>i DEF TypeOK
  <2>2. PICK a \in Addr : /\ label_push(a, New(n, "DECLARED"))
                          /\ local_label_stack' = Append(local_label_stack, a)
    BY <1>7 DEF declare_label
  <2>3. a \in Ptr /\ New(n, "DECLARED") \in Label /\ New(n, "DECLARED").v = n
    BY <1>7, LabelTypes DEF New, TypeOK, label_find, Label, Blank, Ptr
  <2> QED BY <2>1, <2>2, <2>3, <1>7 DEF declare_label, label_push, TypeOK
<1>8. CASE n \in Names /\ label_duplicate(n)
  <2>1. Error("duplicate", n) /\ Abandon
    BY <1>8 DEF label_duplicate
  <2> QED BY <2>1, <1>8, <1>e, <1>a, <1>0 DEF TypeOK
<1> QED BY <1>1, <1>2, <1>3, <1>4, <1>5, <1>6, <1>7, <1>8, <1>9

(* The blocks stay one in the other.                                       *)
LEMMA NestedStep ==
    ASSUME TypeOK, Nested, [Next]_vars PROVE Nested'
<1>0. /\ Len(blocks) \in Nat /\ \A b \in 1 .. Len(blocks) : blocks[b] \in Block
      /\ local_label_stack \in Seq(Addr) /\ Len(local_label_stack) \in Nat /\ opened \in Nat
  BY LabelAssumption DEF TypeOK
<1>b. \A b \in 1 .. Len(blocks) : blocks[b].height \in Nat /\ blocks[b].id \in Nat
  BY <1>0 DEF Block
<1>e. ASSUME blocks' = << >>, mode' # "declare" PROVE Nested'
  BY <1>e DEF Nested
<1>s. ASSUME UNCHANGED <<local_label_stack, blocks, opened>>, mode' = "body",
             mode \in {"body", "declare"}
      PROVE  Nested'
  BY <1>s DEF Nested
<1>1. CASE gen_function
  <2>1. blocks' = << >> /\ mode' # "declare"
    BY <1>1 DEF gen_function, Outside, Nested
  <2> QED BY <2>1, <1>e
<1>2. CASE open_block
  <2>1. /\ Len(blocks') = Len(blocks) + 1
        /\ \A b \in 1 .. Len(blocks) : blocks'[b] = blocks[b]
        /\ blocks'[Len(blocks) + 1].height = Len(local_label_stack)
        /\ blocks'[Len(blocks) + 1].id = opened + 1
    BY <1>2, <1>0 DEF open_block, TypeOK
  <2>2. opened' = opened + 1 /\ mode' = "declare" /\ UNCHANGED local_label_stack
    BY <1>2 DEF open_block
  <2>3. \A b \in 1 .. Len(blocks') : b \in 1 .. Len(blocks) \/ b = Len(blocks) + 1
    BY <2>1, <1>0
  <2>4. \A b \in 1 .. Len(blocks) : /\ blocks[b].height <= Len(local_label_stack)
                                    /\ blocks[b].id < opened + 1 /\ blocks[b].id <= opened + 1
    BY <1>0, <1>b DEF Nested
  <2>5. ASSUME NEW b \in 1 .. Len(blocks')
        PROVE  /\ blocks'[b].height <= Len(local_label_stack')
               /\ blocks'[b].id <= opened'
               /\ \A c \in 1 .. b : blocks'[c].height <= blocks'[b].height
               /\ \A c \in 1 .. b - 1 : blocks'[c].id < blocks'[b].id
    <3>1. CASE b \in 1 .. Len(blocks)
      <4>1. \A c \in 1 .. b : c \in 1 .. Len(blocks)
        BY <3>1, <1>0
      <4>2. \A c \in 1 .. b - 1 : c \in 1 .. Len(blocks)
        BY <3>1, <1>0
      <4> QED BY <3>1, <4>1, <4>2, <2>1, <2>2, <2>4 DEF Nested
    <3>2. CASE b = Len(blocks) + 1
      <4>1. \A c \in 1 .. b : c \in 1 .. Len(blocks) \/ c = b
        BY <3>2, <1>0
      <4>2. \A c \in 1 .. b - 1 : c \in 1 .. Len(blocks)
        BY <3>2, <1>0
      <4> QED BY <3>2, <4>1, <4>2, <2>1, <2>2, <2>4, <1>0
    <3> QED BY <3>1, <3>2, <2>3
  <2>6. blocks' # << >>
    BY <2>1, <1>0
  <2> QED BY <2>2, <2>5, <2>6 DEF Nested
<1>3. CASE close_block
  <2>1. blocks # << >> /\ mode' = "body" /\ UNCHANGED opened
    BY <1>3 DEF close_block
  <2>2. Len(blocks) - 1 \in 0 .. Len(blocks) /\ Len(blocks) \in 1 .. Len(blocks)
    BY <2>1, <1>0 DEF TypeOK
  <2>3. /\ Len(blocks') = Len(blocks) - 1
        /\ \A b \in 1 .. Len(blocks) - 1 : blocks'[b] = blocks[b]
    <3>1. \A s \in Seq(Block) : \A k \in 0 .. Len(s) :
             Len(SubSeq(s, 1, k)) = k /\ \A b \in 1 .. k : SubSeq(s, 1, k)[b] = s[b]
      OBVIOUS
    <3> QED BY <3>1, <2>2, <1>3 DEF close_block, TypeOK
  <2>4. Len(local_label_stack') = Inner.height
    <3>1. Inner.height \in 0 .. Len(local_label_stack)
      BY <2>2, <1>0, <1>b DEF Nested, Inner
    <3> QED BY <3>1, <1>0, <1>3 DEF close_block
  <2>5. ASSUME NEW b \in 1 .. Len(blocks')
        PROVE  /\ blocks'[b].height <= Len(local_label_stack')
               /\ blocks'[b].id <= opened'
               /\ \A c \in 1 .. b : blocks'[c].height <= blocks'[b].height
               /\ \A c \in 1 .. b - 1 : blocks'[c].id < blocks'[b].id
    <3>1. b \in 1 .. Len(blocks) /\ b \in 1 .. Len(blocks) - 1
      BY <2>2, <2>3
    <3>2. \A c \in 1 .. b : c \in 1 .. Len(blocks) - 1
      BY <2>2, <3>1
    <3>3. \A c \in 1 .. b - 1 : c \in 1 .. Len(blocks) - 1
      BY <2>2, <3>1
    <3>4. blocks[b].height <= Inner.height
      BY <2>2, <3>1 DEF Nested, Inner
    <3> QED BY <3>1, <3>2, <3>3, <3>4, <2>1, <2>3, <2>4 DEF Nested
  <2> QED BY <2>1, <2>5 DEF Nested
<1>4. CASE end_function
  <2>1. blocks' = << >> /\ mode' # "declare"
    BY <1>4 DEF end_function
  <2> QED BY <2>1, <1>e
<1>5. CASE label_undefined \/ tcc_error \/ \E n \in Names : label_duplicate(n)
  <2>1. blocks' = << >> /\ mode' # "declare"
    BY <1>5 DEF label_undefined, Undefined_at, tcc_error, label_duplicate, Error
  <2> QED BY <2>1, <1>e
<1>6. ASSUME NEW n \in Names, declare_label(n) PROVE Nested'
  <2>1. PICK a \in Addr : local_label_stack' = Append(local_label_stack, a)
    BY <1>6 DEF declare_label
  <2>2. Len(local_label_stack') = Len(local_label_stack) + 1
    BY <2>1, <1>0
  <2>3. /\ Len(blocks') = Len(blocks)
        /\ \A b \in 1 .. Len(blocks) : /\ blocks'[b].height = blocks[b].height
                                       /\ blocks'[b].id = blocks[b].id
    BY <1>6, <1>0, SMTT(30) DEF declare_label, TypeOK, Block
  <2>4. blocks # << >> /\ mode' = "declare" /\ opened' = opened
    BY <1>6 DEF declare_label, Nested
  <2>5. blocks' # << >>
    BY <2>3, <2>4 DEF TypeOK
  <2>6. \A b \in 1 .. Len(blocks) : \A c \in 1 .. b : c \in 1 .. Len(blocks)
    BY <1>0
  <2>7. \A b \in 1 .. Len(blocks) : \A c \in 1 .. b - 1 : c \in 1 .. Len(blocks)
    BY <1>0
  <2>8. \A b \in 1 .. Len(blocks) : blocks[b].height <= Len(local_label_stack) + 1
    BY <1>0, <1>b DEF Nested
  <2> QED BY <2>2, <2>3, <2>4, <2>5, <2>6, <2>7, <2>8 DEF Nested
<1>7. ASSUME NEW n \in Names, goto(n) \/ take_address(n) \/ define_label(n) PROVE Nested'
  <2>1. /\ UNCHANGED <<local_label_stack, blocks, opened>> /\ mode' = "body"
        /\ mode \in {"body", "declare"}
    BY <1>7 DEF goto, take_address, define_label, Statement
  <2> QED BY <2>1, <1>s
<1>8. CASE UNCHANGED vars
  BY <1>8 DEF vars, Nested
<1>9. ASSUME NEW n \in Names, init_putv(n) PROVE Nested'
  <2>1. blocks' = << >> /\ mode' # "declare"
    BY <1>9 DEF init_putv, Outside, Nested
  <2> QED BY <2>1, <1>e
<1> QED BY <1>1, <1>2, <1>3, <1>4, <1>5, <1>6, <1>7, <1>8, <1>9 DEF Next

(* The types are kept.                                                     *)
LEMMA TypeStep == ASSUME TypeOK, Nested, [Next]_vars PROVE TypeOK'
<1>1. ASSUME NEW n \in Names, goto(n) \/ take_address(n) \/ define_label(n) PROVE TypeOK'
  BY <1>1, StatementTypes
<1>2. ASSUME NEW n \in Names, declare_label(n) \/ label_duplicate(n) \/ init_putv(n)
      PROVE  TypeOK'
  BY <1>2, OtherTypes
<1>3. CASE gen_function \/ open_block \/ close_block \/ end_function
           \/ label_undefined \/ tcc_error
  BY <1>3, OtherTypes
<1>4. CASE UNCHANGED vars
  BY <1>4 DEF vars, TypeOK
<1> QED BY <1>1, <1>2, <1>3, <1>4 DEF Next

-----------------------------------------------------------------------------
(* The two stacks as one.                                                  *)
LEMMA Heights ==
    ASSUME TypeOK
    PROVE  /\ Scope \in Seq(Addr) /\ Len(global_label_stack) \in Nat
           /\ Len(local_label_stack) \in Nat
           /\ Len(Scope) = Len(global_label_stack) + Len(local_label_stack)
           /\ \A i \in 1 .. Len(global_label_stack) :
                 i \in 1 .. Len(Scope) /\ Scope[i] = global_label_stack[i]
           /\ \A j \in 1 .. Len(local_label_stack) :
                 /\ Len(global_label_stack) + j \in 1 .. Len(Scope)
                 /\ Scope[Len(global_label_stack) + j] = local_label_stack[j]
           /\ \A i \in 1 .. Len(Scope) :
                 \/ i \in 1 .. Len(global_label_stack)
                 \/ \E j \in 1 .. Len(local_label_stack) : i = Len(global_label_stack) + j
<1> DEFINE g == global_label_stack
           l == local_label_stack
<1>1. g \in Seq(Addr) /\ l \in Seq(Addr)
  BY DEF TypeOK
<1>2. /\ Scope \in Seq(Addr) /\ Len(g) \in Nat /\ Len(l) \in Nat
      /\ Len(Scope) = Len(g) + Len(l)
      /\ \A i \in 1 .. Len(g) : Scope[i] = g[i]
      /\ \A j \in 1 .. Len(l) : Scope[Len(g) + j] = l[j]
  BY <1>1 DEF Scope
<1>3. ASSUME NEW i \in 1 .. Len(Scope), i \notin 1 .. Len(g)
      PROVE  \E j \in 1 .. Len(l) : i = Len(g) + j
  <2>1. i - Len(g) \in 1 .. Len(l) /\ i = Len(g) + (i - Len(g))
    BY <1>2, <1>3
  <2> QED BY <2>1
<1>4. \A i \in 1 .. Len(g) : i \in 1 .. Len(Scope)
  BY <1>2
<1>5. \A j \in 1 .. Len(l) : Len(g) + j \in 1 .. Len(Scope)
  BY <1>2
<1> QED BY <1>2, <1>3, <1>4, <1>5

(* A Sym is at one place of the stacks.                                    *)
LEMMA Distinct ==
    ASSUME TypeOK, Allocated
    PROVE  /\ \A i, j \in 1 .. Len(global_label_stack) :
                 global_label_stack[i] = global_label_stack[j] => i = j
           /\ \A i, j \in 1 .. Len(local_label_stack) :
                 local_label_stack[i] = local_label_stack[j] => i = j
           /\ \A i \in 1 .. Len(global_label_stack), j \in 1 .. Len(local_label_stack) :
                 global_label_stack[i] # local_label_stack[j]
           /\ OnStack = {Scope[i] : i \in 1 .. Len(Scope)}
           /\ free = Addr \ OnStack
           /\ \A a \in OnStack : a \in Addr /\ a \notin free
<1> DEFINE G == Len(global_label_stack)
           L == Len(local_label_stack)
<1>1. G \in Nat /\ L \in Nat
  BY Heights
<1>2. \A i, j \in 1 .. Len(Scope) : Scope[i] = Scope[j] => i = j
  BY DEF Allocated, Allotted
<1>3. \A i, j \in 1 .. L : G + i = G + j => i = j
  BY <1>1
<1>4. \A i \in 1 .. G, j \in 1 .. L : i # G + j
  BY <1>1
<1>5. OnStack = {Scope[i] : i \in 1 .. Len(Scope)}
  <2>1. /\ DOMAIN global_label_stack = 1 .. G /\ DOMAIN local_label_stack = 1 .. L
    BY DEF TypeOK
  <2>2. \A x : x \in OnStack <=> \/ \E i \in 1 .. G : x = global_label_stack[i]
                                 \/ \E j \in 1 .. L : x = local_label_stack[j]
    BY <2>1 DEF OnStack
  <2>3. \A x : x \in {Scope[i] : i \in 1 .. Len(Scope)} <=> x \in OnStack
    <3> TAKE x
    <3>1. x \in OnStack => \E i \in 1 .. Len(Scope) : x = Scope[i]
      BY <2>2, Heights
    <3>2. ASSUME NEW i \in 1 .. Len(Scope) PROVE Scope[i] \in OnStack
      <4>1. \/ i \in 1 .. G
            \/ \E j \in 1 .. L : i = G + j
        BY Heights
      <4> QED BY <4>1, <2>2, Heights
    <3> QED BY <3>1, <3>2
  <2> QED BY <2>3
<1>6. free = Addr \ OnStack
  BY <1>5 DEF Allocated, Allotted
<1>7. \A a \in OnStack : a \in Addr
  BY <1>5, Heights
<1>8. /\ \A i, j \in 1 .. G : global_label_stack[i] = global_label_stack[j] => i = j
      /\ \A i, j \in 1 .. L : local_label_stack[i] = local_label_stack[j] => i = j
      /\ \A i \in 1 .. G, j \in 1 .. L : global_label_stack[i] # local_label_stack[j]
  BY <1>2, <1>3, <1>4, Heights
<1> QED BY <1>5, <1>6, <1>7, <1>8

(* A local label is of one block, and a label further up of a block that   *)
(* is not further out.                                                     *)
LEMMA InOne ==
    ASSUME TypeOK, Nested, NEW i \in Nat, NEW j \in Nat, i <= j,
           NEW b \in 1 .. Len(blocks), NEW c \in 1 .. Len(blocks), In(i, b), In(j, c)
    PROVE  b <= c /\ (i = j => b = c)
<1>1. \A x, y \in 1 .. Len(blocks) : x < y =>
         /\ x + 1 \in 1 .. y /\ y \in 1 .. Len(blocks) /\ x < Len(blocks)
         /\ x + 1 \in 1 .. Len(blocks)
  BY DEF TypeOK
<1>2. \A x \in 1 .. Len(blocks) : blocks[x].height \in Nat
  <2>1. \A x \in 1 .. Len(blocks) : blocks[x] \in Block
    BY DEF TypeOK
  <2> QED BY <2>1 DEF Block
<1>3. \A x, y \in 1 .. Len(blocks) : x < y =>
         blocks[x + 1].height <= blocks[y].height /\ blocks[x + 1].height \in Nat
  BY <1>1, <1>2 DEF Nested
<1>4. ASSUME NEW x \in 1 .. Len(blocks), NEW y \in 1 .. Len(blocks), x < y,
             NEW k \in Nat, NEW m \in Nat, In(k, x), In(m, y)
      PROVE  k < m
  <2>1. k <= blocks[x + 1].height /\ blocks[y].height < m
    BY <1>1, <1>4 DEF In
  <2> QED BY <2>1, <1>2, <1>3, <1>4
<1>5. ~(c < b)
  BY <1>4
<1>6. i = j => ~(b < c)
  BY <1>4
<1> QED BY <1>5, <1>6

(* Blocks have numbers of their own.                                       *)
LEMMA BlockIds ==
    ASSUME TypeOK, Nested
    PROVE  /\ \A b \in 1 .. Len(blocks) : blocks[b].id \in 1 .. MaxBlocks
           /\ \A b, c \in 1 .. Len(blocks) : blocks[b].id = blocks[c].id => b = c
<1>1. \A b \in 1 .. Len(blocks) : blocks[b].id \in 1 .. MaxBlocks
  <2>1. \A b \in 1 .. Len(blocks) : blocks[b] \in Block
    BY DEF TypeOK
  <2> QED BY <2>1 DEF Block
<1>2. ASSUME NEW b \in 1 .. Len(blocks), NEW c \in 1 .. Len(blocks), b < c
      PROVE  blocks[b].id # blocks[c].id
  <2>1. b \in 1 .. c - 1
    BY <1>2
  <2> QED BY <2>1, <1>1 DEF Nested
<1> QED BY <1>1, <1>2

(* A label of the stacks is a place, by its name and its block, and one    *)
(* only.                                                                   *)
LEMMA AtOne ==
    ASSUME IInv, residue = 0
    PROVE  /\ \A a \in OnStack : label[a].v \in Names /\ \E q \in Place : At(a, q)
           /\ \A a, q : At(a, q) => a \in OnStack /\ q \in Place /\ q.v = label[a].v
<1> USE DEF IInv
<1>1. /\ DOMAIN global_label_stack = 1 .. Len(global_label_stack)
      /\ DOMAIN local_label_stack = 1 .. Len(local_label_stack)
  BY DEF TypeOK
<1>2. Allocated /\ Owned /\ \A i \in 1 .. Len(Scope) : label[Scope[i]].v \in Names
  BY DEF LabelInv
<1>3. \A a \in OnStack : label[a].v \in Names
  BY <1>2, Distinct
<1>4. 0 \in 0 .. MaxBlocks /\ \A b \in 1 .. Len(blocks) : blocks[b].id \in 0 .. MaxBlocks
  BY BlockIds, LabelAssumption
<1>5. ASSUME NEW a \in OnStack PROVE \E q \in Place : At(a, q)
  <2>1. CASE \E i \in 1 .. Len(global_label_stack) : global_label_stack[i] = a
    <3>1. [v |-> label[a].v, scope |-> 0] \in Place
      BY <1>3, <1>4, <1>5 DEF Place
    <3> QED BY <3>1, <2>1 DEF At, GlobalAt
  <2>2. ASSUME NEW j \in 1 .. Len(local_label_stack), local_label_stack[j] = a
        PROVE  \E q \in Place : At(a, q)
    <3>1. PICK b \in 1 .. Len(blocks) : In(j, b)
      BY <1>2 DEF Owned
    <3>2. [v |-> label[a].v, scope |-> blocks[b].id] \in Place
      BY <1>3, <1>4, <1>5 DEF Place
    <3> QED BY <3>1, <3>2, <2>2 DEF At, LocalAt
  <2> QED BY <2>1, <2>2, <1>1 DEF OnStack
<1>6. ASSUME NEW a, NEW q, At(a, q) PROVE a \in OnStack /\ q \in Place /\ q.v = label[a].v
  <2>1. a \in OnStack
    BY <1>1, <1>6 DEF At, GlobalAt, LocalAt, OnStack
  <2>2. label[a].v \in Names
    BY <2>1, <1>3
  <2> QED BY <2>1, <2>2, <1>4, <1>6 DEF At, GlobalAt, LocalAt, Place
<1> QED BY <1>3, <1>5, <1>6

(* What a name leads to: to the label that the blocks say, and that is not *)
(* hidden.                                                                 *)
LEMMA Reach ==
    ASSUME IInv, residue = 0, NEW n \in Names
    PROVE  \/ /\ sym_label[n] = NULL /\ ScopeOf(n) = 0
              /\ \A i \in 1 .. Len(Scope) : label[Scope[i]].v # n
           \/ /\ sym_label[n] \in OnStack /\ label[sym_label[n]].v = n
              /\ At(sym_label[n], Here(n)) /\ ~Hidden(sym_label[n])
              /\ \A c : At(c, Here(n)) /\ c # sym_label[n] => Hidden(c)
<1> USE DEF IInv
<1> DEFINE G == Len(global_label_stack)
           L == Len(local_label_stack)
           a == sym_label[n]
<1>1. /\ Allocated /\ Owned /\ IsNewest(NULL, Scope, label, n, Len(Scope), a)
      /\ DOMAIN global_label_stack = 1 .. G /\ DOMAIN local_label_stack = 1 .. L
  BY DEF LabelInv, IsScope, TypeOK
<1>2. ASSUME \A j \in 1 .. L : label[local_label_stack[j]].v # n
      PROVE  ScopeOf(n) = 0
  <2>1. \A b \in 1 .. Len(blocks) : n \notin blocks[b].names
    BY <1>1, <1>2 DEF Owned
  <2> QED BY <2>1, ScopeIs
<1>3. CASE a = NULL /\ \A i \in 1 .. Len(Scope) : label[Scope[i]].v # n
  BY <1>2, <1>3, Heights
<1>4. ASSUME NEW k \in 1 .. G, global_label_stack[k] = a, label[a].v = n,
             \A i \in k + 1 .. Len(Scope) : label[Scope[i]].v # n
      PROVE  /\ a \in OnStack /\ label[a].v = n
             /\ At(a, Here(n)) /\ ~Hidden(a)
             /\ \A c : At(c, Here(n)) /\ c # a => Hidden(c)
  <2>1. \A j \in 1 .. L : label[local_label_stack[j]].v # n
    <3> TAKE j \in 1 .. L
    <3>1. G + j \in k + 1 .. Len(Scope) /\ Scope[G + j] = local_label_stack[j]
      BY Heights
    <3> QED BY <3>1, <1>4
  <2>2. Here(n) = [v |-> n, scope |-> 0]
    BY <2>1, <1>2 DEF Here
  <2>3. At(a, Here(n))
    BY <2>2, <1>4 DEF At, GlobalAt
  <2>4. ~Hidden(a)
    BY <1>1, <1>4, Distinct DEF Hidden
  <2>5. ASSUME NEW c, At(c, Here(n)) PROVE c = a
    <3>1. ~LocalAt(c, Here(n))
      <4>1. ASSUME LocalAt(c, Here(n)) PROVE label[c].v = n
        BY <2>2, <4>1 DEF LocalAt
      <4>2. LocalAt(c, Here(n)) => \E j \in 1 .. L : local_label_stack[j] = c
        BY DEF LocalAt
      <4> QED BY <4>1, <4>2, <2>1
    <3> QED BY <3>1, <2>2, <2>5, <1>1, <1>4 DEF At, GlobalAt, Owned
  <2>6. a \in OnStack
    BY <1>1, <1>4 DEF OnStack
  <2> HIDE DEF a
  <2> QED BY <2>3, <2>4, <2>5, <2>6, <1>4
<1>5. ASSUME NEW k \in 1 .. L, local_label_stack[k] = a, label[a].v = n,
             \A i \in G + k + 1 .. Len(Scope) : label[Scope[i]].v # n
      PROVE  /\ a \in OnStack /\ label[a].v = n
             /\ At(a, Here(n)) /\ ~Hidden(a)
             /\ \A c : At(c, Here(n)) /\ c # a => Hidden(c)
  <2>0. L \in Nat
    BY Heights
  <2>1. \A j \in k + 1 .. L : label[local_label_stack[j]].v # n
    <3> TAKE j \in k + 1 .. L
    <3>1. j \in 1 .. L
      OBVIOUS
    <3>2. G + j \in G + k + 1 .. Len(Scope) /\ Scope[G + j] = local_label_stack[j]
      BY <3>1, Heights
    <3> QED BY <3>2, <1>5
  <2>2. PICK b \in 1 .. Len(blocks) : In(k, b)
    BY <1>1 DEF Owned
  <2>3. n \in blocks[b].names
    BY <2>2, <1>1, <1>5 DEF Owned
  <2>4. ASSUME NEW c \in 1 .. Len(blocks), n \in blocks[c].names PROVE c <= b
    <3>1. PICK j \in 1 .. L : In(j, c) /\ label[local_label_stack[j]].v = n
      BY <2>4, <1>1 DEF Owned
    <3>2. j <= k
      BY <3>1, <2>0, <2>1
    <3> QED BY <3>1, <3>2, <2>2, InOne
  <2>5. ScopeOf(n) = blocks[b].id
    <3>1. PICK c \in 1 .. Len(blocks) :
             /\ n \in blocks[c].names /\ ScopeOf(n) = blocks[c].id
             /\ \A e \in c + 1 .. Len(blocks) : n \notin blocks[e].names
      BY <2>3, ScopeIs
    <3>2. c <= b /\ ~(c < b)
      BY <3>1, <2>3, <2>4
    <3> QED BY <3>1, <3>2
  <2>6. Here(n) = [v |-> n, scope |-> blocks[b].id] /\ blocks[b].id # 0
    BY <2>5, BlockIds DEF Here
  <2>7. At(a, Here(n))
    BY <2>2, <2>6, <1>5 DEF At, LocalAt
  <2>8. ~Hidden(a)
    <3>1. ASSUME NEW i \in 1 .. L, NEW j \in 1 .. L, i < j, local_label_stack[i] = a,
                 label[local_label_stack[j]].v = label[a].v
          PROVE  FALSE
      <4>1. i = k
        BY <3>1, <1>1, <1>5, Distinct
      <4> QED BY <4>1, <3>1, <2>0, <2>1, <1>5
    <3> QED BY <3>1 DEF Hidden
  <2>9. ASSUME NEW c, At(c, Here(n)), c # a PROVE Hidden(c)
    <3>1. PICK j \in 1 .. L, e \in 1 .. Len(blocks) :
             /\ local_label_stack[j] = c /\ In(j, e)
             /\ Here(n) = [v |-> label[c].v, scope |-> blocks[e].id]
      BY <2>6, <2>9 DEF At, GlobalAt, LocalAt
    <3>2. e = b /\ label[c].v = n
      BY <3>1, <2>6, BlockIds
    <3>3. j # k /\ ~(j \in k + 1 .. L)
      BY <3>1, <3>2, <2>1, <2>9, <1>5
    <3>4. j < k
      BY <3>3, <2>0
    <3> QED BY <3>1, <3>2, <3>4, <2>2, <1>5 DEF Hidden
  <2>10. a \in OnStack
    BY <1>1, <1>5 DEF OnStack
  <2> HIDE DEF a
  <2> QED BY <2>7, <2>8, <2>9, <2>10, <1>5
<1>6. CASE \E k \in 1 .. Len(Scope) : /\ Scope[k] = a /\ label[a].v = n
                                      /\ \A i \in k + 1 .. Len(Scope) : label[Scope[i]].v # n
  <2>1. PICK k \in 1 .. Len(Scope) : /\ Scope[k] = a /\ label[a].v = n
                                     /\ \A i \in k + 1 .. Len(Scope) : label[Scope[i]].v # n
    BY <1>6
  <2>2. CASE k \in 1 .. G
    <3>1. global_label_stack[k] = a
      BY <2>1, <2>2, Heights
    <3> QED BY <3>1, <2>1, <2>2, <1>4
  <2>3. CASE \E j \in 1 .. L : k = G + j
    <3>1. PICK j \in 1 .. L : k = G + j
      BY <2>3
    <3>2. local_label_stack[j] = a /\ \A i \in G + j + 1 .. Len(Scope) : label[Scope[i]].v # n
      BY <2>1, <3>1, Heights
    <3> QED BY <3>2, <2>1, <1>5
  <2> QED BY <2>2, <2>3, Heights
<1> QED BY <1>1, <1>3, <1>6 DEF IsNewest

-----------------------------------------------------------------------------
(* A statement about n adds gotos and defines n at most.                   *)
Grows(n) ==
    /\ Len(refs') \in Nat /\ Len(refs) <= Len(refs')
    /\ \A k \in 1 .. Len(refs) : refs'[k].v = refs[k].v /\ refs'[k].scope = refs[k].scope
    /\ defs \subseteq defs' /\ defs' \subseteq defs \union {Here(n)}

(* What it leaves of the label s that n leads to.                          *)
Held(n, s) ==
    /\ \A k \in s.chain \union s.c :
          k \in 1 .. Len(refs') /\ refs'[k].v = n /\ refs'[k].scope = ScopeOf(n)
    /\ \/ s.r = "DEFINED" /\ s.address = Here(n) /\ s.chain = {} /\ Here(n) \in defs'
       \/ s.r = "FORWARD" /\ s.chain \union s.c # {} /\ Here(n) \notin defs'

(* The Sym a is the one that a statement about n looks at, the others stay.*)
Only(n, a) ==
    /\ \A q : At(a, q)' => q = Here(n)
    /\ ~Hidden(a)'
    /\ \A c \in Addr : c # a =>
          /\ label'[c] = label[c] /\ (Hidden(c)' <=> Hidden(c))
          /\ \A q : At(c, q)' => At(c, q) /\ (q = Here(n) => Hidden(c))

(* The labels are then as they should be.                                  *)
LEMMA StatementContents ==
    ASSUME TypeOK, Contents, NEW n \in Names, NEW a \in Addr,
           Grows(n), Held(n, label'[a]), Only(n, a)
    PROVE  Contents'
<1> SUFFICES ASSUME NEW c \in Addr, NEW q \in Place, At(c, q)'
             PROVE  Content(c, q)'
  BY DEF Contents
<1>1. Here(n).v = n /\ Here(n).scope = ScopeOf(n)
  BY DEF Here
<1>2. CASE c = a
  <2>1. q = Here(n) /\ ~Hidden(c)'
    BY <1>2 DEF Only
  <2> QED BY <2>1, <1>1, <1>2 DEF Held, Content, Names_it, Waiting
<1>3. CASE c # a
  <2>1. /\ label'[c] = label[c] /\ (Hidden(c)' <=> Hidden(c))
        /\ At(c, q) /\ (q = Here(n) => Hidden(c))
    BY <1>3 DEF Only
  <2>2. Content(c, q)
    BY <2>1 DEF Contents
  <2>3. Names_it(c, q)'
    <3>1. ASSUME NEW k \in Waiting(c)
          PROVE  k \in 1 .. Len(refs') /\ refs'[k].v = q.v /\ refs'[k].scope = q.scope
      <4>1. k \in 1 .. Len(refs) /\ refs[k].v = q.v /\ refs[k].scope = q.scope
        BY <2>2, <3>1 DEF Content, Names_it
      <4>2. k \in 1 .. Len(refs')
        BY <4>1 DEF Grows, TypeOK
      <4> QED BY <4>1, <4>2 DEF Grows
    <3>2. Waiting(c)' = Waiting(c)
      BY <2>1 DEF Waiting
    <3> QED BY <3>1, <3>2 DEF Names_it
  <2>4. CASE q = Here(n)
    <3>1. Hidden(c)' /\ label[c].r # "DEFINED" /\ label[c].r # "FORWARD"
          /\ (label[c].r = "DECLARED" => Waiting(c) = {})
      BY <2>1, <2>2, <2>4 DEF Content
    <3> QED BY <3>1, <2>1, <2>3 DEF Content, Waiting
  <2>5. CASE q # Here(n)
    <3>1. q \in defs' <=> q \in defs
      BY <2>5 DEF Grows
    <3> QED BY <3>1, <2>1, <2>2, <2>3 DEF Content, Waiting
  <2> QED BY <2>4, <2>5
<1> QED BY <1>2, <1>3

(* What goes on is a function's statement, or an initializer after others. *)
Steady ==
    /\ mode \in {"body", "declare", "waiting"} /\ mode' \in {"body", "waiting"}
    /\ UNCHANGED <<local_label_stack, blocks, opened, residue>>

(* A statement is.                                                         *)
LEMMA StatementSteady == Statement => Steady
BY DEF Statement, Steady

(* A statement about a label that is known.                                *)
LEMMA KnownStep ==
    ASSUME IInv, residue = 0, NEW n \in Names, NEW s,
           Steady, Known(n), Update(label_find(n), s),
           s.v = n, s.prev_tok = label[label_find(n)].prev_tok,
           Grows(n), Held(n, s), Bound'
    PROVE  LabelInv'
<1> USE DEF IInv
<1>a. PICK a : a = sym_label[n]
  OBVIOUS
<1>0. /\ Allocated /\ Owned /\ Contents /\ Defs
      /\ IsScope(Names, NULL, Scope, label, sym_label)
      /\ \A i \in 1 .. Len(Scope) : label[Scope[i]].v \in Names
  BY DEF LabelInv, Steady
<1>1. /\ UNCHANGED <<free, sym_label, global_label_stack, local_label_stack, blocks>>
      /\ opened' = opened /\ residue' = residue /\ mode' \in {"body", "waiting"}
      /\ label' = [label EXCEPT ![a] = s]
  BY <1>a DEF Steady, Update, label_find
<1>2. /\ a \in OnStack /\ label[a].v = n /\ At(a, Here(n)) /\ ~Hidden(a)
      /\ \A c : At(c, Here(n)) /\ c # a => Hidden(c)
  BY <1>a, Reach DEF Known, label_find
<1>3. a \in Addr /\ s.prev_tok = label[a].prev_tok
  BY <1>0, <1>2, <1>a, Distinct DEF label_find
<1>4. /\ label'[a] = s
      /\ \A c \in Addr : /\ c # a => label'[c] = label[c]
                         /\ label'[c].v = label[c].v /\ label'[c].prev_tok = label[c].prev_tok
  BY <1>1, <1>2, <1>3 DEF TypeOK
<1>5. /\ \A i \in 1 .. Len(global_label_stack) : global_label_stack[i] \in Addr
      /\ \A j \in 1 .. Len(local_label_stack) : local_label_stack[j] \in Addr
      /\ Scope' = Scope /\ \A i \in 1 .. Len(Scope) : Scope[i] \in Addr
      /\ \A j, b : In(j, b)' <=> In(j, b)
  <2>1. Scope' = Scope /\ \A j, b : In(j, b)' <=> In(j, b)
    BY <1>1 DEF Scope, In
  <2>2. \A i \in 1 .. Len(Scope) : Scope[i] \in Addr
    BY Heights
  <2> QED BY <2>1, <2>2 DEF TypeOK
<1>6. Allocated'
  BY <1>0, <1>1, <1>5 DEF Allocated
<1>7. Owned'
  BY <1>0, <1>1, <1>4, <1>5 DEF Owned
<1>8. \A c \in Addr : /\ Hidden(c)' <=> Hidden(c)
                      /\ \A q : At(c, q)' <=> At(c, q)
  <2>1. \A c \in Addr : Hidden(c)' <=> Hidden(c)
    BY <1>1, <1>4, <1>5, SMTT(30) DEF Hidden
  <2>2. \A c \in Addr : \A q : GlobalAt(c, q)' <=> GlobalAt(c, q)
    BY <1>1, <1>4, <1>5 DEF GlobalAt
  <2>3. \A c \in Addr : \A q : LocalAt(c, q)' <=> LocalAt(c, q)
    BY <1>1, <1>4, <1>5 DEF LocalAt
  <2> QED BY <2>1, <2>2, <2>3 DEF At
<1>9. Only(n, a)
  <2>1. \A q : At(a, q) => q = Here(n)
    <3>1. \A q : GlobalAt(a, q) => q = [v |-> n, scope |-> 0]
      BY <1>2 DEF GlobalAt
    <3>2. \A q : LocalAt(a, q) =>
             \E j \in 1 .. Len(local_label_stack), b \in 1 .. Len(blocks) :
               /\ local_label_stack[j] = a /\ In(j, b)
               /\ q = [v |-> n, scope |-> blocks[b].id]
      BY <1>2 DEF LocalAt
    <3>3. \A i, j \in 1 .. Len(local_label_stack), b, c \in 1 .. Len(blocks) :
             local_label_stack[i] = local_label_stack[j] /\ In(i, b) /\ In(j, c) => b = c
      <4> TAKE i, j \in 1 .. Len(local_label_stack), b, c \in 1 .. Len(blocks)
      <4>1. i \in Nat /\ j \in Nat /\ (local_label_stack[i] = local_label_stack[j] => i = j)
        BY <1>0, Distinct
      <4> QED BY <4>1, InOne
    <3>4. GlobalAt(a, Here(n)) => \A q : ~LocalAt(a, q)
      BY <1>0, Distinct DEF GlobalAt, LocalAt
    <3>5. LocalAt(a, Here(n)) => \A q : ~GlobalAt(a, q)
      BY <1>0, Distinct DEF GlobalAt, LocalAt
    <3>6. LocalAt(a, Here(n)) => \A q : LocalAt(a, q) => q = Here(n)
      BY <3>2, <3>3
    <3> QED BY <3>1, <3>4, <3>5, <3>6, <1>2 DEF At
  <2>2. (\A q : At(a, q)' => q = Here(n)) /\ ~Hidden(a)'
    BY <2>1, <1>2, <1>3, <1>8
  <2>3. ASSUME NEW c \in Addr, c # a
        PROVE  /\ label'[c] = label[c] /\ (Hidden(c)' <=> Hidden(c))
               /\ \A q : At(c, q)' => At(c, q) /\ (q = Here(n) => Hidden(c))
    <3>1. \A q : At(c, q)' <=> At(c, q)
      BY <1>8
    <3>2. At(c, Here(n)) => Hidden(c)
      BY <2>3, <1>2
    <3> QED BY <3>1, <3>2, <2>3, <1>4, <1>8
  <2> QED BY <2>2, <2>3 DEF Only
<1>10. Contents'
  BY <1>0, <1>3, <1>4, <1>9, StatementContents
<1>11. Defs'
  <2>1. Here(n).scope <= opened
    <3>1. Here(n).scope = ScopeOf(n)
      BY DEF Here
    <3>2. \/ ScopeOf(n) = 0 /\ 0 <= opened
          \/ \E b \in 1 .. Len(blocks) : ScopeOf(n) = blocks[b].id
      BY ScopeIs, LabelAssumption DEF TypeOK
    <3> QED BY <3>1, <3>2 DEF Nested
  <2>2. Here(n).scope = 0 =>
          \E i \in 1 .. Len(global_label_stack) : label[global_label_stack[i]].v = Here(n).v
    <3>1. ASSUME LocalAt(a, Here(n)) PROVE Here(n).scope # 0
      BY <3>1, BlockIds DEF LocalAt
    <3>2. GlobalAt(a, Here(n)) =>
             \E i \in 1 .. Len(global_label_stack) : label[global_label_stack[i]].v = Here(n).v
      BY DEF GlobalAt
    <3> QED BY <3>1, <3>2, <1>2 DEF At
  <2>3. \A q \in defs' : q \in defs \/ q = Here(n)
    BY DEF Grows
  <2>4. \A i \in 1 .. Len(global_label_stack) :
           label'[global_label_stack'[i]].v = label[global_label_stack[i]].v
    BY <1>1, <1>4, <1>5
  <2>5. \A q \in defs' : q.scope <= opened'
    BY <2>1, <2>3, <1>0, <1>1 DEF Defs
  <2>6. \A q \in defs' : q.scope = 0 =>
          \E i \in 1 .. Len(global_label_stack') : label'[global_label_stack'[i]].v = q.v
    BY <2>2, <2>3, <2>4, <1>0, <1>1 DEF Defs
  <2> QED BY <2>5, <2>6, <1>1 DEF Defs
<1>12. IsScope(Names, NULL, Scope', label', sym_label')
  <2>1. SameSyms(Scope, label, label')
    BY <1>4, <1>5 DEF SameSyms
  <2> QED BY <2>1, <1>0, <1>1, <1>5, Heights, ScopeSame
<1>13. \A i \in 1 .. Len(Scope') : label'[Scope'[i]].v \in Names
  BY <1>0, <1>4, <1>5
<1> QED BY <1>1, <1>6, <1>7, <1>10, <1>11, <1>12, <1>13 DEF LabelInv

(* A statement about a label that is not: it goes on the lower stack.      *)
LEMMA NewStep ==
    ASSUME IInv, residue = 0, NEW n \in Names, NEW a, NEW s,
           Steady, ~Known(n), Push(a, s), s.v = n, s.prev_tok = NULL,
           Grows(n), Held(n, s), Bound'
    PROVE  LabelInv'
<1> USE DEF IInv
<1> DEFINE G == Len(global_label_stack)
<1>0. /\ Allocated /\ Owned /\ Contents /\ Defs
      /\ IsScope(Names, NULL, Scope, label, sym_label)
      /\ \A i \in 1 .. Len(Scope) : label[Scope[i]].v \in Names
  BY DEF LabelInv, Steady
<1>1. /\ UNCHANGED <<local_label_stack, blocks>> /\ a \in free /\ free' = free \ {a}
      /\ opened' = opened /\ residue' = residue /\ mode' \in {"body", "waiting"}
      /\ label' = [label EXCEPT ![a] = s]
      /\ sym_label' = [sym_label EXCEPT ![n] = a]
      /\ global_label_stack' = Append(global_label_stack, a)
  BY DEF Steady, Push, label_push
<1>2. /\ sym_label[n] = NULL /\ ScopeOf(n) = 0
      /\ \A i \in 1 .. Len(Scope) : label[Scope[i]].v # n
  <2>1. NULL \notin OnStack
    BY <1>0, Distinct, LabelAssumption
  <2> QED BY <2>1, Reach DEF Known, label_find
<1>3. /\ a \in Addr /\ a \notin OnStack /\ OnStack \subseteq Addr
      /\ \A i \in 1 .. Len(Scope) : Scope[i] \in OnStack
      /\ \A i \in 1 .. G : global_label_stack[i] \in OnStack
      /\ \A j \in 1 .. Len(local_label_stack) : local_label_stack[j] \in OnStack
  <2>1. a \in Addr /\ a \notin OnStack /\ OnStack \subseteq Addr
        /\ \A i \in 1 .. Len(Scope) : Scope[i] \in OnStack
    BY <1>0, <1>1, Distinct
  <2>2. /\ DOMAIN global_label_stack = 1 .. G
        /\ DOMAIN local_label_stack = 1 .. Len(local_label_stack)
    BY DEF TypeOK
  <2> QED BY <2>1, <2>2 DEF OnStack
<1>4. /\ label'[a] = s /\ \A c \in Addr : c # a => label'[c] = label[c]
  BY <1>1, <1>3 DEF TypeOK
<1>5. /\ \A c \in OnStack : label'[c] = label[c] /\ c # a /\ label[c].v # n
      /\ \A j, b : In(j, b)' <=> In(j, b)
  <2>1. \A c \in OnStack : label[c].v # n
    BY <1>0, <1>2, Distinct
  <2>2. \A j, b : In(j, b)' <=> In(j, b)
    BY <1>1 DEF In
  <2> QED BY <2>1, <2>2, <1>3, <1>4
<1>6. /\ G \in Nat /\ Len(global_label_stack') = G + 1 /\ global_label_stack'[G + 1] = a
      /\ \A i \in 1 .. G : i \in 1 .. G + 1 /\ global_label_stack'[i] = global_label_stack[i]
      /\ \A i \in 1 .. G + 1 : i \in 1 .. G \/ i = G + 1
      /\ G + 1 \in 1 .. G + 1
      /\ global_label_stack \in Seq(Addr) /\ local_label_stack \in Seq(Addr)
  BY <1>1 DEF TypeOK
<1> HIDE DEF G
<1>7. Scope' = Append(global_label_stack, a) \o local_label_stack
  BY <1>1 DEF Scope
<1>8. Allocated'
  <2>1. Allotted(Addr, free, global_label_stack \o local_label_stack)
    BY <1>0 DEF Allocated, Scope
  <2>2. Allotted(Addr, free \ {a}, Append(global_label_stack, a) \o local_label_stack)
    BY <2>1, <1>1, <1>6, AllottedInsert
  <2> QED BY <2>2, <1>1, <1>7 DEF Allocated
<1>9. Owned'
  <2>1. \A j \in 1 .. Len(local_label_stack) :
           label'[local_label_stack[j]].v = label[local_label_stack[j]].v
    BY <1>3, <1>5
  <2>2. \A i, j \in 1 .. G + 1 :
           label'[global_label_stack'[i]].v = label'[global_label_stack'[j]].v => i = j
    <3> TAKE i, j \in 1 .. G + 1
    <3>1. CASE i \in 1 .. G /\ j \in 1 .. G
      BY <3>1, <1>0, <1>3, <1>5, <1>6 DEF Owned, G
    <3>2. CASE i = G + 1 /\ j \in 1 .. G
      BY <3>2, <1>3, <1>4, <1>5, <1>6
    <3>3. CASE i \in 1 .. G /\ j = G + 1
      BY <3>3, <1>3, <1>4, <1>5, <1>6
    <3> QED BY <3>1, <3>2, <3>3, <1>6
  <2>3. /\ \A j \in 1 .. Len(local_label_stack') : \E b \in 1 .. Len(blocks') : In(j, b)'
        /\ \A b \in 1 .. Len(blocks'), w \in Names :
             w \in blocks'[b].names <=>
                \E j \in 1 .. Len(local_label_stack') :
                   In(j, b)' /\ label'[local_label_stack'[j]].v = w
    <3>1. \A j \in 1 .. Len(local_label_stack) : \E b \in 1 .. Len(blocks) : In(j, b)'
      BY <1>0, <1>5 DEF Owned
    <3>2. ASSUME NEW b \in 1 .. Len(blocks), NEW w \in Names
          PROVE  w \in blocks[b].names <=>
                    \E j \in 1 .. Len(local_label_stack) :
                       In(j, b)' /\ label'[local_label_stack[j]].v = w
      <4>1. w \in blocks[b].names <=>
               \E j \in 1 .. Len(local_label_stack) :
                  In(j, b) /\ label[local_label_stack[j]].v = w
        BY <1>0 DEF Owned
      <4> QED BY <4>1, <2>1, <1>5
    <3>3. blocks' = blocks /\ local_label_stack' = local_label_stack
      BY <1>1
    <3>4. Len(blocks') = Len(blocks) /\ Len(local_label_stack') = Len(local_label_stack)
      BY <3>3
    <3> QED BY <3>1, <3>2, <3>3, <3>4
  <2> QED BY <2>2, <2>3, <1>6 DEF Owned
<1>10. \A c \in OnStack : /\ Hidden(c)' <=> Hidden(c)
                          /\ \A q : At(c, q)' => At(c, q) /\ q # Here(n)
  <2> TAKE c \in OnStack
  <2>1. label'[c] = label[c] /\ label[c].v # n /\ c # a
    BY <1>5
  <2>2. Hidden(c)' <=> Hidden(c)
    <3>1. \A j \in 1 .. Len(local_label_stack) :
             label'[local_label_stack[j]].v = label[local_label_stack[j]].v
      BY <1>3, <1>5
    <3> QED BY <3>1, <2>1, <1>1, <1>5 DEF Hidden
  <2>3. \A q : GlobalAt(c, q)' => GlobalAt(c, q)
    BY <2>1, <1>6 DEF GlobalAt, G
  <2>4. \A q : LocalAt(c, q)' => LocalAt(c, q)
    BY <2>1, <1>1, <1>5 DEF LocalAt
  <2>5. \A q : At(c, q) => q # Here(n)
    BY <2>1, AtOne DEF Here
  <2> QED BY <2>2, <2>3, <2>4, <2>5 DEF At
<1>11. Only(n, a)
  <2>1. \A j \in 1 .. Len(local_label_stack') : local_label_stack'[j] # a
    BY <1>1, <1>3
  <2>2. \A q : GlobalAt(a, q)' => q = [v |-> n, scope |-> 0]
    BY <1>4 DEF GlobalAt
  <2>3. (\A q : ~LocalAt(a, q)') /\ ~Hidden(a)'
    BY <2>1 DEF LocalAt, Hidden
  <2>4. Here(n) = [v |-> n, scope |-> 0]
    BY <1>2 DEF Here
  <2>5. (\A q : At(a, q)' => q = Here(n)) /\ ~Hidden(a)'
    BY <2>2, <2>3, <2>4 DEF At
  <2>6. ASSUME NEW c \in Addr, c # a, c \notin OnStack
        PROVE  (\A q : ~At(c, q) /\ ~At(c, q)') /\ ~Hidden(c) /\ ~Hidden(c)'
    <3>1. \A q : ~At(c, q)
      BY <2>6, AtOne
    <3>2. \A j \in 1 .. Len(local_label_stack) : local_label_stack[j] # c
      BY <2>6, <1>3
    <3>3. \A i \in 1 .. G + 1 : global_label_stack'[i] # c
      BY <2>6, <1>3, <1>6
    <3>4. ~Hidden(c) /\ ~Hidden(c)' /\ \A q : ~LocalAt(c, q)'
      BY <3>2, <1>1 DEF Hidden, LocalAt
    <3>5. \A q : ~GlobalAt(c, q)'
      BY <3>3, <1>6 DEF GlobalAt
    <3> QED BY <3>1, <3>4, <3>5 DEF At
  <2>7. ASSUME NEW c \in Addr, c # a
        PROVE  /\ label'[c] = label[c] /\ (Hidden(c)' <=> Hidden(c))
               /\ \A q : At(c, q)' => At(c, q) /\ (q = Here(n) => Hidden(c))
    BY <2>6, <2>7, <1>4, <1>10
  <2> QED BY <2>5, <2>7 DEF Only
<1>12. Contents'
  BY <1>0, <1>3, <1>4, <1>11, StatementContents
<1>13. Defs'
  <2>1. Here(n) = [v |-> n, scope |-> 0] /\ 0 <= opened
    BY <1>2, LabelAssumption DEF Here, TypeOK
  <2>2. \A q \in defs' : q \in defs \/ q = Here(n)
    BY DEF Grows
  <2>3. \A i \in 1 .. G : label'[global_label_stack'[i]].v = label[global_label_stack[i]].v
    BY <1>3, <1>5, <1>6
  <2>4. label'[global_label_stack'[G + 1]].v = n
    BY <1>4, <1>6
  <2>5. \A q \in defs' : q.scope <= opened'
    BY <2>1, <2>2, <1>0, <1>1 DEF Defs
  <2>6. ASSUME NEW q \in defs', q.scope = 0
        PROVE  \E i \in 1 .. Len(global_label_stack') : label'[global_label_stack'[i]].v = q.v
    <3>1. CASE q = Here(n)
      BY <3>1, <2>1, <2>4, <1>6
    <3>2. CASE q \in defs
      <4>1. PICK i \in 1 .. G : label[global_label_stack[i]].v = q.v
        BY <3>2, <2>6, <1>0 DEF Defs, G
      <4> QED BY <4>1, <2>3, <1>6
    <3> QED BY <3>1, <3>2, <2>2
  <2> QED BY <2>5, <2>6, <1>1 DEF Defs
<1>14. IsScope(Names, NULL, Scope', label', sym_label')
  <2>1. SameSyms(global_label_stack \o local_label_stack, label, label')
    BY <1>3, <1>5 DEF SameSyms, Scope
  <2>2. \A w \in Names : sym_label'[w] = IF w = n THEN a ELSE sym_label[w]
    BY <1>1 DEF TypeOK
  <2>3. InsertsName(Addr, Names, NULL, global_label_stack, local_label_stack, label, label',
                    sym_label, sym_label', n, a)
    BY <2>1, <2>2, <1>2, <1>3, <1>4, <1>6, LabelAssumption DEF InsertsName
  <2>4. IsScope(Names, NULL, global_label_stack \o local_label_stack, label, sym_label)
    BY <1>0 DEF Scope
  <2>5. IsScope(Names, NULL, Append(global_label_stack, a) \o local_label_stack, label', sym_label')
    BY <2>3, <2>4, ScopeInsert
  <2> QED BY <2>5, <1>7
<1>15. \A i \in 1 .. Len(Scope') : label'[Scope'[i]].v \in Names
  <2>1. /\ Len(Scope') \in Nat
        /\ \A i \in 1 .. Len(Scope') : Scope'[i] = a \/ \E k \in 1 .. Len(Scope) : Scope'[i] = Scope[k]
    <3> DEFINE t == Append(global_label_stack, a) \o local_label_stack
    <3>1. /\ Len(t) = Len(Scope) + 1 /\ Len(Scope) \in Nat
          /\ \A i \in 1 .. G : t[i] = Scope[i] /\ i \in 1 .. Len(Scope)
          /\ t[G + 1] = a
          /\ \A i \in G + 2 .. Len(Scope) + 1 : t[i] = Scope[i - 1] /\ i - 1 \in 1 .. Len(Scope)
      BY <1>6 DEF Scope, G
    <3> HIDE DEF t
    <3>2. \A i \in 1 .. Len(t) : i \in 1 .. G \/ i = G + 1 \/ i \in G + 2 .. Len(Scope) + 1
      BY <3>1, <1>6
    <3>3. Scope' = t
      BY <1>7 DEF t
    <3>4. ASSUME NEW i \in 1 .. Len(t) PROVE t[i] = a \/ \E k \in 1 .. Len(Scope) : t[i] = Scope[k]
      BY <3>1, <3>2
    <3> QED BY <3>1, <3>3, <3>4
  <2> QED BY <2>1, <1>0, <1>3, <1>4, <1>5
<1> QED BY <1>1, <1>8, <1>9, <1>12, <1>13, <1>14, <1>15 DEF LabelInv

(* The gotos of a function stay bound, or waiting, when those that leave a *)
(* chain are bound and the new ones are bound or wait.                     *)
LEMMA BoundStep ==
    ASSUME Bound, NEW n, Grows(n), Len(refs) \in Nat, OnStack \subseteq OnStack',
           \A k \in 1 .. Len(refs) : refs'[k].to \in {refs[k].to, Meant(k)},
           \A c \in OnStack : \A k \in Waiting(c) :
              k \in Waiting(c)' \/ refs'[k].to = Meant(k),
           \A k \in Len(refs) + 1 .. Len(refs') :
              \/ refs'[k].to = Meant(k)'
              \/ refs'[k].to = None /\ \E c \in OnStack' : k \in Waiting(c)'
    PROVE  Bound'
<1> SUFFICES ASSUME NEW k \in 1 .. Len(refs')
             PROVE  \/ refs'[k].to = Meant(k)'
                    \/ refs'[k].to = None /\ \E c \in OnStack' : k \in Waiting(c)'
  BY DEF Bound
<1>1. CASE k \in 1 .. Len(refs)
  <2>1. Meant(k)' = Meant(k)
    BY <1>1 DEF Grows, Meant
  <2>2. \/ refs[k].to = Meant(k)
        \/ refs[k].to = None /\ \E c \in OnStack : k \in Waiting(c)
    BY <1>1 DEF Bound
  <2>3. refs'[k].to = refs[k].to \/ refs'[k].to = Meant(k)
    BY <1>1
  <2> QED BY <2>1, <2>2, <2>3
<1>2. CASE k \in Len(refs) + 1 .. Len(refs')
  BY <1>2
<1> QED BY <1>1, <1>2 DEF Grows

(* One more goto or &&label.                                               *)
LEMMA GrowsByOne ==
    ASSUME TypeOK, NEW n, NEW r, refs' = Append(refs, r), defs' = defs
    PROVE  /\ Grows(n) /\ Len(refs) \in Nat /\ Len(refs') = Len(refs) + 1
           /\ refs'[Len(refs) + 1] = r
           /\ \A k \in 1 .. Len(refs) : refs'[k] = refs[k]
           /\ Next_ref = Len(refs) + 1 /\ Next_ref \in 1 .. Len(refs')
           /\ \A k \in Len(refs) + 1 .. Len(refs') : k = Next_ref
<1>1. /\ Len(refs) \in Nat /\ Len(refs') = Len(refs) + 1
      /\ refs'[Len(refs) + 1] = r
      /\ \A k \in 1 .. Len(refs) : refs'[k] = refs[k]
  BY DEF TypeOK
<1>2. Next_ref = Len(refs) + 1
  BY DEF Next_ref
<1> QED BY <1>1, <1>2 DEF Grows

(* What a statement finds of a label that is known.                        *)
LEMMA Found ==
    ASSUME IInv, residue = 0, NEW n \in Names, Known(n), mode # "idle"
    PROVE  LET s == label[label_find(n)]
           IN  /\ label_find(n) \in OnStack /\ label_find(n) \in Addr /\ s \in Label /\ s.v = n
               /\ s.r \in {"DECLARED", "FORWARD", "DEFINED"}
               /\ s.prev_tok = label[label_find(n)].prev_tok
               /\ \A k \in s.chain \union s.c :
                     k \in 1 .. Len(refs) /\ refs[k].v = n /\ refs[k].scope = ScopeOf(n)
               /\ s.r = "DEFINED" => s.address = Here(n) /\ s.chain = {} /\ Here(n) \in defs
               /\ s.r = "FORWARD" => s.chain \union s.c # {} /\ Here(n) \notin defs
               /\ s.r = "DECLARED" => s.chain = {} /\ s.c = {} /\ Here(n) \notin defs
<1> USE DEF IInv
<1> DEFINE a == label_find(n)
<1>1. Allocated /\ Contents
  BY DEF LabelInv
<1>2. a \in OnStack /\ label[a].v = n /\ At(a, Here(n)) /\ ~Hidden(a)
  BY Reach DEF Known, label_find
<1>3. a \in Addr
  BY <1>1, <1>2, Distinct
<1>4. label[a] \in Label
  BY <1>3 DEF TypeOK
<1>5. Content(a, Here(n))
  BY <1>1, <1>2, <1>3, HereIs DEF Contents
<1>6. Here(n).v = n /\ Here(n).scope = ScopeOf(n)
  BY DEF Here
<1>7. label[a].r \in {"DECLARED", "FORWARD", "DEFINED"}
  BY <1>4, LabelTypes
<1> HIDE DEF a
<1>8. /\ \A k \in label[a].chain \union label[a].c :
            k \in 1 .. Len(refs) /\ refs[k].v = n /\ refs[k].scope = ScopeOf(n)
      /\ label[a].r = "DEFINED" =>
            label[a].address = Here(n) /\ label[a].chain = {} /\ Here(n) \in defs
      /\ label[a].r = "FORWARD" =>
            label[a].chain \union label[a].c # {} /\ Here(n) \notin defs
      /\ label[a].r = "DECLARED" =>
            label[a].chain = {} /\ label[a].c = {} /\ Here(n) \notin defs
  BY <1>2, <1>5, <1>6 DEF Content, Names_it, Waiting
<1> QED BY <1>2, <1>3, <1>4, <1>7, <1>8 DEF a

(* What a push leaves on the stacks.                                       *)
LEMMA PushStays ==
    ASSUME TypeOK, Allocated, UNCHANGED local_label_stack, NEW a, NEW s, Push(a, s)
    PROVE  /\ OnStack \subseteq OnStack' /\ a \in OnStack' /\ label'[a] = s
           /\ OnStack' \subseteq OnStack \union {a}
           /\ \A c \in OnStack : label'[c] = label[c]
<1>1. global_label_stack' = Append(global_label_stack, a) /\ a \in free
      /\ label' = [label EXCEPT ![a] = s] /\ UNCHANGED local_label_stack
  BY DEF Push, label_push
<1>2. \A c \in OnStack : c \in Addr /\ c # a
  BY <1>1, Distinct
<1>3. /\ DOMAIN global_label_stack = 1 .. Len(global_label_stack)
      /\ DOMAIN global_label_stack' = 1 .. Len(global_label_stack) + 1
      /\ global_label_stack'[Len(global_label_stack) + 1] = a
      /\ \A i \in DOMAIN global_label_stack : /\ i \in DOMAIN global_label_stack'
                                              /\ global_label_stack'[i] = global_label_stack[i]
      /\ Len(global_label_stack) + 1 \in DOMAIN global_label_stack'
  BY <1>1 DEF TypeOK
<1>4. OnStack \subseteq OnStack' /\ a \in OnStack'
  BY <1>1, <1>3 DEF OnStack
<1>5. OnStack' \subseteq OnStack \union {a}
  <2>1. \A i \in DOMAIN global_label_stack' :
           i \in DOMAIN global_label_stack \/ i = Len(global_label_stack) + 1
    <3>1. Len(global_label_stack) \in Nat
      BY DEF TypeOK
    <3> QED BY <3>1, <1>3
  <2> QED BY <2>1, <1>1, <1>3 DEF OnStack
<1>6. label'[a] = s /\ \A c \in OnStack : label'[c] = label[c]
  BY <1>1, <1>2 DEF TypeOK
<1> QED BY <1>4, <1>5, <1>6

(* A label that is not known has not been defined.                         *)
LEMMA UnknownUndefined ==
    ASSUME IInv, residue = 0, NEW n \in Names, ~Known(n), mode # "idle"
    PROVE  Here(n) \notin defs
<1> USE DEF IInv
<1>1. Allocated /\ Defs
  BY DEF LabelInv
<1>2. ScopeOf(n) = 0 /\ \A i \in 1 .. Len(Scope) : label[Scope[i]].v # n
  <2>1. NULL \notin OnStack
    BY <1>1, Distinct, LabelAssumption
  <2> QED BY <2>1, Reach DEF Known, label_find
<1>3. \A i \in 1 .. Len(global_label_stack) : label[global_label_stack[i]].v # n
  BY <1>2, Heights
<1> QED BY <1>1, <1>2, <1>3 DEF Defs, Here

(* goto                                                                    *)
LEMMA GotoStep ==
    ASSUME IInv, residue = 0, NEW n \in Names, goto(n)
    PROVE  LabelInv'
<1> USE DEF IInv
<1>0. /\ Bound /\ Allocated /\ Steady /\ mode # "idle" /\ UNCHANGED defs
      /\ UNCHANGED local_label_stack
  BY StatementSteady DEF goto, Steady, LabelInv
<1>n. None.v = NULL /\ Here(n) = [v |-> n, scope |-> ScopeOf(n)]
  BY DEF None, Here
<1>1. ASSUME NEW a, a = label_find(n), NEW s, s = label[a], Known(n), Update(a, Chained(s)),
             refs' = Append(refs, Jump(n, s))
      PROVE  LabelInv'
  <2>1. /\ a \in OnStack /\ a \in Addr /\ s.v = n /\ s.r \in {"DECLARED", "FORWARD", "DEFINED"}
        /\ \A k \in s.chain \union s.c :
              k \in 1 .. Len(refs) /\ refs[k].v = n /\ refs[k].scope = ScopeOf(n)
        /\ s.r = "DEFINED" => s.address = Here(n) /\ s.chain = {} /\ Here(n) \in defs
        /\ s.r = "FORWARD" => s.chain \union s.c # {} /\ Here(n) \notin defs
        /\ s.r = "DECLARED" => s.chain = {} /\ s.c = {} /\ Here(n) \notin defs
        /\ s \in Label
    BY <1>0, <1>1, Found
  <2>2. /\ Grows(n) /\ Len(refs) \in Nat /\ Len(refs') = Len(refs) + 1
        /\ refs'[Len(refs) + 1] = Jump(n, s)
        /\ \A k \in 1 .. Len(refs) : refs'[k] = refs[k]
        /\ Next_ref = Len(refs) + 1 /\ Next_ref \in 1 .. Len(refs')
        /\ \A k \in Len(refs) + 1 .. Len(refs') : k = Next_ref
    BY <1>0, <1>1, GrowsByOne
  <2>3. /\ OnStack' = OnStack /\ label'[a] = Chained(s)
        /\ \A c \in OnStack : c # a => label'[c] = label[c]
    BY <2>1, <1>0, <1>1, Distinct DEF OnStack, Update, TypeOK
  <2>4. CASE s.r = "DEFINED"
    <3>1. Chained(s) = s
      BY <2>4 DEF Chained, Used
    <3>2. \A k \in Len(refs) + 1 .. Len(refs') : refs'[k].to = Meant(k)'
      <4> TAKE k \in Len(refs) + 1 .. Len(refs')
      <4>1. refs'[k] = Jump(n, s)
        BY <2>2
      <4>2. refs'[k].to = Here(n) /\ refs'[k].v = n /\ refs'[k].scope = ScopeOf(n)
        BY <4>1, <2>1, <2>4 DEF Jump
      <4>3. Meant(k)' = [v |-> refs'[k].v, scope |-> refs'[k].scope]
        BY DEF Meant
      <4> QED BY <4>2, <4>3, <1>n
    <3>3. Held(n, s)
      BY <2>1, <2>2, <2>4, <1>0 DEF Held
    <3>4. Bound'
      <4>1. \A c \in OnStack : Waiting(c)' = Waiting(c)
        BY <3>1, <2>3, <1>1 DEF Waiting
      <4> QED BY <4>1, <3>2, <2>2, <2>3, <1>0, BoundStep
    <3> QED BY <3>1, <3>3, <3>4, <2>1, <2>2, <1>0, <1>1, KnownStep
  <2>5. CASE s.r # "DEFINED"
    <3>1. /\ Chained(s).r = "FORWARD" /\ Chained(s).chain = s.chain \union {Next_ref}
          /\ Chained(s).c = s.c /\ Chained(s).v = n /\ Chained(s).prev_tok = s.prev_tok
      BY <2>1, <2>5 DEF Chained, Used, Label
    <3>2. refs'[Next_ref].to = None /\ refs'[Next_ref].v = n
          /\ refs'[Next_ref].scope = ScopeOf(n)
      BY <2>2, <2>5 DEF Jump
    <3>3. Held(n, Chained(s))
      <4>1. \A k \in 1 .. Len(refs) : k \in 1 .. Len(refs')
        BY <2>2
      <4> QED BY <4>1, <3>1, <3>2, <2>1, <2>2, <2>5, <1>0 DEF Held
    <3>4. Bound'
      <4>1. \A c \in OnStack : \A k \in Waiting(c) : k \in Waiting(c)'
        BY <3>1, <2>3, <1>1 DEF Waiting
      <4>2. Next_ref \in Waiting(a)'
        BY <3>1, <2>3 DEF Waiting
      <4> QED BY <4>1, <4>2, <3>2, <2>1, <2>2, <2>3, <1>0, BoundStep
    <3> QED BY <3>1, <3>3, <3>4, <2>1, <2>2, <1>0, <1>1, KnownStep
  <2> QED BY <2>4, <2>5
<1>2. ASSUME ~Known(n), NEW a \in Addr, NEW s, s = Chained(New(n, "FORWARD")), Push(a, s),
             refs' = Append(refs, Jump(n, New(n, "FORWARD")))
      PROVE  LabelInv'
  <2>1. /\ s.r = "FORWARD" /\ s.chain = {Next_ref} /\ s.c = {} /\ s.v = n /\ s.prev_tok = NULL
        /\ New(n, "FORWARD").r = "FORWARD"
    BY <1>2 DEF Chained, Used, New, Blank, Known
  <2>2. /\ Grows(n) /\ Len(refs) \in Nat /\ Len(refs') = Len(refs) + 1
        /\ refs'[Len(refs) + 1] = Jump(n, New(n, "FORWARD"))
        /\ \A k \in 1 .. Len(refs) : refs'[k] = refs[k]
        /\ Next_ref = Len(refs) + 1 /\ Next_ref \in 1 .. Len(refs')
        /\ \A k \in Len(refs) + 1 .. Len(refs') : k = Next_ref
    BY <1>0, <1>2, GrowsByOne
  <2>3. /\ OnStack \subseteq OnStack' /\ a \in OnStack' /\ label'[a] = s
        /\ \A c \in OnStack : label'[c] = label[c]
    BY <1>0, <1>2, PushStays
  <2>4. refs'[Next_ref].to = None /\ refs'[Next_ref].v = n
        /\ refs'[Next_ref].scope = ScopeOf(n)
    BY <2>1, <2>2 DEF Jump
  <2>5. Held(n, s)
    <3>1. Here(n) \notin defs
      BY <1>0, <1>2, UnknownUndefined
    <3> QED BY <3>1, <2>1, <2>2, <2>4, <1>0 DEF Held
  <2>6. Bound'
    <3>1. \A c \in OnStack : Waiting(c)' = Waiting(c)
      BY <2>3 DEF Waiting
    <3>2. Next_ref \in Waiting(a)'
      BY <2>1, <2>3 DEF Waiting
    <3> QED BY <3>1, <3>2, <2>2, <2>3, <2>4, <1>0, BoundStep
  <2> QED BY <2>1, <2>2, <2>5, <2>6, <1>0, <1>2, NewStep
<1> QED BY <1>1, <1>2 DEF goto

(* &&                                                                      *)
LEMMA AddressStep ==
    ASSUME IInv, residue = 0, NEW n \in Names, Steady, unary(n, refs), UNCHANGED defs
    PROVE  LabelInv'
<1> USE DEF IInv
<1> DEFINE r == [v |-> n, scope |-> ScopeOf(n), to |-> None]
<1>0. /\ Bound /\ Allocated /\ Steady /\ mode # "idle" /\ UNCHANGED defs
      /\ UNCHANGED local_label_stack /\ refs' = Append(refs, r)
  BY DEF unary, Steady, LabelInv
<1>g. /\ Grows(n) /\ Len(refs) \in Nat /\ Len(refs') = Len(refs) + 1
      /\ refs'[Len(refs) + 1] = r
      /\ \A k \in 1 .. Len(refs) : refs'[k] = refs[k]
      /\ Next_ref = Len(refs) + 1 /\ Next_ref \in 1 .. Len(refs')
      /\ \A k \in Len(refs) + 1 .. Len(refs') : k = Next_ref
  BY <1>0, GrowsByOne
<1>r. refs'[Next_ref].to = None /\ refs'[Next_ref].v = n
      /\ refs'[Next_ref].scope = ScopeOf(n)
  BY <1>g
<1>1. ASSUME NEW a, a = label_find(n), NEW s, s = label[a], Known(n),
             Update(a, WithSymbol(s, Next_ref))
      PROVE  LabelInv'
  <2>1. /\ a \in OnStack /\ a \in Addr /\ s.v = n /\ s.r \in {"DECLARED", "FORWARD", "DEFINED"}
        /\ \A k \in s.chain \union s.c :
              k \in 1 .. Len(refs) /\ refs[k].v = n /\ refs[k].scope = ScopeOf(n)
        /\ s.r = "DEFINED" => s.address = Here(n) /\ s.chain = {} /\ Here(n) \in defs
        /\ s.r = "FORWARD" => s.chain \union s.c # {} /\ Here(n) \notin defs
        /\ s.r = "DECLARED" => s.chain = {} /\ s.c = {} /\ Here(n) \notin defs
        /\ s \in Label
    BY <1>0, <1>1, Found
  <2>2. /\ OnStack' = OnStack /\ label'[a] = WithSymbol(s, Next_ref)
        /\ \A c \in OnStack : c # a => label'[c] = label[c]
    BY <2>1, <1>0, <1>1, Distinct DEF OnStack, Update, TypeOK
  <2>3. /\ WithSymbol(s, Next_ref).r = IF s.r = "DECLARED" THEN "FORWARD" ELSE s.r
        /\ WithSymbol(s, Next_ref).chain = s.chain /\ WithSymbol(s, Next_ref).address = s.address
        /\ WithSymbol(s, Next_ref).c = s.c \union {Next_ref} /\ WithSymbol(s, Next_ref).v = n
        /\ WithSymbol(s, Next_ref).prev_tok = s.prev_tok
    BY <2>1 DEF WithSymbol, Used, Label
  <2>4. Held(n, WithSymbol(s, Next_ref))
    <3>1. \A k \in 1 .. Len(refs) : k \in 1 .. Len(refs')
      BY <1>g
    <3> QED BY <3>1, <2>1, <2>3, <1>0, <1>g, <1>r DEF Held
  <2>5. Bound'
    <3>1. \A c \in OnStack : \A k \in Waiting(c) : k \in Waiting(c)'
      BY <2>2, <2>3, <1>1 DEF Waiting
    <3>2. Next_ref \in Waiting(a)'
      BY <2>2, <2>3 DEF Waiting
    <3> QED BY <3>1, <3>2, <2>1, <2>2, <1>0, <1>g, <1>r, BoundStep
  <2> QED BY <2>3, <2>4, <2>5, <1>0, <1>1, <1>g, KnownStep
<1>2. ASSUME ~Known(n), NEW a \in Addr, NEW s, s = WithSymbol(New(n, "FORWARD"), Next_ref),
             Push(a, s)
      PROVE  LabelInv'
  <2>1. /\ s.r = "FORWARD" /\ s.chain = {} /\ s.c = {Next_ref} /\ s.v = n /\ s.prev_tok = NULL
    BY <1>2 DEF WithSymbol, Used, New, Blank, Known
  <2>2. /\ OnStack \subseteq OnStack' /\ a \in OnStack' /\ label'[a] = s
        /\ \A c \in OnStack : label'[c] = label[c]
    BY <1>0, <1>2, PushStays
  <2>3. Held(n, s)
    <3>1. Here(n) \notin defs
      BY <1>0, <1>2, UnknownUndefined
    <3> QED BY <3>1, <2>1, <1>0, <1>g, <1>r DEF Held
  <2>4. Bound'
    <3>1. \A c \in OnStack : Waiting(c)' = Waiting(c)
      BY <2>2 DEF Waiting
    <3>2. Next_ref \in Waiting(a)'
      BY <2>1, <2>2 DEF Waiting
    <3> QED BY <3>1, <3>2, <2>2, <1>0, <1>g, <1>r, BoundStep
  <2> QED BY <2>1, <2>3, <2>4, <1>0, <1>2, <1>g, NewStep
<1> QED BY <1>1, <1>2 DEF unary, Next_ref

(* The definition of a label.                                              *)
LEMMA DefineStep ==
    ASSUME IInv, residue = 0, NEW n \in Names, define_label(n)
    PROVE  LabelInv'
<1> USE DEF IInv
<1>0. /\ Bound /\ Allocated /\ Steady /\ mode # "idle" /\ defs' = defs \union {Here(n)}
      /\ UNCHANGED local_label_stack
      /\ Len(refs) \in Nat /\ DOMAIN refs = 1 .. Len(refs)
  BY StatementSteady DEF define_label, Steady, LabelInv, TypeOK
<1>n. Here(n).v = n /\ Here(n).scope = ScopeOf(n)
  BY DEF Here
<1>1. ASSUME NEW a, a = label_find(n), NEW s, s = label[a], Known(n), s.r # "DEFINED",
             Update(a, Defined(s, n)),
             refs' = [k \in DOMAIN refs |->
                        IF k \in s.chain THEN [refs[k] EXCEPT !.to = Here(n)] ELSE refs[k]]
      PROVE  LabelInv'
  <2>1. /\ a \in OnStack /\ a \in Addr /\ s.v = n
        /\ \A k \in s.chain \union s.c :
              k \in 1 .. Len(refs) /\ refs[k].v = n /\ refs[k].scope = ScopeOf(n)
        /\ s \in Label
    BY <1>0, <1>1, Found
  <2>2. /\ OnStack' = OnStack /\ label'[a] = Defined(s, n)
        /\ \A c \in OnStack : c # a => label'[c] = label[c]
    BY <2>1, <1>0, <1>1, Distinct DEF OnStack, Update, TypeOK
  <2>3. /\ Defined(s, n).r = "DEFINED" /\ Defined(s, n).chain = {}
        /\ Defined(s, n).address = Here(n) /\ Defined(s, n).c = s.c /\ Defined(s, n).v = n
        /\ Defined(s, n).prev_tok = s.prev_tok
    BY <2>1 DEF Defined, Label
  <2>4. ASSUME NEW k \in 1 .. Len(refs)
        PROVE  /\ refs'[k].v = refs[k].v /\ refs'[k].scope = refs[k].scope
               /\ refs'[k].to = IF k \in s.chain THEN Here(n) ELSE refs[k].to
    <3>1. refs[k] \in Ref
      BY DEF TypeOK
    <3>2. refs'[k] = IF k \in s.chain THEN [refs[k] EXCEPT !.to = Here(n)] ELSE refs[k]
      BY <1>0, <1>1
    <3> QED BY <3>1, <3>2 DEF Ref
  <2>5. Len(refs') = Len(refs) /\ Grows(n)
    <3>1. Len(refs') = Len(refs)
      BY <1>0, <1>1
    <3> QED BY <3>1, <2>4, <1>0 DEF Grows
  <2>6. Held(n, Defined(s, n))
    BY <2>1, <2>3, <2>4, <2>5, <1>0 DEF Held
  <2>7. Bound'
    <3>1. \A k \in s.chain : refs'[k].to = Meant(k)
      BY <2>1, <2>4, <1>n DEF Meant, Here
    <3>2. \A c \in OnStack : \A k \in Waiting(c) :
             k \in Waiting(c)' \/ refs'[k].to = Meant(k)
      BY <3>1, <2>2, <2>3, <1>1 DEF Waiting
    <3>3. \A k \in 1 .. Len(refs) : refs'[k].to \in {refs[k].to, Meant(k)}
      BY <3>1, <2>4
    <3>4. \A k \in Len(refs) + 1 .. Len(refs') : FALSE
      BY <2>5, <1>0
    <3> QED BY <3>2, <3>3, <3>4, <2>2, <2>5, <1>0, BoundStep
  <2> QED BY <2>1, <2>3, <2>5, <2>6, <2>7, <1>0, <1>1, KnownStep
<1>2. ASSUME ~Known(n), NEW a \in Addr, NEW s, s = Defined(New(n, "DEFINED"), n), Push(a, s),
             UNCHANGED refs
      PROVE  LabelInv'
  <2>1. /\ s.r = "DEFINED" /\ s.chain = {} /\ s.c = {} /\ s.v = n /\ s.prev_tok = NULL
        /\ s.address = Here(n)
    BY <1>2 DEF Defined, New, Blank, Known
  <2>2. /\ OnStack \subseteq OnStack' /\ a \in OnStack' /\ label'[a] = s
        /\ \A c \in OnStack : label'[c] = label[c]
    BY <1>0, <1>2, PushStays
  <2>3. Grows(n)
    BY <1>0, <1>2 DEF Grows
  <2>4. Held(n, s)
    BY <2>1, <1>0 DEF Held
  <2>5. Bound'
    <3>1. \A c \in OnStack : Waiting(c)' = Waiting(c)
      BY <2>2 DEF Waiting
    <3>2. \A k \in Len(refs) + 1 .. Len(refs') : FALSE
      BY <1>0, <1>2
    <3> QED BY <3>1, <3>2, <2>2, <2>3, <1>0, <1>2, BoundStep
  <2> QED BY <2>1, <2>3, <2>4, <2>5, <1>0, <1>2, NewStep
<1> QED BY <1>1, <1>2 DEF define_label

-----------------------------------------------------------------------------
(* The stack s is the upper part of the two stacks, from o.                *)
Upper(s, o) ==
    /\ s \in Seq(Addr) /\ o \in Nat /\ Len(Scope) = o + Len(s)
    /\ \A i \in 1 .. Len(s) : Scope[o + i] = s[i]

(* Which of the Syms a label_pop that finds no label undefined pops.       *)
LEMMA PopSyms ==
    ASSUME TypeOK, Allocated, NEW s, NEW o, Upper(s, o), NEW h \in 0 .. Len(s),
           Undefineds(s, h) = {}, label_pop(s, h)
    PROVE  /\ free' = free \union Popped(s, h)
           /\ Popped(s, h) = {Scope[i] : i \in o + h + 1 .. Len(Scope)}
           /\ \A i \in 1 .. o + h : Scope[i] \notin Popped(s, h)
           /\ \A a \in Addr : a \notin Popped(s, h) => label'[a] = label[a]
<1> USE DEF Upper
<1>1. Len(s) \in Nat /\ Len(Scope) \in Nat /\ o + h \in 0 .. Len(Scope)
  OBVIOUS
<1>2. StopsAt(s, h) = h
  BY Stops
<1>3. /\ free' = free \union Popped(s, h)
      /\ label' = [a \in Addr |-> IF a \in Popped(s, h) THEN Blank ELSE label[a]]
  BY <1>2 DEF label_pop
<1>4. \A i \in h + 1 .. Len(s) :
         o + i \in o + h + 1 .. Len(Scope) /\ s[i] = Scope[o + i] /\ i \in 1 .. Len(s)
  BY <1>1
<1>5. \A j \in o + h + 1 .. Len(Scope) :
         j - o \in h + 1 .. Len(s) /\ j - o \in 1 .. Len(s) /\ Scope[j] = s[j - o]
  <2> TAKE j \in o + h + 1 .. Len(Scope)
  <2>1. j - o \in h + 1 .. Len(s) /\ j - o \in 1 .. Len(s) /\ o + (j - o) = j
    BY <1>1
  <2> QED BY <2>1
<1>6. Popped(s, h) = {Scope[i] : i \in o + h + 1 .. Len(Scope)}
  BY <1>4, <1>5, SMTT(30) DEF Popped
<1>7. \A i \in 1 .. o + h : Scope[i] \notin Popped(s, h)
  <2> SUFFICES ASSUME NEW i \in 1 .. o + h, NEW j \in o + h + 1 .. Len(Scope) PROVE Scope[i] # Scope[j]
    BY <1>6
  <2>1. i \in 1 .. Len(Scope) /\ j \in 1 .. Len(Scope) /\ i # j
    BY <1>1
  <2> QED BY <2>1 DEF Allocated, Allotted
<1>8. \A a \in Addr : a \notin Popped(s, h) => label'[a] = label[a]
  BY <1>3
<1> QED BY <1>3, <1>6, <1>7, <1>8

(* The pool and the names are then those of the stacks that are left.      *)
LEMMA PopScope ==
    ASSUME TypeOK, Allocated, IsScope(Names, NULL, Scope, label, sym_label),
           NEW s, NEW o, Upper(s, o), NEW h \in 0 .. Len(s),
           Undefineds(s, h) = {}, label_pop(s, h)
    PROVE  /\ Allotted(Addr, free', SubSeq(Scope, 1, o + h))
           /\ IsScope(Names, NULL, SubSeq(Scope, 1, o + h), label', sym_label')
<1>u. /\ s \in Seq(Addr) /\ o \in Nat /\ Len(Scope) = o + Len(s)
      /\ \A i \in 1 .. Len(s) : Scope[o + i] = s[i]
  BY DEF Upper
<1>1. /\ Scope \in Seq(Addr) /\ Len(Scope) \in Nat /\ o + h \in 0 .. Len(Scope)
      /\ Len(s) \in Nat
  BY <1>u, Heights
<1>2. /\ free' = free \union {Scope[i] : i \in o + h + 1 .. Len(Scope)}
      /\ \A i \in 1 .. o + h : label'[Scope[i]] = label[Scope[i]]
  <2>1. \A i \in 1 .. o + h : i \in 1 .. Len(Scope) /\ Scope[i] \in Addr
    BY <1>1
  <2> QED BY <2>1, PopSyms
<1>3. Allotted(Addr, free, Scope)
  BY DEF Allocated
<1>4. Allotted(Addr, free', SubSeq(Scope, 1, o + h))
  BY <1>1, <1>2, <1>3, AllottedPop
<1>5. ASSUME NEW w \in Names
      PROVE  \/ /\ \A i \in o + h + 1 .. Len(Scope) : label[Scope[i]].v # w
                /\ sym_label'[w] = sym_label[w]
             \/ \E k \in o + h + 1 .. Len(Scope) :
                   /\ label[Scope[k]].v = w /\ sym_label'[w] = label[Scope[k]].prev_tok
                   /\ \A i \in o + h + 1 .. k - 1 : label[Scope[i]].v # w
  <2>1. sym_label'[w] = IF PoppedAt(s, h, w) = {} THEN sym_label[w]
                        ELSE label[s[Oldest(PoppedAt(s, h, w))]].prev_tok
    <3>1. StopsAt(s, h) = h
      BY <1>u, Stops
    <3> QED BY <3>1 DEF label_pop
  <2>2. \A j \in o + h + 1 .. Len(Scope) :
           j - o \in h + 1 .. Len(s) /\ Scope[j] = s[j - o]
    <3> TAKE j \in o + h + 1 .. Len(Scope)
    <3>1. j - o \in h + 1 .. Len(s) /\ j - o \in 1 .. Len(s) /\ o + (j - o) = j
      BY <1>1, <1>u
    <3> QED BY <3>1, <1>u
  <2>3. CASE PoppedAt(s, h, w) = {}
    <3>1. \A i \in h + 1 .. Len(s) : label[s[i]].v # w
      BY <2>3 DEF PoppedAt
    <3>2. \A i \in o + h + 1 .. Len(Scope) : label[Scope[i]].v # w
      BY <3>1, <2>2
    <3> QED BY <3>2, <2>1, <2>3
  <2>4. CASE PoppedAt(s, h, w) # {}
    <3>1. PICK k : k = Oldest(PoppedAt(s, h, w))
      OBVIOUS
    <3>2. /\ k \in h + 1 .. Len(s) /\ label[s[k]].v = w
          /\ \A i \in h + 1 .. k - 1 : label[s[i]].v # w
      BY <3>1, <2>4, <1>u, OldestIs
    <3>3. o + k \in o + h + 1 .. Len(Scope) /\ Scope[o + k] = s[k]
      BY <3>2, <1>1, <1>u, SMTT(30)
    <3>4. ASSUME NEW i \in o + h + 1 .. (o + k) - 1 PROVE label[Scope[i]].v # w
      <4>1. i \in o + h + 1 .. Len(Scope) /\ i - o \in h + 1 .. k - 1
        BY <3>2, <1>1, <1>u
      <4> QED BY <4>1, <3>2, <2>2
    <3>5. sym_label'[w] = label[Scope[o + k]].prev_tok
      BY <3>1, <3>3, <2>1, <2>4
    <3> QED BY <3>2, <3>3, <3>4, <3>5
  <2> QED BY <2>3, <2>4
<1>6. Pops(Addr, Names, Scope, label, label', sym_label, sym_label', o + h)
  BY <1>1, <1>2, <1>5 DEF Pops
<1>7. IsScope(Names, NULL, SubSeq(Scope, 1, o + h), label', sym_label')
  BY <1>6, ScopePop
<1> QED BY <1>4, <1>7

(* A popped label leaves no goto unbound.                                  *)
LEMMA PopBinds ==
    ASSUME IInv, residue = 0, NEW s, NEW o, Upper(s, o), NEW h \in 0 .. Len(s),
           Undefineds(s, h) = {}, label_pop(s, h)
    PROVE  /\ \A k \in 1 .. Len(refs) : refs'[k].to \in {refs[k].to, Meant(k)}
           /\ \A c \in Popped(s, h) : \A k \in Waiting(c) : refs'[k].to = Meant(k)
<1> USE DEF IInv
<1>u. /\ s \in Seq(Addr) /\ o \in Nat /\ Len(Scope) = o + Len(s)
      /\ \A i \in 1 .. Len(s) : Scope[o + i] = s[i]
  BY DEF Upper
<1>0. Allocated /\ Contents
  BY DEF LabelInv
<1>1. Len(refs) \in Nat /\ DOMAIN refs = 1 .. Len(refs) /\ Len(s) \in Nat
  BY <1>u DEF TypeOK
<1>2. \A k \in 1 .. Len(refs) : refs'[k] =
         IF SymbolOf(s, h, k) = {} THEN refs[k]
         ELSE [refs[k] EXCEPT !.to = label[s[CHOOSE i \in SymbolOf(s, h, k) : TRUE]].address]
  <2>1. StopsAt(s, h) = h
    BY <1>u, Stops
  <2> QED BY <2>1, <1>1 DEF label_pop
<1>3. ASSUME NEW i \in h + 1 .. Len(s), NEW k \in Waiting(s[i])
      PROVE  /\ k \in 1 .. Len(refs) /\ k \in label[s[i]].c
             /\ label[s[i]].address = Meant(k)
  <2>1. i \in 1 .. Len(s) /\ o + i \in 1 .. Len(Scope)
    BY <1>1, <1>u
  <2>2. s[i] \in OnStack /\ s[i] \in Addr
    BY <2>1, <1>u, <1>0, Distinct
  <2>3. PICK q \in Place : At(s[i], q)
    BY <2>2, AtOne
  <2>4. Content(s[i], q)
    BY <2>2, <2>3, <1>0 DEF Contents
  <2>5. label[s[i]].r \in {"DECLARED", "DEFINED"}
    <3>1. label[s[i]].r # "FORWARD"
      BY DEF Undefineds
    <3>2. label[s[i]] \in Label
      BY <2>2 DEF TypeOK
    <3> QED BY <3>1, <3>2, LabelTypes
  <2>6. label[s[i]].r = "DEFINED"
    BY <2>4, <2>5, <1>3 DEF Content
  <2>7. label[s[i]].address = q /\ k \in label[s[i]].c
    BY <2>4, <2>6, <1>3 DEF Content, Waiting
  <2>8. k \in 1 .. Len(refs) /\ q.v = refs[k].v /\ q.scope = refs[k].scope
    BY <2>4, <1>3 DEF Content, Names_it
  <2>9. q = Meant(k)
    BY <2>8 DEF Place, Meant
  <2> QED BY <2>7, <2>8, <2>9
<1>4. ASSUME NEW k \in 1 .. Len(refs), SymbolOf(s, h, k) # {}
      PROVE  refs'[k].to = Meant(k)
  <2>1. PICK i : i = CHOOSE j \in SymbolOf(s, h, k) : TRUE
    OBVIOUS
  <2>2. i \in h + 1 .. Len(s) /\ k \in label[s[i]].c
    BY <2>1, <1>4 DEF SymbolOf
  <2>3. label[s[i]].address = Meant(k)
    BY <2>2, <1>3 DEF Waiting
  <2>4. refs[k] \in Ref
    BY DEF TypeOK
  <2>5. refs'[k] = [refs[k] EXCEPT !.to = Meant(k)]
    BY <2>1, <2>3, <1>2, <1>4
  <2> QED BY <2>4, <2>5 DEF Ref
<1>5. \A k \in 1 .. Len(refs) : refs'[k].to \in {refs[k].to, Meant(k)}
  BY <1>2, <1>4
<1>6. ASSUME NEW c \in Popped(s, h), NEW k \in Waiting(c) PROVE refs'[k].to = Meant(k)
  <2>1. PICK i \in h + 1 .. Len(s) : c = s[i]
    BY DEF Popped
  <2>2. k \in 1 .. Len(refs) /\ k \in label[s[i]].c
    BY <2>1, <1>3, <1>6
  <2>3. SymbolOf(s, h, k) # {}
    BY <2>2 DEF SymbolOf
  <2> QED BY <2>2, <2>3, <1>4
<1> QED BY <1>5, <1>6

-----------------------------------------------------------------------------
(* With no label left there is little to say.                              *)
LEMMA NoLabels ==
    ASSUME TypeOK', blocks' = << >>, free' = Addr, defs' = {} \/ mode' = "idle",
           global_label_stack' = << >>, local_label_stack' = << >>, mode' \in {"idle", "body"},
           \A n \in Names : sym_label'[n] = NULL,
           \A k \in 1 .. Len(refs') : refs'[k].to = Meant(k)'
    PROVE  LabelInv'
<1>1. Scope' = << >> /\ Len(Scope') = 0
  BY DEF Scope
<1>2. Allocated'
  BY <1>1 DEF Allocated, Allotted
<1>3. Owned' /\ Contents'
  BY DEF Owned, Contents, At, GlobalAt, LocalAt
<1>4. Bound'
  BY DEF Bound
<1>5. IsScope(Names, NULL, Scope, label, sym_label)'
  BY <1>1 DEF IsScope, IsNewest
<1>6. mode' # "idle" => Defs'
  BY DEF Defs
<1> QED BY <1>1, <1>2, <1>3, <1>4, <1>5, <1>6 DEF LabelInv

(* Between functions without an error before, and without an initializer   *)
(* since the last one, there is no label.                                  *)
LEMMA IdleEmpty ==
    ASSUME IInv, residue = 0, mode = "idle"
    PROVE  /\ blocks = << >> /\ global_label_stack = << >> /\ local_label_stack = << >>
           /\ free = Addr /\ OnStack = {}
           /\ \A n \in Names : sym_label[n] = NULL
<1> USE DEF IInv
<1>1. Scope = << >> /\ Allocated /\ blocks = << >> /\ IsScope(Names, NULL, Scope, label, sym_label)
  BY DEF LabelInv, Nested
<1>3. Len(global_label_stack) = 0 /\ Len(local_label_stack) = 0 /\ Len(Scope) = 0
  BY <1>1, Heights
<1>4. global_label_stack = << >> /\ local_label_stack = << >>
  BY <1>3 DEF TypeOK
<1>5. free = Addr /\ OnStack = {}
  <2>1. OnStack = {Scope[i] : i \in 1 .. Len(Scope)} /\ free = Addr \ OnStack
    BY <1>1, Distinct
  <2>2. {Scope[i] : i \in 1 .. Len(Scope)} = {}
    BY <1>3
  <2> QED BY <2>1, <2>2
<1>6. \A n \in Names : sym_label[n] = NULL
  BY <1>1, <1>3 DEF IsScope, IsNewest
<1> QED BY <1>1, <1>4, <1>5, <1>6

(* gen_function, with the labels of initializers or without.               *)
LEMMA BeginStep == ASSUME IInv, residue = 0, gen_function PROVE LabelInv'
<1> USE DEF IInv
<1>1. /\ UNCHANGED <<label, free, sym_label, global_label_stack, local_label_stack, blocks, residue>>
      /\ refs' = Since /\ defs' = {} /\ mode' \in {"body", "undefined"}
      /\ (mode' = "undefined" => Dangling) /\ mode \in {"idle", "waiting"}
  BY DEF gen_function, Outside
<1>2. mode' = "body"
  <2>1. free = Addr \ OnStack
    BY Distinct DEF LabelInv
  <2> QED BY <2>1, <1>1 DEF Dangling
<1>3. CASE mode = "idle"
  <2>1. Len(refs') = 0
    BY <1>1, <1>3 DEF Since
  <2>2. TypeOK'
    BY OtherTypes
  <2> QED BY <2>1, <2>2, <1>1, <1>2, <1>3, IdleEmpty, NoLabels
<1>4. CASE mode = "waiting"
  <2>1. LabelInv /\ refs' = refs /\ defs' = defs /\ Scope' = Scope /\ OnStack' = OnStack
    BY <1>1, <1>4 DEF Since, FileScope, Scope, OnStack
  <2>2. Allocated' = Allocated
    BY <2>1, <1>1 DEF Allocated
  <2>3. Owned' = Owned
    BY <2>1, <1>1 DEF Owned, In
  <2>4. \A a, q : At(a, q)' = At(a, q) /\ Content(a, q)' = Content(a, q)
    BY <2>1, <1>1 DEF At, GlobalAt, LocalAt, In, Content, Names_it, Waiting, Hidden
  <2>5. Contents' = Contents
    BY <2>4 DEF Contents
  <2>6. Bound' = Bound
    BY <2>1, <1>1 DEF Bound, Meant, Waiting
  <2>7. Defs'
    BY <1>1, <1>2 DEF Defs
  <2> QED BY <2>1, <2>2, <2>3, <2>5, <2>6, <2>7, <1>1, <1>2 DEF LabelInv
<1> QED BY <1>1, <1>3, <1>4

(* The first initializer with an &&label since the last function.          *)
LEMMA FirstStep ==
    ASSUME IInv, residue = 0, NEW n \in Names, mode = "idle", init_putv(n)
    PROVE  LabelInv'
<1> USE DEF IInv
<1>1. /\ blocks = << >> /\ global_label_stack = << >> /\ local_label_stack = << >>
      /\ free = Addr /\ OnStack = {} /\ \A w \in Names : sym_label[w] = NULL
  BY IdleEmpty
<1>2. /\ mode' = "waiting" /\ defs' = {} /\ UNCHANGED <<local_label_stack, blocks, residue>>
      /\ Since = << >> /\ Len(Since) = 0 /\ unary(n, Since)
  BY DEF init_putv, Since
<1>3. ScopeOf(n) = 0
  BY <1>1, ScopeIs
<1>4. PICK a \in Addr : Push(a, WithSymbol(New(n, "FORWARD"), 1))
  BY <1>1, <1>2 DEF unary, Known, label_find
<1>5. PICK s : s = WithSymbol(New(n, "FORWARD"), 1)
  OBVIOUS
<1>6. /\ s.r = "FORWARD" /\ s.chain = {} /\ s.c = {1} /\ s.v = n /\ s.prev_tok = NULL
  BY <1>1, <1>5 DEF WithSymbol, Used, New, Blank, label_find
<1>7. /\ free' = Addr \ {a} /\ label'[a] = s
      /\ \A w \in Names : sym_label'[w] = IF w = n THEN a ELSE NULL
      /\ Len(global_label_stack') = 1 /\ global_label_stack'[1] = a
  BY <1>1, <1>4, <1>5, <1>6 DEF Push, label_push, TypeOK
<1>8. /\ Len(refs') = 1 /\ refs'[1].v = n /\ refs'[1].scope = 0 /\ refs'[1].to = None
  BY <1>2, <1>3 DEF unary
<1>9. TypeOK'
  BY OtherTypes
<1>10. /\ Len(local_label_stack') = 0 /\ Len(blocks') = 0
       /\ Len(Scope') = 1 /\ Scope'[1] = a
  <2>1. \A g \in Seq(Addr), l \in Seq(Addr) : Len(g) = 1 /\ Len(l) = 0 =>
           Len(g \o l) = 1 /\ (g \o l)[1] = g[1]
    OBVIOUS
  <2>2. Len(local_label_stack') = 0 /\ Len(blocks') = 0
    BY <1>1, <1>2
  <2>3. global_label_stack' \in Seq(Addr) /\ local_label_stack' \in Seq(Addr)
    BY <1>9 DEF TypeOK
  <2> QED BY <2>1, <2>2, <2>3, <1>7 DEF Scope
<1>11. Allocated'
  BY <1>7, <1>10 DEF Allocated, Allotted
<1>12. Owned'
  BY <1>7, <1>10 DEF Owned
<1>13. Contents'
  <2> SUFFICES ASSUME NEW c \in Addr, NEW q \in Place, At(c, q)'
               PROVE  Content(c, q)'
    BY DEF Contents
  <2>1. c = a /\ q = [v |-> n, scope |-> 0]
    BY <1>6, <1>7, <1>10 DEF At, GlobalAt, LocalAt
  <2>2. Waiting(c)' = {1} /\ ~Hidden(c)'
    BY <2>1, <1>6, <1>7, <1>10 DEF Waiting, Hidden
  <2>3. Names_it(c, q)'
    BY <2>1, <2>2, <1>8 DEF Names_it
  <2> QED BY <2>1, <2>2, <2>3, <1>2, <1>6, <1>7 DEF Content
<1>14. Bound'
  <2>1. a \in OnStack'
    <3>1. 1 \in DOMAIN global_label_stack'
      BY <1>7, <1>9 DEF TypeOK
    <3> QED BY <3>1, <1>7 DEF OnStack
  <2>2. 1 \in Waiting(a)'
    BY <1>6, <1>7 DEF Waiting
  <2>3. \A k \in 1 .. Len(refs') : k = 1
    BY <1>8
  <2> QED BY <2>1, <2>2, <2>3, <1>8 DEF Bound
<1>15. Defs'
  BY <1>2 DEF Defs
<1>16. IsScope(Names, NULL, Scope', label', sym_label')
  <2>1. \A w \in Names : IsNewest(NULL, Scope', label', w, 1, sym_label'[w])
    BY <1>6, <1>7, <1>10 DEF IsNewest
  <2>2. IsNewest(NULL, Scope', label', n, 0, NULL)
    BY DEF IsNewest
  <2>3. \A i \in 1 .. 1 : i = 1 /\ i - 1 = 0
    OBVIOUS
  <2> QED BY <2>1, <2>2, <2>3, <1>6, <1>7, <1>10 DEF IsScope
<1>17. \A i \in 1 .. Len(Scope') : label'[Scope'[i]].v \in Names
  BY <1>6, <1>7, <1>10
<1> QED BY <1>2, <1>11, <1>12, <1>13, <1>14, <1>15, <1>16, <1>17 DEF LabelInv

(* And the ones after it.                                                  *)
LEMMA NextInitializer ==
    ASSUME IInv, residue = 0, NEW n \in Names, mode = "waiting", init_putv(n)
    PROVE  LabelInv'
<1>1. defs = {} /\ opened = 0
  BY DEF IInv, FileScope
<1>2. Steady /\ unary(n, refs) /\ defs' = defs
  BY <1>1 DEF init_putv, Steady, Since
<1> QED BY <1>2, AddressStep

(* Every step keeps what is said of the labels of initializers.            *)
LEMMA FileScopeStep == ASSUME IInv, [Next]_vars, TypeOK' PROVE FileScope'
<1> USE DEF IInv
<1>1. CASE UNCHANGED vars
  BY <1>1 DEF vars, FileScope, OnStack
<1>2. ASSUME NEW n \in Names, init_putv(n) PROVE FileScope'
  <2>1. /\ defs' = {} /\ opened' = 0 /\ residue' = residue /\ unary(n, Since)
        /\ mode \in {"idle", "waiting"} /\ UNCHANGED local_label_stack
    BY <1>2 DEF init_putv, Outside
  <2> SUFFICES ASSUME residue = 0
               PROVE  /\ \A a \in OnStack' : \E k \in 1 .. Len(refs') : refs'[k].v = label'[a].v
                      /\ \A k \in 1 .. Len(refs') : \E a \in OnStack' : label'[a].v = refs'[k].v
    BY <2>1 DEF FileScope
  <2>2. PICK before : before = Since
    OBVIOUS
  <2>3. /\ before \in Seq(Ref)
        /\ \A a \in OnStack : \E k \in 1 .. Len(before) : before[k].v = label[a].v
        /\ \A k \in 1 .. Len(before) : \E a \in OnStack : label[a].v = before[k].v
    <3>1. CASE mode = "idle"
      BY <3>1, <2>2, IdleEmpty DEF Since
    <3>2. CASE mode = "waiting"
      BY <3>2, <2>2 DEF Since, FileScope, TypeOK
    <3> QED BY <3>1, <3>2, <2>1
  <2>4. PICK m \in Nat : m = Len(before) + 1
    BY <2>3
  <2>5. /\ Len(refs') = m /\ refs'[m].v = n
        /\ \A k \in 1 .. Len(before) : refs'[k] = before[k]
        /\ \A k \in 1 .. m : k \in 1 .. Len(before) \/ k = m
        /\ \A k \in 1 .. Len(before) : k \in 1 .. m
        /\ m \in 1 .. m
    BY <2>1, <2>2, <2>3, <2>4 DEF unary
  <2>6. Allocated
    BY DEF LabelInv
  <2>7. CASE Known(n) /\ Update(label_find(n), WithSymbol(label[label_find(n)], m))
    <3>1. PICK a : a = label_find(n)
      OBVIOUS
    <3>2. a \in OnStack /\ label[a].v = n
      BY <3>1, <2>7, Reach DEF Known, label_find
    <3>3. a \in Addr /\ OnStack \subseteq Addr /\ label[a] \in Label
      BY <3>2, <2>6, Distinct DEF TypeOK
    <3>4. WithSymbol(label[a], m).v = n
      BY <3>2, <3>3 DEF WithSymbol, Used, Label
    <3>5. OnStack' = OnStack /\ \A c \in OnStack : label'[c].v = label[c].v
      BY <3>1, <3>2, <3>3, <3>4, <2>1, <2>7 DEF Update, OnStack, TypeOK
    <3>6. ASSUME NEW c \in OnStack'
          PROVE  \E k \in 1 .. Len(refs') : refs'[k].v = label'[c].v
      <4>1. PICK k \in 1 .. Len(before) : before[k].v = label[c].v
        BY <3>5, <3>6, <2>3
      <4> QED BY <4>1, <3>5, <3>6, <2>5
    <3>7. ASSUME NEW k \in 1 .. Len(refs')
          PROVE  \E c \in OnStack' : label'[c].v = refs'[k].v
      <4>1. CASE k = m
        BY <4>1, <3>2, <3>5, <2>5
      <4>2. CASE k \in 1 .. Len(before)
        BY <4>2, <3>5, <2>3, <2>5
      <4> QED BY <4>1, <4>2, <3>7, <2>5
    <3> QED BY <3>6, <3>7
  <2>8. ASSUME NEW a \in Addr, Push(a, WithSymbol(New(n, "FORWARD"), m))
        PROVE  /\ \A c \in OnStack' : \E k \in 1 .. Len(refs') : refs'[k].v = label'[c].v
               /\ \A k \in 1 .. Len(refs') : \E c \in OnStack' : label'[c].v = refs'[k].v
    <3>1. PICK s : s = WithSymbol(New(n, "FORWARD"), m)
      OBVIOUS
    <3>2. s.v = n
      BY <3>1 DEF WithSymbol, Used, New, Blank
    <3>3. /\ OnStack \subseteq OnStack' /\ a \in OnStack' /\ label'[a] = s
          /\ OnStack' \subseteq OnStack \union {a}
          /\ \A c \in OnStack : label'[c] = label[c]
      BY <3>1, <2>1, <2>6, <2>8, PushStays
    <3>4. ASSUME NEW c \in OnStack'
          PROVE  \E k \in 1 .. Len(refs') : refs'[k].v = label'[c].v
      <4>1. CASE c = a
        BY <4>1, <3>2, <3>3, <2>5
      <4>2. CASE c \in OnStack
        <5>1. PICK k \in 1 .. Len(before) : before[k].v = label[c].v
          BY <4>2, <2>3
        <5> QED BY <5>1, <4>2, <3>3, <2>5
      <4> QED BY <4>1, <4>2, <3>3, <3>4
    <3>5. ASSUME NEW k \in 1 .. Len(refs')
          PROVE  \E c \in OnStack' : label'[c].v = refs'[k].v
      <4>1. CASE k = m
        BY <4>1, <3>2, <3>3, <2>5
      <4>2. CASE k \in 1 .. Len(before)
        <5>1. PICK c \in OnStack : label[c].v = before[k].v
          BY <4>2, <2>3
        <5> QED BY <5>1, <4>2, <3>3, <2>5
      <4> QED BY <4>1, <4>2, <3>5, <2>5
    <3> QED BY <3>4, <3>5
  <2> QED BY <2>1, <2>2, <2>4, <2>7, <2>8 DEF unary
<1>3. CASE \/ gen_function \/ open_block \/ close_block \/ end_function
           \/ label_undefined \/ tcc_error
  BY <1>3 DEF gen_function, open_block, close_block, end_function, label_undefined, tcc_error,
              Undefined_at, Error, FileScope
<1>4. ASSUME NEW n \in Names, \/ declare_label(n) \/ goto(n) \/ take_address(n)
                              \/ define_label(n) \/ label_duplicate(n)
      PROVE  FileScope'
  BY <1>4 DEF declare_label, goto, take_address, define_label, label_duplicate, Statement, Error,
              FileScope
<1> QED BY <1>1, <1>2, <1>3, <1>4 DEF Next

(* An error ends the count of functions without one, unless there was no   *)
(* label to leave behind.                                                  *)
LEMMA ErrorStep ==
    ASSUME IInv, residue = 0, residue' = 0, NEW n,
           label_undefined \/ tcc_error \/ (n \in Names /\ label_duplicate(n))
    PROVE  LabelInv'
<1> USE DEF IInv
<1>1. Allocated /\ Bound /\ IsScope(Names, NULL, Scope, label, sym_label)
  BY DEF LabelInv
<1>2. /\ blocks' = << >> /\ mode' = "idle" /\ OnStack = {}
      /\ UNCHANGED <<global_label_stack, local_label_stack>>
  <2>1. \A what, v : Error(what, v) =>
           /\ blocks' = << >> /\ mode' = "idle" /\ (OnStack # {} => residue' = residue + 1)
           /\ UNCHANGED <<global_label_stack, local_label_stack>>
    BY DEF Error
  <2> QED BY <2>1 DEF label_undefined, Undefined_at, tcc_error, label_duplicate
<1>3. global_label_stack = << >> /\ local_label_stack = << >> /\ free = Addr
      /\ Len(Scope) = 0
  <2>1. /\ DOMAIN global_label_stack = 1 .. Len(global_label_stack)
        /\ DOMAIN local_label_stack = 1 .. Len(local_label_stack)
        /\ Len(global_label_stack) \in Nat /\ Len(local_label_stack) \in Nat
    BY DEF TypeOK
  <2>2. \A i \in 1 .. Len(global_label_stack) : FALSE
    BY <2>1, <1>2 DEF OnStack
  <2>3. \A i \in 1 .. Len(local_label_stack) : FALSE
    BY <2>1, <1>2 DEF OnStack
  <2>4. Len(global_label_stack) = 0 /\ Len(local_label_stack) = 0
    BY <2>1, <2>2, <2>3
  <2>5. global_label_stack = << >> /\ local_label_stack = << >>
    BY <2>4 DEF TypeOK
  <2> QED BY <2>4, <2>5, <1>1, <1>2, Distinct, Heights
<1>4. ~label_undefined
  <2>1. ASSUME NEW s, NEW h, s = << >>, h \in Nat PROVE ~Undefined_at(s, h)
    BY <2>1 DEF Undefined_at, Undefineds
  <2>2. blocks # << >> => Inner.height \in Nat
    <3>1. blocks # << >> => blocks[Len(blocks)] \in Block
      BY DEF TypeOK
    <3> QED BY <3>1 DEF Inner, Block
  <2> QED BY <2>1, <2>2, <1>3 DEF label_undefined
<1>5. UNCHANGED <<free, sym_label, refs>>
  BY <1>4 DEF tcc_error, label_duplicate, Abandon
<1>6. \A w \in Names : sym_label[w] = NULL
  BY <1>1, <1>3 DEF IsScope, IsNewest
<1>7. TypeOK'
  <2>1. CASE tcc_error
    BY <2>1, OtherTypes
  <2>2. CASE n \in Names /\ label_duplicate(n)
    BY <1>6, <2>2 DEF label_duplicate, Known, label_find
  <2> QED BY <2>1, <2>2, <1>4
<1>8. \A k \in 1 .. Len(refs') : refs'[k].to = Meant(k)'
  BY <1>1, <1>2, <1>5 DEF Bound, Meant
<1> QED BY <1>2, <1>3, <1>5, <1>6, <1>7, <1>8, NoLabels

(* The end of a function: its labels have all been defined or not used.    *)
LEMMA EndStep ==
    ASSUME IInv, residue = 0, end_function
    PROVE  LabelInv' /\ \A k \in DOMAIN refs' : refs'[k].to = Meant(k)
<1> USE DEF IInv
<1>1. /\ Allocated /\ Owned /\ Bound /\ IsScope(Names, NULL, Scope, label, sym_label)
      /\ blocks = << >> /\ mode = "body" /\ mode' = "idle" /\ blocks' = << >>
      /\ Undefineds(global_label_stack, 0) = {} /\ label_pop(global_label_stack, 0)
      /\ global_label_stack' = << >> /\ UNCHANGED local_label_stack
  BY DEF LabelInv, end_function
<1>2. /\ Len(local_label_stack) = 0 /\ Len(Scope) = Len(global_label_stack)
      /\ local_label_stack = << >>
  <2>1. \A j \in 1 .. Len(local_label_stack) : FALSE
    BY <1>1 DEF Owned
  <2>2. Len(local_label_stack) = 0
    BY <2>1, Heights
  <2> QED BY <2>2, Heights DEF TypeOK
<1>3. Upper(global_label_stack, 0)
  <2>1. global_label_stack \in Seq(Addr) /\ Len(Scope) = 0 + Len(global_label_stack)
        /\ \A i \in 1 .. Len(global_label_stack) : Scope[0 + i] = global_label_stack[i]
    BY <1>2, Heights DEF TypeOK
  <2> QED BY <2>1 DEF Upper
<1>4. 0 \in 0 .. Len(global_label_stack)
  BY Heights
<1>5. PICK t : t = SubSeq(Scope, 1, 0 + 0)
  OBVIOUS
<1>6. Len(t) = 0
  BY <1>5, Heights
<1>7. Allotted(Addr, free', t) /\ IsScope(Names, NULL, t, label', sym_label')
  BY <1>1, <1>3, <1>4, <1>5, PopScope
<1>8. free' = Addr /\ \A n \in Names : sym_label'[n] = NULL
  BY <1>6, <1>7 DEF Allotted, IsScope, IsNewest
<1>9. TypeOK'
  BY OtherTypes
<1>10. /\ Len(refs') = Len(refs)
       /\ \A k \in 1 .. Len(refs) : Meant(k)' = Meant(k)
  BY <1>1, <1>4, PopTypes DEF Meant, TypeOK
<1>11. \A k \in 1 .. Len(refs) : refs'[k].to = Meant(k)
  <2>1. /\ \A k \in 1 .. Len(refs) : refs'[k].to \in {refs[k].to, Meant(k)}
        /\ \A c \in Popped(global_label_stack, 0) : \A k \in Waiting(c) : refs'[k].to = Meant(k)
    BY <1>1, <1>3, <1>4, PopBinds
  <2>2. OnStack = {Scope[i] : i \in 1 .. Len(Scope)}
    BY <1>1, Distinct
  <2>3. Popped(global_label_stack, 0) = {Scope[i] : i \in 0 + 0 + 1 .. Len(Scope)}
    BY <1>1, <1>3, <1>4, PopSyms
  <2>4. OnStack = Popped(global_label_stack, 0)
    BY <2>2, <2>3
  <2> QED BY <2>1, <2>4, <1>1 DEF Bound
<1>12. LabelInv'
  BY <1>1, <1>2, <1>8, <1>9, <1>10, <1>11, NoLabels
<1>13. DOMAIN refs' = 1 .. Len(refs)
  BY <1>9, <1>10 DEF TypeOK
<1> QED BY <1>11, <1>12, <1>13

(* "{"                                                                     *)
LEMMA OpenStep == ASSUME IInv, residue = 0, open_block PROVE LabelInv'
<1> USE DEF IInv
<1>b. PICK B \in Nat, L \in Nat : B = Len(blocks) /\ L = Len(local_label_stack)
  BY Heights DEF TypeOK
<1>0. /\ Allocated /\ Owned /\ Contents /\ Defs /\ Bound
      /\ IsScope(Names, NULL, Scope, label, sym_label)
      /\ \A i \in 1 .. Len(Scope) : label[Scope[i]].v \in Names
      /\ opened \in Nat /\ L \in Nat /\ B \in Nat
  BY LabelAssumption DEF LabelInv, open_block, TypeOK
<1>1. /\ UNCHANGED <<label, free, sym_label, global_label_stack, local_label_stack,
                     refs, defs, residue>>
      /\ mode' = "declare" /\ opened' = opened + 1
  BY DEF open_block
<1>2. /\ Len(blocks') = B + 1
      /\ \A b \in 1 .. B : blocks'[b] = blocks[b] /\ blocks[b] \in Block
      /\ blocks'[B + 1] = [height |-> L, id |-> opened + 1, names |-> {}]
  BY <1>b DEF open_block, TypeOK
<1>3. \A b \in 1 .. B + 1 : b \in 1 .. B \/ b = B + 1
  BY <1>0
<1>h. \A b \in 1 .. B : blocks[b].height \in Nat /\ b \in 1 .. B + 1
  BY <1>0, <1>2 DEF Block
<1>4. \A j \in 1 .. L :
         /\ ~In(j, B + 1)'
         /\ \A b \in 1 .. B : In(j, b)' <=> In(j, b)
  <2> TAKE j \in 1 .. L
  <2>2. ~In(j, B + 1)'
    BY <1>0, <1>2 DEF In
  <2>3. ASSUME NEW b \in 1 .. B PROVE In(j, b)' <=> In(j, b)
    <3>1. CASE b < B
      <4>1. b + 1 \in 1 .. B
        BY <3>1, <1>0
      <4> QED BY <4>1, <3>1, <1>0, <1>2, <1>b DEF In
    <3>2. CASE b = B
      <4>1. j <= blocks'[b + 1].height
        BY <3>2, <1>2, <1>0
      <4> QED BY <4>1, <3>2, <1>0, <1>2, <1>b DEF In
    <3> QED BY <3>1, <3>2, <1>0
  <2> QED BY <2>2, <2>3
<1>5. Scope' = Scope /\ OnStack' = OnStack
  BY <1>1 DEF Scope, OnStack
<1>6. Allocated' /\ Bound'
  BY <1>0, <1>1, <1>5 DEF Allocated, Bound, Waiting, Meant
<1>7. \A c : (Hidden(c)' <=> Hidden(c)) /\ \A q : At(c, q)' <=> At(c, q)
  <2> TAKE c
  <2>1. Hidden(c)' <=> Hidden(c)
    <3>1. ASSUME NEW i \in 1 .. L, NEW j \in 1 .. L
          PROVE  (\E b \in 1 .. B + 1 : In(i, b)' /\ In(j, b)')
                    <=> \E b \in 1 .. B : In(i, b) /\ In(j, b)
      BY <1>3, <1>4, <1>h
    <3> QED BY <3>1, <1>1, <1>2, <1>b, ZenonT(60) DEF Hidden
  <2>2. \A q : LocalAt(c, q)' <=> LocalAt(c, q)
    <3> TAKE q
    <3>1. ASSUME NEW j \in 1 .. L
          PROVE  (\E b \in 1 .. B + 1 :
                    In(j, b)' /\ q = [v |-> label[c].v, scope |-> blocks'[b].id])
                    <=> \E b \in 1 .. B :
                          In(j, b) /\ q = [v |-> label[c].v, scope |-> blocks[b].id]
      BY <1>2, <1>3, <1>4, <1>h
    <3>2. LocalAt(c, q)' <=> \E j \in 1 .. L : local_label_stack[j] = c /\
             \E b \in 1 .. B + 1 : In(j, b)' /\ q = [v |-> label[c].v, scope |-> blocks'[b].id]
      BY <1>1, <1>2, <1>b DEF LocalAt
    <3>3. LocalAt(c, q) <=> \E j \in 1 .. L : local_label_stack[j] = c /\
             \E b \in 1 .. B : In(j, b) /\ q = [v |-> label[c].v, scope |-> blocks[b].id]
      BY <1>b DEF LocalAt
    <3> QED BY <3>1, <3>2, <3>3
  <2>3. \A q : GlobalAt(c, q)' <=> GlobalAt(c, q)
    BY <1>1 DEF GlobalAt
  <2> QED BY <2>1, <2>2, <2>3 DEF At
<1>8. Contents'
  <2>1. \A c, q : Content(c, q)' <=> Content(c, q)
    BY <1>1, <1>7 DEF Content, Names_it, Waiting
  <2> QED BY <2>1, <1>0, <1>7 DEF Contents
<1>9. Owned'
  <2>1. \A j \in 1 .. L : \E b \in 1 .. B + 1 : In(j, b)'
    BY <1>0, <1>4, <1>h, <1>b DEF Owned
  <2>2. ASSUME NEW b \in 1 .. B + 1, NEW n \in Names
        PROVE  n \in blocks'[b].names <=>
                  \E j \in 1 .. L : In(j, b)' /\ label[local_label_stack[j]].v = n
    <3>1. CASE b \in 1 .. B
      <4>1. n \in blocks[b].names <=>
               \E j \in 1 .. L : In(j, b) /\ label[local_label_stack[j]].v = n
        BY <3>1, <1>0, <1>b DEF Owned
      <4> QED BY <4>1, <3>1, <1>2, <1>4
    <3>2. CASE b = B + 1
      BY <3>2, <1>2, <1>4
    <3> QED BY <3>1, <3>2, <1>3
  <2>3. \A i, j \in 1 .. Len(global_label_stack) :
          label[global_label_stack[i]].v = label[global_label_stack[j]].v => i = j
    BY <1>0 DEF Owned
  <2> QED BY <2>1, <2>2, <2>3, <1>1, <1>2, <1>b DEF Owned
<1>10. Defs'
  <2>1. \A q \in defs : q.scope \in Nat /\ q.scope <= opened
    <3>1. \A q \in defs : q.scope \in Nat
      BY LabelAssumption DEF TypeOK, Place
    <3> QED BY <3>1, <1>0 DEF Defs
  <2>2. \A q \in defs : q.scope <= opened + 1 /\ q.scope # opened + 1
    BY <2>1, <1>0
  <2>3. blocks'[Len(blocks')].id = opened + 1
    BY <1>2
  <2>4. \A j \in 1 .. L : ~In(j, Len(blocks))'
    BY <1>2, <1>4
  <2> QED BY <2>2, <2>3, <2>4, <1>0, <1>1, <1>b DEF Defs
<1> QED BY <1>0, <1>1, <1>5, <1>6, <1>8, <1>9, <1>10 DEF LabelInv

(* __label__                                                               *)
LEMMA DeclareStep ==
    ASSUME IInv, residue = 0, NEW n \in Names, declare_label(n)
    PROVE  LabelInv'
<1> USE DEF IInv
<1>b. PICK B \in Nat, L \in Nat : B = Len(blocks) /\ L = Len(local_label_stack)
  BY Heights DEF TypeOK
<1>0. /\ Allocated /\ Owned /\ Contents /\ Defs /\ Bound /\ mode = "declare"
      /\ IsScope(Names, NULL, Scope, label, sym_label)
      /\ \A i \in 1 .. Len(Scope) : label[Scope[i]].v \in Names
  BY DEF LabelInv, declare_label
<1>a. PICK a \in Addr : /\ label_push(a, New(n, "DECLARED"))
                        /\ local_label_stack' = Append(local_label_stack, a)
  BY DEF declare_label
<1>1. /\ UNCHANGED <<global_label_stack, refs, mode, opened, defs, residue>>
      /\ a \in free /\ free' = free \ {a}
      /\ blocks' = [blocks EXCEPT ![B].names = @ \union {n}]
  BY <1>a, <1>b DEF declare_label, label_push
<1>2. /\ label'[a] = New(n, "DECLARED") /\ a \notin OnStack
      /\ \A c \in Addr : c # a => label'[c] = label[c]
      /\ \A c \in OnStack : c \in Addr /\ label'[c] = label[c] /\ c # a
  <2>1. /\ label'[a] = New(n, "DECLARED")
        /\ \A c \in Addr : c # a => label'[c] = label[c]
    BY <1>a DEF label_push, TypeOK
  <2> QED BY <2>1, <1>0, <1>1, Distinct
<1>3. New(n, "DECLARED").v = n /\ New(n, "DECLARED").prev_tok = sym_label[n]
      /\ New(n, "DECLARED").r = "DECLARED" /\ New(n, "DECLARED").chain = {}
      /\ New(n, "DECLARED").c = {}
  BY DEF New, Blank, label_find
<1>4. B \in 1 .. B /\ blocks # << >>
  BY <1>0, <1>b DEF Nested, TypeOK
<1>5. /\ Len(blocks') = B
      /\ \A b \in 1 .. B :
            /\ blocks'[b].height = blocks[b].height /\ blocks'[b].id = blocks[b].id
            /\ blocks'[b].names = IF b = B THEN blocks[b].names \union {n} ELSE blocks[b].names
  <2>1. \A b \in 1 .. B : blocks[b] \in Block /\ blocks[b].height <= L
    BY <1>b DEF TypeOK, Nested
  <2>2. \A b \in 1 .. B : blocks'[b] =
           IF b = B THEN [blocks[b] EXCEPT !.names = @ \union {n}] ELSE blocks[b]
    <3>1. blocks' = [blocks EXCEPT ![B] = [blocks[B] EXCEPT !.names = @ \union {n}]]
      BY <1>1
    <3>2. DOMAIN blocks = 1 .. B
      BY <1>b DEF TypeOK
    <3>3. ASSUME NEW s, blocks' = [blocks EXCEPT ![B] = s]
          PROVE  \A b \in 1 .. B : blocks'[b] = IF b = B THEN s ELSE blocks[b]
      BY <3>2, <3>3
    <3> QED BY <3>1, <3>3
  <2>3. Len(blocks') = B
    BY <1>1, <1>b DEF TypeOK
  <2> QED BY <2>1, <2>2, <2>3 DEF Block
<1>h. \A b \in 1 .. B : blocks[b].height \in Nat /\ blocks[b].height <= L
  <2>1. \A b \in 1 .. B : blocks[b] \in Block /\ blocks[b].height <= L
    BY <1>b DEF TypeOK, Nested
  <2> QED BY <2>1 DEF Block
<1>6. /\ Len(local_label_stack') = L + 1 /\ local_label_stack'[L + 1] = a
      /\ \A j \in 1 .. L : /\ local_label_stack'[j] = local_label_stack[j]
                           /\ local_label_stack[j] \in OnStack /\ j \in 1 .. L + 1
      /\ \A j \in 1 .. L + 1 : j \in 1 .. L \/ j = L + 1
      /\ L + 1 \in 1 .. L + 1
  <2>1. DOMAIN local_label_stack = 1 .. L /\ L \in Nat
    BY <1>b DEF TypeOK
  <2>2. \A j \in 1 .. L : local_label_stack[j] \in OnStack
    BY <2>1 DEF OnStack
  <2>3. /\ Len(local_label_stack') = L + 1 /\ local_label_stack'[L + 1] = a
        /\ \A j \in 1 .. L : local_label_stack'[j] = local_label_stack[j]
    BY <2>1, <1>a, <1>b DEF TypeOK
  <2> QED BY <2>1, <2>2, <2>3
<1>7. /\ \A b \in 1 .. B : \A j : In(j, b)' <=> In(j, b)
      /\ \A b \in 1 .. B : In(L + 1, b) <=> b = B
  <2>1. ASSUME NEW b \in 1 .. B, NEW j PROVE In(j, b)' <=> In(j, b)
    <3>1. b < B => b + 1 \in 1 .. B
      OBVIOUS
    <3> QED BY <3>1, <1>5, <1>b DEF In
  <2>2. ASSUME NEW b \in 1 .. B PROVE In(L + 1, b) <=> b = B
    <3>1. b < B => ~(L + 1 <= blocks[b + 1].height)
      <4>1. b < B => b + 1 \in 1 .. B
        OBVIOUS
      <4> QED BY <4>1, <1>h
    <3>2. blocks[b].height < L + 1
      BY <1>h
    <3> QED BY <3>1, <3>2, <1>b DEF In
  <2> QED BY <2>1, <2>2
<1>8. Scope' = Append(Scope, a) /\ Scope \in Seq(Addr)
  BY <1>a, <1>1, SMTT(30) DEF Scope, TypeOK
<1>9. Allocated'
  BY <1>0, <1>1, <1>8, AllottedPush DEF Allocated
<1>10. \A c \in OnStack :
          /\ \A q : At(c, q)' => At(c, q)
          /\ Hidden(c) => Hidden(c)'
          /\ Hidden(c)' => Hidden(c) \/ label[c].r = "DECLARED"
  <2> TAKE c \in OnStack
  <2>1. label'[c] = label[c] /\ c # a
    BY <1>2
  <2>2. \A q : GlobalAt(c, q)' => GlobalAt(c, q)
    BY <2>1, <1>1 DEF GlobalAt
  <2>3. \A q : LocalAt(c, q)' => LocalAt(c, q)
    <3> TAKE q
    <3>1. SUFFICES ASSUME LocalAt(c, q)' PROVE LocalAt(c, q)
      OBVIOUS
    <3>2. PICK j \in 1 .. L + 1, b \in 1 .. B :
             /\ local_label_stack'[j] = c /\ In(j, b)'
             /\ q = [v |-> label'[c].v, scope |-> blocks'[b].id]
      BY <3>1, <1>5, <1>6 DEF LocalAt
    <3>3. j \in 1 .. L /\ local_label_stack[j] = c /\ In(j, b)
      BY <3>2, <2>1, <1>6, <1>7
    <3> QED BY <3>2, <3>3, <2>1, <1>5, <1>b DEF LocalAt
  <2>4. ASSUME Hidden(c) PROVE Hidden(c)'
    <3>1. PICK i \in 1 .. L, j \in 1 .. L, b \in 1 .. B :
             /\ i < j /\ In(i, b) /\ In(j, b)
             /\ local_label_stack[i] = c /\ label[local_label_stack[j]].v = label[c].v
      BY <2>4, <1>b DEF Hidden
    <3>2. /\ i \in 1 .. L + 1 /\ j \in 1 .. L + 1 /\ In(i, b)' /\ In(j, b)'
          /\ local_label_stack'[i] = c /\ label'[local_label_stack'[j]].v = label'[c].v
      BY <3>1, <2>1, <1>2, <1>6, <1>7
    <3> QED BY <3>1, <3>2, <1>5, <1>6 DEF Hidden
  <2>5. ASSUME Hidden(c)' PROVE Hidden(c) \/ label[c].r = "DECLARED"
    <3>1. PICK i \in 1 .. L + 1, j \in 1 .. L + 1, b \in 1 .. B :
             /\ i < j /\ In(i, b)' /\ In(j, b)'
             /\ local_label_stack'[i] = c /\ label'[local_label_stack'[j]].v = label'[c].v
      BY <2>5, <1>5, <1>6 DEF Hidden
    <3>2. i \in 1 .. L /\ local_label_stack[i] = c /\ In(i, b) /\ In(j, b)
      BY <3>1, <2>1, <1>6, <1>7
    <3>3. CASE j \in 1 .. L
      <4>1. label[local_label_stack[j]].v = label[c].v
        BY <3>1, <3>3, <2>1, <1>2, <1>6
      <4> QED BY <4>1, <3>1, <3>2, <3>3, <1>b DEF Hidden
    <3>4. CASE j = L + 1
      <4>1. b = B
        BY <3>2, <3>4, <1>7
      <4> QED BY <4>1, <3>2, <1>0, <1>b DEF Defs
    <3> QED BY <3>3, <3>4, <1>6
  <2> QED BY <2>2, <2>3, <2>4, <2>5 DEF At
<1>11. \A q : At(a, q)' => q = [v |-> n, scope |-> blocks[B].id]
  <2> TAKE q
  <2>1. ~GlobalAt(a, q)'
    <3>1. \A i \in 1 .. Len(global_label_stack) : global_label_stack[i] \in OnStack
      BY DEF OnStack, TypeOK
    <3> QED BY <3>1, <1>1, <1>2 DEF GlobalAt
  <2>2. ASSUME LocalAt(a, q)' PROVE q = [v |-> n, scope |-> blocks[B].id]
    <3>1. PICK j \in 1 .. L + 1, b \in 1 .. B :
             /\ local_label_stack'[j] = a /\ In(j, b)'
             /\ q = [v |-> label'[a].v, scope |-> blocks'[b].id]
      BY <2>2, <1>5, <1>6 DEF LocalAt
    <3>2. j = L + 1
      BY <3>1, <1>2, <1>6
    <3>3. b = B
      BY <3>1, <3>2, <1>7
    <3> QED BY <3>1, <3>3, <1>2, <1>3, <1>5
  <2> QED BY <2>1, <2>2 DEF At
<1>12. Contents'
  <2> SUFFICES ASSUME NEW c \in Addr, NEW q \in Place, At(c, q)'
               PROVE  Content(c, q)'
    BY DEF Contents
  <2>1. CASE c = a
    <3>1. label'[c].r = "DECLARED" /\ Waiting(c)' = {}
      BY <2>1, <1>2, <1>3 DEF Waiting
    <3>2. q \notin defs'
      BY <2>1, <1>0, <1>1, <1>11, <1>b DEF Defs
    <3> QED BY <3>1, <3>2 DEF Content, Names_it
  <2>2. CASE c # a
    <3>1. c \in OnStack
      <4>1. \A i \in 1 .. Len(global_label_stack) : global_label_stack[i] \in OnStack
        BY DEF OnStack, TypeOK
      <4> QED BY <4>1, <2>2, <1>1, <1>6 DEF At, GlobalAt, LocalAt
    <3>2. At(c, q) /\ (Hidden(c) => Hidden(c)')
          /\ (Hidden(c)' => Hidden(c) \/ label[c].r = "DECLARED")
      BY <3>1, <1>10
    <3>3. Content(c, q) /\ label'[c] = label[c]
      BY <3>1, <3>2, <1>0, <1>2 DEF Contents
    <3> QED BY <3>2, <3>3, <1>1 DEF Content, Names_it, Waiting
  <2> QED BY <2>1, <2>2
<1>13. Owned'
  <2>1. \A j \in 1 .. L + 1 : \E b \in 1 .. B : In(j, b)'
    BY <1>0, <1>4, <1>6, <1>7, <1>b DEF Owned
  <2>2. ASSUME NEW b \in 1 .. B, NEW w \in Names
        PROVE  w \in blocks'[b].names <=>
                  \E j \in 1 .. L + 1 : In(j, b)' /\ label'[local_label_stack'[j]].v = w
    <3>1. w \in blocks[b].names <=>
             \E j \in 1 .. L : In(j, b) /\ label[local_label_stack[j]].v = w
      BY <1>0, <1>b DEF Owned
    <3>2. (\E j \in 1 .. L + 1 : In(j, b)' /\ label'[local_label_stack'[j]].v = w)
             <=> \/ \E j \in 1 .. L : In(j, b) /\ label[local_label_stack[j]].v = w
                 \/ b = B /\ w = n
      BY <1>2, <1>3, <1>6, <1>7
    <3> QED BY <3>1, <3>2, <1>5
  <2>3. \A i, j \in 1 .. Len(global_label_stack) :
          label'[global_label_stack[i]].v = label'[global_label_stack[j]].v => i = j
    <3>1. \A i \in 1 .. Len(global_label_stack) : global_label_stack[i] \in OnStack
      BY DEF OnStack, TypeOK
    <3> QED BY <3>1, <1>0, <1>2 DEF Owned
  <2> QED BY <2>1, <2>2, <2>3, <1>1, <1>5, <1>6 DEF Owned
<1>14. Defs'
  <2>1. \A i \in 1 .. Len(global_label_stack) :
           label'[global_label_stack[i]].v = label[global_label_stack[i]].v
    <3>1. \A i \in 1 .. Len(global_label_stack) : global_label_stack[i] \in OnStack
      BY DEF OnStack, TypeOK
    <3> QED BY <3>1, <1>2
  <2>2. \A q \in defs' : q.scope # blocks'[Len(blocks')].id
    BY <1>0, <1>1, <1>4, <1>5, <1>b DEF Defs
  <2>3. \A j \in 1 .. L + 1 : In(j, B)' => label'[local_label_stack'[j]].r = "DECLARED"
    BY <1>0, <1>2, <1>3, <1>4, <1>6, <1>7, <1>b DEF Defs
  <2>4. \A j \in 1 .. L + 1 : In(j, Len(blocks))' => label'[local_label_stack'[j]].r = "DECLARED"
    BY <2>3, <1>5
  <2>5. /\ \A q \in defs' : q.scope <= opened'
        /\ \A q \in defs' : q.scope = 0 =>
              \E i \in 1 .. Len(global_label_stack') : label'[global_label_stack'[i]].v = q.v
    BY <2>1, <1>0, <1>1 DEF Defs
  <2> QED BY <2>2, <2>4, <2>5, <1>6 DEF Defs
<1>15. Bound'
  <2>1. OnStack \subseteq OnStack'
    <3>1. /\ DOMAIN local_label_stack = 1 .. L /\ DOMAIN local_label_stack' = 1 .. L + 1
      BY <1>a, <1>b DEF TypeOK
    <3> QED BY <3>1, <1>1, <1>6 DEF OnStack
  <2>2. \A c \in OnStack : Waiting(c)' = Waiting(c)
    BY <1>2 DEF Waiting
  <2> QED BY <2>1, <2>2, <1>0, <1>1 DEF Bound, Meant
<1>16. IsScope(Names, NULL, Scope', label', sym_label')
  <2>1. SameSyms(Scope, label, label')
    BY <1>0, <1>2, Distinct DEF SameSyms
  <2>2. \A w \in Names : sym_label'[w] = IF w = n THEN a ELSE sym_label[w]
    BY <1>a, <1>3 DEF label_push, TypeOK
  <2>3. Pushes(Addr, Names, Scope, label, label', sym_label, sym_label', n, a)
    BY <2>1, <2>2, <1>2, <1>3, <1>8 DEF Pushes
  <2> QED BY <2>3, <1>0, <1>8, ScopePush
<1>17. \A i \in 1 .. Len(Scope') : label'[Scope'[i]].v \in Names
  <2>1. /\ \A i \in 1 .. Len(Scope') : i \in 1 .. Len(Scope) \/ Scope'[i] = a
        /\ \A i \in 1 .. Len(Scope) : Scope'[i] = Scope[i]
    BY <1>8
  <2>2. \A i \in 1 .. Len(Scope) : Scope[i] \in OnStack
    BY <1>0, Distinct
  <2> QED BY <2>1, <2>2, <1>0, <1>2, <1>3
<1> QED BY <1>0, <1>1, <1>9, <1>12, <1>13, <1>14, <1>15, <1>16, <1>17 DEF LabelInv

(* "}"                                                                     *)
LEMMA CloseStep == ASSUME IInv, residue = 0, close_block PROVE LabelInv'
<1> USE DEF IInv
<1>b. PICK B \in Nat, L \in Nat, G \in Nat :
         B = Len(blocks) /\ L = Len(local_label_stack) /\ G = Len(global_label_stack)
  BY Heights DEF TypeOK
<1>0. /\ Allocated /\ Owned /\ Contents /\ Defs /\ Bound
      /\ IsScope(Names, NULL, Scope, label, sym_label)
      /\ \A i \in 1 .. Len(Scope) : label[Scope[i]].v \in Names
  BY DEF LabelInv, close_block
<1>t. TypeOK'
  BY OtherTypes
<1>1. PICK h : h = blocks[B].height
  OBVIOUS
<1>2. B \in 1 .. B /\ B # 0
  BY <1>b DEF close_block, TypeOK
<1>3. \A b \in 1 .. B : blocks[b].height \in Nat /\ blocks[b].height <= h
  <2>1. \A b \in 1 .. B : blocks[b] \in Block
    BY <1>b DEF TypeOK
  <2> QED BY <2>1, <1>1, <1>2, <1>b DEF Nested, Block
<1>4. h \in 0 .. L /\ h \in 0 .. Len(local_label_stack)
  <2>1. h <= L /\ h \in Nat
    BY <1>1, <1>2, <1>3, <1>b DEF Nested
  <2> QED BY <2>1, <1>b
<1>5. /\ UNCHANGED <<global_label_stack, opened, defs, residue>> /\ mode' = "body"
      /\ Undefineds(local_label_stack, h) = {} /\ label_pop(local_label_stack, h)
      /\ local_label_stack' = SubSeq(local_label_stack, 1, h)
      /\ blocks' = SubSeq(blocks, 1, B - 1)
  BY <1>1, <1>b DEF close_block, Inner
<1>6. /\ Len(blocks') = B - 1 /\ \A b \in 1 .. B - 1 : blocks'[b] = blocks[b] /\ b \in 1 .. B
      /\ Len(local_label_stack') = h
      /\ \A j \in 1 .. h : /\ local_label_stack'[j] = local_label_stack[j] /\ j \in 1 .. L
  <2>1. \A s \in Seq(Block) : \A k \in 0 .. Len(s) :
           Len(SubSeq(s, 1, k)) = k /\ \A i \in 1 .. k : SubSeq(s, 1, k)[i] = s[i]
    OBVIOUS
  <2>2. \A s \in Seq(Addr) : \A k \in 0 .. Len(s) :
           Len(SubSeq(s, 1, k)) = k /\ \A i \in 1 .. k : SubSeq(s, 1, k)[i] = s[i]
    OBVIOUS
  <2>3. B - 1 \in 0 .. Len(blocks) /\ blocks \in Seq(Block) /\ local_label_stack \in Seq(Addr)
    BY <1>2, <1>b DEF TypeOK
  <2>4. \A b \in 1 .. B - 1 : b \in 1 .. B
    BY <1>2
  <2>5. \A j \in 1 .. h : j \in 1 .. L
    BY <1>4
  <2> QED BY <2>1, <2>2, <2>3, <2>4, <2>5, <1>4, <1>5
<1>7. Upper(local_label_stack, G)
  BY <1>b, Heights DEF Upper, TypeOK
<1>8. /\ Popped(local_label_stack, h) = {Scope[i] : i \in G + h + 1 .. Len(Scope)}
      /\ \A i \in 1 .. G + h : Scope[i] \notin Popped(local_label_stack, h)
      /\ \A a \in Addr : a \notin Popped(local_label_stack, h) => label'[a] = label[a]
  BY <1>0, <1>4, <1>5, <1>7, PopSyms
<1>9. Scope' = SubSeq(Scope, 1, G + h)
  <2>1. \A s, t \in Seq(Addr) : \A k \in 0 .. Len(t) :
           SubSeq(s \o t, 1, Len(s) + k) = s \o SubSeq(t, 1, k)
    OBVIOUS
  <2> QED BY <2>1, <1>4, <1>5, <1>b DEF Scope, TypeOK
<1>10. /\ G + h \in 0 .. Len(Scope) /\ Len(Scope') = G + h
       /\ \A i \in 1 .. G + h : Scope'[i] = Scope[i] /\ i \in 1 .. Len(Scope)
  <2>1. Scope \in Seq(Addr) /\ Len(Scope) = G + L
    BY <1>b, Heights
  <2>2. G + h \in 0 .. Len(Scope)
    BY <2>1, <1>4
  <2>3. \A s \in Seq(Addr) : \A k \in 0 .. Len(s) :
           Len(SubSeq(s, 1, k)) = k /\ \A i \in 1 .. k : SubSeq(s, 1, k)[i] = s[i]
    OBVIOUS
  <2>4. \A i \in 1 .. G + h : i \in 1 .. Len(Scope)
    BY <2>2
  <2> QED BY <2>1, <2>2, <2>3, <2>4, <1>9
<1>11. Allocated' /\ IsScope(Names, NULL, Scope', label', sym_label')
  BY <1>0, <1>4, <1>5, <1>7, <1>9, PopScope DEF Allocated
<1>12. \A a \in OnStack' : /\ a \in OnStack /\ a \in Addr
                           /\ a \notin Popped(local_label_stack, h) /\ label'[a] = label[a]
  <2>1. /\ DOMAIN global_label_stack = 1 .. G /\ DOMAIN local_label_stack' = 1 .. h
        /\ DOMAIN local_label_stack = 1 .. L
    BY <1>t, <1>6, <1>b DEF TypeOK
  <2>2. ASSUME NEW a \in OnStack'
        PROVE  \/ \E i \in 1 .. G : a = global_label_stack[i]
               \/ \E k \in 1 .. h : k \in 1 .. L /\ a = local_label_stack[k]
    <3>1. \/ \E i \in 1 .. G : a = global_label_stack'[i]
          \/ \E k \in 1 .. h : a = local_label_stack'[k]
      BY <2>1, <1>5 DEF OnStack
    <3> QED BY <3>1, <1>5, <1>6
  <2>3. \A a \in OnStack' : a \in OnStack
    BY <2>1, <2>2 DEF OnStack
  <2>4. /\ \A i \in 1 .. G : i \in 1 .. G + h
        /\ \A k \in 1 .. h : G + k \in 1 .. G + h
    BY <1>4
  <2>5. \A a \in OnStack' : \E i \in 1 .. G + h : a = Scope[i]
    <3>1. \A i \in 1 .. G : Scope[i] = global_label_stack[i]
      BY <1>b, Heights
    <3>2. \A k \in 1 .. L : Scope[G + k] = local_label_stack[k]
      BY <1>b, Heights
    <3> QED BY <3>1, <3>2, <2>2, <2>4
  <2>6. \A a \in OnStack' : a \in Addr /\ a \notin Popped(local_label_stack, h)
    BY <2>3, <2>5, <1>0, <1>8, Distinct
  <2> QED BY <2>3, <2>6, <1>8
<1>13. /\ \A i \in 1 .. G : global_label_stack[i] \in OnStack'
       /\ \A j \in 1 .. h : local_label_stack[j] \in OnStack'
  <2>1. DOMAIN global_label_stack = 1 .. G /\ DOMAIN local_label_stack' = 1 .. h
    BY <1>t, <1>6, <1>b DEF TypeOK
  <2> QED BY <2>1, <1>5, <1>6 DEF OnStack
<1>14. /\ \A j \in 1 .. h, b \in 1 .. B - 1 : In(j, b)' <=> In(j, b)
       /\ \A j \in 1 .. h : ~In(j, B)
       /\ \A j \in 1 .. L, b \in 1 .. B - 1 : In(j, b) => j \in 1 .. h
  <2>1. ASSUME NEW j \in 1 .. L, NEW b \in 1 .. B - 1
        PROVE  /\ b + 1 \in 1 .. B /\ b < B /\ (In(j, b) => j <= h)
               /\ (b + 1 <= B - 1 => blocks'[b + 1] = blocks[b + 1])
    <3>1. b + 1 \in 1 .. B /\ b < B
      OBVIOUS
    <3>2. b + 1 <= B - 1 => b + 1 \in 1 .. B - 1
      OBVIOUS
    <3>3. blocks[b + 1].height <= h /\ blocks[b + 1].height \in Nat
      BY <3>1, <1>3
    <3>4. In(j, b) => j <= blocks[b + 1].height
      BY <3>1, <1>b DEF In
    <3> QED BY <3>1, <3>2, <3>3, <3>4, <1>4, <1>6
  <2>2. ASSUME NEW j \in 1 .. h, NEW b \in 1 .. B - 1 PROVE In(j, b)' <=> In(j, b)
    <3>0. j \in 1 .. L
      BY <1>4
    <3>1. CASE b < B - 1
      <4>1. blocks'[b + 1] = blocks[b + 1] /\ blocks'[b] = blocks[b] /\ b < B
        BY <3>0, <3>1, <2>1, <1>6
      <4> QED BY <4>1, <3>1, <1>6, <1>b DEF In
    <3>2. CASE b = B - 1
      <4>1. b + 1 = B /\ j <= h /\ blocks'[b] = blocks[b]
        BY <3>2, <1>6
      <4> QED BY <4>1, <3>2, <1>1, <1>6, <1>b DEF In
    <3> QED BY <3>1, <3>2
  <2>3. \A j \in 1 .. h : ~In(j, B)
    BY <1>1, <1>4 DEF In
  <2>4. \A j \in 1 .. L, b \in 1 .. B - 1 : In(j, b) => j \in 1 .. h
    <3> TAKE j \in 1 .. L, b \in 1 .. B - 1
    <3>1. In(j, b) => j <= h
      BY <2>1
    <3> QED BY <3>1, <1>4
  <2> QED BY <2>2, <2>3, <2>4
<1>15. \A b \in 1 .. B : b \in 1 .. B - 1 \/ b = B
  BY <1>2
<1>16. \A a \in OnStack' : (Hidden(a)' <=> Hidden(a)) /\ \A q : At(a, q)' => At(a, q)
  <2> TAKE a \in OnStack'
  <2>1. label'[a] = label[a] /\ \A j \in 1 .. h : label'[local_label_stack[j]].v = label[local_label_stack[j]].v
    BY <1>12, <1>13
  <2>2. \A q : GlobalAt(a, q)' => GlobalAt(a, q)
    BY <2>1, <1>5 DEF GlobalAt
  <2>3. \A q : LocalAt(a, q)' => LocalAt(a, q)
    <3> TAKE q
    <3>1. SUFFICES ASSUME LocalAt(a, q)' PROVE LocalAt(a, q)
      OBVIOUS
    <3>2. PICK j \in 1 .. h, b \in 1 .. B - 1 :
             /\ local_label_stack'[j] = a /\ In(j, b)'
             /\ q = [v |-> label'[a].v, scope |-> blocks'[b].id]
      BY <3>1, <1>6 DEF LocalAt
    <3> QED BY <3>2, <2>1, <1>6, <1>14, <1>b DEF LocalAt
  <2>4. ASSUME Hidden(a)' PROVE Hidden(a)
    <3>1. PICK i \in 1 .. h, j \in 1 .. h, b \in 1 .. B - 1 :
             /\ i < j /\ In(i, b)' /\ In(j, b)'
             /\ local_label_stack'[i] = a /\ label'[local_label_stack'[j]].v = label'[a].v
      BY <2>4, <1>6 DEF Hidden
    <3> QED BY <3>1, <2>1, <1>6, <1>14, <1>b DEF Hidden
  <2>5. ASSUME Hidden(a) PROVE Hidden(a)'
    <3>1. PICK i \in 1 .. L, j \in 1 .. L, b \in 1 .. B :
             /\ i < j /\ In(i, b) /\ In(j, b)
             /\ local_label_stack[i] = a /\ label[local_label_stack[j]].v = label[a].v
      BY <2>5, <1>b DEF Hidden
    <3>2. i \in 1 .. h
      <4>1. CASE \E k \in 1 .. h : local_label_stack'[k] = a
        BY <4>1, <3>1, <1>0, <1>6, <1>b, Distinct
      <4>2. CASE \E k \in 1 .. G : global_label_stack[k] = a
        BY <4>2, <3>1, <1>0, <1>b, Distinct
      <4>3. /\ DOMAIN global_label_stack = 1 .. G /\ DOMAIN local_label_stack' = 1 .. h
        BY <1>t, <1>6, <1>b DEF TypeOK
      <4> QED BY <4>1, <4>2, <4>3, <1>5 DEF OnStack
    <3>3. b \in 1 .. B - 1
      BY <3>1, <3>2, <1>14, <1>15
    <3>4. j \in 1 .. h
      BY <3>1, <3>3, <1>14
    <3>5. /\ In(i, b)' /\ In(j, b)' /\ local_label_stack'[i] = a
          /\ label'[local_label_stack'[j]].v = label'[a].v
      BY <3>1, <3>2, <3>3, <3>4, <2>1, <1>6, <1>14
    <3> QED BY <3>1, <3>2, <3>3, <3>4, <3>5, <1>6 DEF Hidden
  <2> QED BY <2>2, <2>3, <2>4, <2>5 DEF At
<1>17. /\ Len(refs') = Len(refs)
       /\ \A k \in 1 .. Len(refs) : refs'[k].v = refs[k].v /\ refs'[k].scope = refs[k].scope
  BY <1>4, <1>5, PopTypes DEF TypeOK
<1>18. Contents'
  <2> SUFFICES ASSUME NEW c \in Addr, NEW q \in Place, At(c, q)'
               PROVE  Content(c, q)'
    BY DEF Contents
  <2>1. c \in OnStack'
    <3>1. \A j \in 1 .. h : local_label_stack'[j] \in OnStack'
      BY <1>6, <1>13
    <3> QED BY <3>1, <1>5, <1>6, <1>13, <1>b DEF At, GlobalAt, LocalAt
  <2>2. At(c, q) /\ (Hidden(c)' <=> Hidden(c)) /\ label'[c] = label[c]
    BY <2>1, <1>12, <1>16
  <2>3. Content(c, q)
    BY <2>2, <1>0 DEF Contents
  <2> QED BY <2>2, <2>3, <1>5, <1>17 DEF Content, Names_it, Waiting
<1>19. Owned'
  <2>1. \A j \in 1 .. h : \E b \in 1 .. B - 1 : In(j, b)'
    <3> TAKE j \in 1 .. h
    <3>1. PICK b \in 1 .. B : In(j, b)
      BY <1>0, <1>6, <1>b DEF Owned
    <3> QED BY <3>1, <1>14, <1>15
  <2>2. ASSUME NEW b \in 1 .. B - 1, NEW w \in Names
        PROVE  w \in blocks'[b].names <=>
                  \E j \in 1 .. h : In(j, b)' /\ label'[local_label_stack'[j]].v = w
    <3>1. w \in blocks[b].names <=>
             \E j \in 1 .. L : In(j, b) /\ label[local_label_stack[j]].v = w
      BY <1>0, <1>6, <1>b DEF Owned
    <3>2. \A j \in 1 .. L : In(j, b) => j \in 1 .. h
      BY <1>14
    <3>3. \A j \in 1 .. h :
             /\ In(j, b)' <=> In(j, b)
             /\ label'[local_label_stack'[j]].v = label[local_label_stack[j]].v
             /\ j \in 1 .. L
      BY <1>6, <1>12, <1>13, <1>14
    <3>4. (\E j \in 1 .. h : In(j, b)' /\ label'[local_label_stack'[j]].v = w)
             <=> \E j \in 1 .. L : In(j, b) /\ label[local_label_stack[j]].v = w
      BY <3>2, <3>3
    <3> QED BY <3>1, <3>4, <1>6
  <2>3. \A i, j \in 1 .. G :
          label'[global_label_stack[i]].v = label'[global_label_stack[j]].v => i = j
    BY <1>0, <1>12, <1>13, <1>b DEF Owned
  <2>4. Len(blocks') = B - 1 /\ Len(local_label_stack') = h /\ Len(global_label_stack') = G
    BY <1>5, <1>6, <1>b
  <2>5. \A j \in 1 .. Len(local_label_stack') : \E b \in 1 .. Len(blocks') : In(j, b)'
    BY <2>1, <2>4
  <2>6. \A b \in 1 .. Len(blocks'), w \in Names :
           w \in blocks'[b].names <=>
              \E j \in 1 .. Len(local_label_stack') :
                 In(j, b)' /\ label'[local_label_stack'[j]].v = w
    BY <2>2, <2>4
  <2>7. \A i, j \in 1 .. Len(global_label_stack') :
          label'[global_label_stack'[i]].v = label'[global_label_stack'[j]].v => i = j
    BY <2>3, <2>4, <1>5
  <2> QED BY <2>5, <2>6, <2>7 DEF Owned
<1>20. Defs'
  <2>1. \A i \in 1 .. G : label'[global_label_stack[i]].v = label[global_label_stack[i]].v
    BY <1>12, <1>13
  <2> QED BY <2>1, <1>0, <1>5, <1>b DEF Defs
<1>21. Bound'
  <2>1. /\ \A k \in 1 .. Len(refs) : refs'[k].to \in {refs[k].to, Meant(k)}
        /\ \A c \in Popped(local_label_stack, h) : \A k \in Waiting(c) : refs'[k].to = Meant(k)
    BY <1>4, <1>5, <1>7, PopBinds
  <2>2. \A c \in OnStack : c \in OnStack' \/ c \in Popped(local_label_stack, h)
    <3>1. \A c \in OnStack : \E i \in 1 .. Len(Scope) : c = Scope[i]
      BY <1>0, Distinct
    <3>2. ASSUME NEW i \in 1 .. Len(Scope)
          PROVE  \/ i \in 1 .. G
                 \/ \E j \in 1 .. h : i = G + j
                 \/ i \in G + h + 1 .. Len(Scope)
      <4>1. i \in 1 .. G \/ \E j \in 1 .. L : i = G + j
        BY <1>b, Heights
      <4>2. \A j \in 1 .. L : j \in 1 .. h \/ G + j > G + h
        BY <1>4
      <4>3. Len(Scope) \in Nat
        BY Heights
      <4> QED BY <4>1, <4>2, <4>3, <1>4
    <3>3. \A i \in 1 .. G : Scope[i] \in OnStack'
      BY <1>13, <1>b, Heights
    <3>4. \A j \in 1 .. h : Scope[G + j] \in OnStack'
      BY <1>6, <1>13, <1>b, Heights
    <3> QED BY <3>1, <3>2, <3>3, <3>4, <1>8
  <2>3. \A k \in 1 .. Len(refs) : Meant(k)' = Meant(k)
    BY <1>17 DEF Meant
  <2>4. \A c \in OnStack' : Waiting(c)' = Waiting(c)
    BY <1>12 DEF Waiting
  <2>5. ASSUME NEW k \in 1 .. Len(refs)
        PROVE  \/ refs'[k].to = Meant(k)'
               \/ refs'[k].to = None /\ \E c \in OnStack' : k \in Waiting(c)'
    <3>1. CASE refs'[k].to = Meant(k)
      BY <3>1, <2>3
    <3>2. CASE refs'[k].to # Meant(k)
      <4>1. refs[k].to # Meant(k) /\ refs'[k].to = refs[k].to
        BY <3>2, <2>1
      <4>2. PICK c \in OnStack : k \in Waiting(c) /\ refs[k].to = None
        BY <4>1, <1>0 DEF Bound
      <4>3. c \in OnStack'
        BY <3>2, <4>2, <2>1, <2>2
      <4> QED BY <4>1, <4>2, <4>3, <2>4
    <3> QED BY <3>1, <3>2
  <2> QED BY <2>5, <1>17 DEF Bound
<1>22. \A i \in 1 .. Len(Scope') : label'[Scope'[i]].v \in Names
  <2>1. \A i \in 1 .. G + h : label'[Scope[i]] = label[Scope[i]] /\ i \in 1 .. Len(Scope)
    BY <1>8, <1>10, Heights
  <2> QED BY <2>1, <1>0, <1>10
<1> QED BY <1>5, <1>11, <1>18, <1>19, <1>20, <1>21, <1>22 DEF LabelInv

-----------------------------------------------------------------------------
(* The initial state has no label.                                         *)
LEMMA InitInv == Init => IInv
<1> SUFFICES ASSUME Init PROVE IInv
  OBVIOUS
<1> USE DEF Init
<1>1. Scope = << >> /\ Len(Scope) = 0
  BY DEF Scope
<1>2. Allocated
  BY <1>1 DEF Allocated, Allotted
<1>3. Owned /\ Contents /\ Bound
  BY DEF Owned, Contents, At, GlobalAt, LocalAt, Bound
<1>4. IsScope(Names, NULL, Scope, label, sym_label)
  BY <1>1 DEF IsScope, IsNewest
<1>5. LabelInv
  BY <1>1, <1>2, <1>3, <1>4 DEF LabelInv
<1>6. Quiet /\ FileScope
  BY DEF Quiet, FileScope
<1> QED BY <1>5, <1>6, InitTypes DEF IInv

(* An error is of a function, and told when it ends.                       *)
LEMMA QuietStep == ASSUME Quiet, Nested, [Next]_vars PROVE Quiet'
<1>1. CASE gen_function
  BY <1>1 DEF gen_function, Quiet
<1>2. CASE open_block \/ close_block
  BY <1>2 DEF open_block, close_block, Quiet
<1>3. CASE end_function
  BY <1>3 DEF end_function, Quiet
<1>4. CASE label_undefined \/ tcc_error \/ \E n \in Names : label_duplicate(n)
  BY <1>4 DEF label_undefined, Undefined_at, tcc_error, label_duplicate, Error, Quiet
<1>5. ASSUME NEW n \in Names, declare_label(n) \/ goto(n) \/ take_address(n) \/ define_label(n)
      PROVE  Quiet'
  <2>1. declare_label(n) => Quiet'
    BY DEF declare_label, Quiet
  <2>2. Statement => Quiet'
    BY DEF Statement, Quiet
  <2> QED BY <1>5, <2>1, <2>2 DEF goto, take_address, define_label
<1>6. CASE UNCHANGED vars
  BY <1>6 DEF vars, Quiet
<1>7. CASE \E n \in Names : init_putv(n)
  BY <1>7 DEF init_putv, Quiet
<1> QED BY <1>1, <1>2, <1>3, <1>4, <1>5, <1>6, <1>7 DEF Next

(* Once an error has left labels behind, the count only grows.             *)
LEMMA ResidueStep == ASSUME TypeOK, [Next]_vars PROVE residue' = 0 => residue = 0
<1>0. residue \in Nat
  BY DEF TypeOK
<1>e. \A what, n : Error(what, n) => (residue' = 0 => residue = 0)
  BY <1>0 DEF Error, Ended
<1>1. CASE gen_function \/ open_block \/ close_block
  BY <1>1 DEF gen_function, open_block, close_block
<1>2. CASE end_function
  BY <1>0, <1>2 DEF end_function, Ended
<1>3. CASE label_undefined \/ tcc_error \/ \E n \in Names : label_duplicate(n)
  BY <1>3, <1>e DEF label_undefined, Undefined_at, tcc_error, label_duplicate
<1>4. ASSUME NEW n \in Names, declare_label(n) \/ goto(n) \/ take_address(n) \/ define_label(n)
      PROVE  residue' = residue
  BY <1>4 DEF declare_label, goto, take_address, define_label, Statement
<1>5. CASE UNCHANGED vars
  BY <1>5 DEF vars
<1>6. CASE \E n \in Names : init_putv(n)
  BY <1>6 DEF init_putv
<1> QED BY <1>1, <1>2, <1>3, <1>4, <1>5, <1>6 DEF Next

(* Every step keeps what is known of the labels, until an error has left   *)
(* some behind.                                                            *)
LEMMA LabelStep == ASSUME IInv, [Next]_vars PROVE LabelInv'
<1>0. CASE residue' # 0
  BY <1>0 DEF LabelInv
<1> SUFFICES ASSUME residue' = 0 PROVE LabelInv'
  BY <1>0
<1>1. residue = 0
  BY ResidueStep DEF IInv
<1>2. CASE gen_function
  BY <1>1, <1>2, BeginStep
<1>3. CASE open_block
  BY <1>1, <1>3, OpenStep
<1>4. CASE close_block
  BY <1>1, <1>4, CloseStep
<1>5. CASE end_function
  BY <1>1, <1>5, EndStep
<1>6. CASE label_undefined \/ tcc_error
  BY <1>1, <1>6, ErrorStep
<1>7. ASSUME NEW n \in Names, declare_label(n) PROVE LabelInv'
  BY <1>1, <1>7, DeclareStep
<1>8. ASSUME NEW n \in Names, goto(n) PROVE LabelInv'
  BY <1>1, <1>8, GotoStep
<1>9. ASSUME NEW n \in Names, take_address(n) PROVE LabelInv'
  BY <1>1, <1>9, StatementSteady, AddressStep DEF take_address
<1>13. ASSUME NEW n \in Names, init_putv(n) PROVE LabelInv'
  <2>1. mode \in {"idle", "waiting"}
    BY <1>13 DEF init_putv, Outside
  <2> QED BY <2>1, <1>1, <1>13, FirstStep, NextInitializer
<1>10. ASSUME NEW n \in Names, define_label(n) PROVE LabelInv'
  BY <1>1, <1>10, DefineStep
<1>11. ASSUME NEW n \in Names, label_duplicate(n) PROVE LabelInv'
  BY <1>1, <1>11, ErrorStep
<1>12. CASE UNCHANGED vars
  <2>1. LabelInv
    BY DEF IInv
  <2>2. /\ Scope' = Scope /\ OnStack' = OnStack
        /\ UNCHANGED <<label, free, sym_label, global_label_stack, local_label_stack, blocks,
                       refs, mode, opened, defs, residue>>
    BY <1>12 DEF vars, Scope, OnStack
  <2>3. Allocated' = Allocated
    BY <2>2 DEF Allocated
  <2>4. Owned' = Owned
    BY <2>2 DEF Owned, In
  <2>5. \A a, q : At(a, q)' = At(a, q) /\ Content(a, q)' = Content(a, q)
    BY <2>2 DEF At, GlobalAt, LocalAt, In, Content, Names_it, Waiting, Hidden
  <2>6. Contents' = Contents
    BY <2>5 DEF Contents
  <2>7. Bound' = Bound
    BY <2>2 DEF Bound, Meant, Waiting
  <2>8. Defs' = Defs
    BY <2>2 DEF Defs, In
  <2> QED BY <2>1, <2>2, <2>3, <2>4, <2>6, <2>7, <2>8 DEF LabelInv
<1> QED BY <1>2, <1>3, <1>4, <1>5, <1>6, <1>7, <1>8, <1>9, <1>10, <1>11, <1>12, <1>13 DEF Next

(* IInv is inductive.                                                      *)
LEMMA Step == ASSUME IInv, [Next]_vars PROVE IInv'
<1>1. TypeOK /\ Nested /\ Quiet
  BY DEF IInv
<1>2. TypeOK' /\ Nested' /\ Quiet'
  BY <1>1, TypeStep, NestedStep, QuietStep
<1>3. LabelInv' /\ FileScope'
  BY <1>2, LabelStep, FileScopeStep
<1> QED BY <1>2, <1>3 DEF IInv

(* The inductive invariant: what the stacks, the blocks, the table of      *)
(* names and the chains of gotos have to do with each other holds always.  *)
THEOREM Invariance == Spec => []IInv
<1>2. IInv /\ [Next]_vars => IInv'
  BY Step
<1> QED BY <1>2, InitInv, PTL DEF Spec

(* A goto or &&label of a function without an error before it goes to the  *)
(* label its block structure says.                                         *)
THEOREM LabelsBound == Spec => []RefsBound
<1>1. IInv => RefsBound
  <2> SUFFICES ASSUME IInv, residue = 0 PROVE \A k \in DOMAIN refs : refs[k].to \in {None, Meant(k)}
    BY DEF RefsBound
  <2>1. Bound /\ DOMAIN refs = 1 .. Len(refs)
    BY DEF IInv, LabelInv, TypeOK
  <2> QED BY <2>1 DEF Bound
<1> QED BY <1>1, Invariance, PTL

(* The Syms of labels are on one stack, once, or free: label_pop frees     *)
(* what label_push has taken.  Between functions there is one on the stack *)
(* for every name an initializer has taken the address of, and no other.   *)
THEOREM PoolKept == Spec => []Pooled
<1>1. ASSUME IInv, residue = 0
      PROVE  /\ free = Addr \ OnStack
             /\ Len(global_label_stack) + Len(local_label_stack) = Cardinality(OnStack)
             /\ mode = "idle" => OnStack = {}
             /\ mode = "waiting" =>
                   /\ local_label_stack = << >>
                   /\ {label[a].v : a \in OnStack} = {refs[k].v : k \in DOMAIN refs}
                   /\ \A a, b \in OnStack : label[a].v = label[b].v => a = b
  <2>1. TypeOK /\ Allocated /\ (mode = "idle" => Scope = << >>)
    BY <1>1 DEF IInv, LabelInv
  <2>2. /\ Scope \in Seq(Addr) /\ Len(Scope) = Len(global_label_stack) + Len(local_label_stack)
        /\ OnStack = {Scope[i] : i \in 1 .. Len(Scope)} /\ free = Addr \ OnStack
    BY <2>1, Heights, Distinct
  <2>a. PICK N \in Nat : N = Len(Scope)
    BY <2>2
  <2>b. PICK f : f = [i \in 1 .. N |-> Scope[i]]
    OBVIOUS
  <2>3. N = Len(Scope) /\ f = [i \in 1 .. N |-> Scope[i]]
    BY <2>a, <2>b
  <2>4. f \in Bijection(1 .. N, OnStack)
    <3>1. f \in [1 .. N -> OnStack]
      BY <2>2, <2>3
    <3>2. \A i, j \in 1 .. N : f[i] = f[j] => i = j
      BY <2>1, <2>3 DEF Allocated, Allotted
    <3>3. \A a \in OnStack : \E i \in 1 .. N : f[i] = a
      BY <2>2, <2>3
    <3> QED BY <3>1, <3>2, <3>3 DEF Bijection, Injection, Surjection, IsInjective
  <2>5. ExistsBijection(1 .. N, OnStack)
    BY <2>4 DEF ExistsBijection
  <2>6. Cardinality(OnStack) = N
    BY <2>5, FS_CountingElements
  <2>7. mode = "idle" => OnStack = {}
    <3>1. mode = "idle" => Len(Scope) = 0
      BY <2>1
    <3> QED BY <3>1, <2>2
  <2>8. ASSUME mode = "waiting"
        PROVE  /\ local_label_stack = << >>
               /\ {label[a].v : a \in OnStack} = {refs[k].v : k \in DOMAIN refs}
               /\ \A a, b \in OnStack : label[a].v = label[b].v => a = b
    <3>1. Owned /\ blocks = << >> /\ FileScope
      BY <1>1, <2>8 DEF IInv, LabelInv, Nested
    <3>2. local_label_stack = << >>
      <4>1. \A j \in 1 .. Len(local_label_stack) : FALSE
        <5>1. Len(blocks) = 0
          BY <3>1
        <5>2. \A j \in 1 .. Len(local_label_stack) : \E b \in 1 .. Len(blocks) : In(j, b)
          BY <3>1 DEF Owned
        <5> QED BY <5>1, <5>2
      <4>2. Len(local_label_stack) = 0
        BY <4>1, <2>1, Heights
      <4> QED BY <4>2, <2>1 DEF TypeOK
    <3>3. DOMAIN refs = 1 .. Len(refs)
      BY <2>1 DEF TypeOK
    <3>4. {label[a].v : a \in OnStack} = {refs[k].v : k \in DOMAIN refs}
      <4>1. /\ \A a \in OnStack : \E k \in 1 .. Len(refs) : refs[k].v = label[a].v
            /\ \A k \in 1 .. Len(refs) : \E a \in OnStack : label[a].v = refs[k].v
        BY <3>1, <2>8, <1>1 DEF FileScope
      <4>2. \A a \in OnStack : label[a].v \in {refs[k].v : k \in DOMAIN refs}
        BY <4>1, <3>3
      <4>3. \A k \in DOMAIN refs : refs[k].v \in {label[a].v : a \in OnStack}
        BY <4>1, <3>3
      <4> QED BY <4>2, <4>3
    <3>5. \A a \in OnStack : \E i \in 1 .. Len(global_label_stack) : global_label_stack[i] = a
      BY <3>2, <2>1 DEF OnStack, TypeOK
    <3>6. \A a, b \in OnStack : label[a].v = label[b].v => a = b
      BY <3>1, <3>5 DEF Owned
    <3> QED BY <3>2, <3>4, <3>6
  <2> QED BY <2>2, <2>3, <2>6, <2>7, <2>8
<1>2. IInv => Pooled
  BY <1>1 DEF Pooled
<1> QED BY <1>2, Invariance, PTL

-----------------------------------------------------------------------------
(* The label an error calls undefined has been used and not defined.       *)
LEMMA UndefinedOne ==
    ASSUME IInv, residue = 0, NEW s \in Seq(Addr), NEW h \in 0 .. Len(s), NEW b,
           \A i \in h + 1 .. Len(s) : At(s[i], [v |-> label[s[i]].v, scope |-> b]),
           Undefined_at(s, h)
    PROVE  /\ message'.what = "undefined" /\ [v |-> message'.v, scope |-> b] \notin defs
           /\ \E k \in DOMAIN refs : Meant(k) = [v |-> message'.v, scope |-> b]
<1> USE DEF IInv
<1>1. PICK i : i = StopsAt(s, h)
  OBVIOUS
<1>2. /\ Undefineds(s, h) # {} /\ message' = [what |-> "undefined", v |-> label[s[i]].v]
  BY <1>1 DEF Undefined_at, Error
<1>3. i \in h + 1 .. Len(s) /\ label[s[i]].r = "FORWARD"
  <2>1. i \in Undefineds(s, h)
    BY <1>1, <1>2, Stops
  <2> QED BY <2>1 DEF Undefineds
<1>4. PICK q : q = [v |-> label[s[i]].v, scope |-> b]
  OBVIOUS
<1>5. At(s[i], q)
  BY <1>3, <1>4
<1>6. s[i] \in OnStack /\ s[i] \in Addr /\ q \in Place
  <2>1. s[i] \in OnStack /\ q \in Place
    BY <1>5, AtOne
  <2> QED BY <2>1, Distinct DEF LabelInv
<1>7. Content(s[i], q)
  BY <1>5, <1>6 DEF LabelInv, Contents
<1>8. q \notin defs /\ \E k \in 1 .. Len(refs) : refs[k].v = q.v /\ refs[k].scope = q.scope
  BY <1>3, <1>7 DEF Content, Names_it
<1>9. q \notin defs /\ \E k \in 1 .. Len(refs) : Meant(k) = q
  BY <1>4, <1>8 DEF Meant
<1>10. DOMAIN refs = 1 .. Len(refs)
  BY DEF TypeOK
<1> QED BY <1>2, <1>4, <1>9, <1>10

(* A label_pop that stops, of a block or of the function.                  *)
LEMMA UndefinedRight ==
    ASSUME IInv, residue = 0, label_undefined
    PROVE  /\ message'.what = "undefined" /\ [v |-> message'.v, scope |-> Ending] \notin defs
           /\ \E k \in DOMAIN refs : Meant(k) = [v |-> message'.v, scope |-> Ending]
<1> USE DEF IInv
<1>0. /\ global_label_stack \in Seq(Addr) /\ local_label_stack \in Seq(Addr)
      /\ Len(local_label_stack) \in Nat
  BY DEF TypeOK
<1>1. CASE blocks = << >>
  <2>1. Undefined_at(global_label_stack, 0) /\ Ending = 0
    BY <1>1 DEF label_undefined, Ending
  <2>2. \A i \in 0 + 1 .. Len(global_label_stack) :
           At(global_label_stack[i], [v |-> label[global_label_stack[i]].v, scope |-> 0])
    BY DEF At, GlobalAt
  <2>3. 0 \in 0 .. Len(global_label_stack)
    BY <1>0
  <2> QED BY <2>1, <2>2, <2>3, <1>0, UndefinedOne
<1>2. CASE blocks # << >>
  <2>1. PICK h, b : h = Inner.height /\ b = Inner.id
    OBVIOUS
  <2>2. Undefined_at(local_label_stack, h) /\ Ending = b
    BY <1>2, <2>1 DEF label_undefined, Ending
  <2>3. Len(blocks) \in 1 .. Len(blocks) /\ Inner = blocks[Len(blocks)]
    BY <1>2 DEF TypeOK, Inner
  <2>4. h \in 0 .. Len(local_label_stack)
    <3>1. blocks[Len(blocks)] \in Block
      BY <2>3 DEF TypeOK
    <3>2. blocks[Len(blocks)].height <= Len(local_label_stack)
      BY <2>3 DEF Nested
    <3>3. h \in Nat /\ h <= Len(local_label_stack)
      BY <3>1, <3>2, <2>1, <2>3 DEF Block
    <3> QED BY <3>3, <1>0
  <2>5. ASSUME NEW i \in h + 1 .. Len(local_label_stack)
        PROVE  At(local_label_stack[i], [v |-> label[local_label_stack[i]].v, scope |-> b])
    <3>1. i \in 1 .. Len(local_label_stack) /\ h < i
      BY <2>4, <1>0
    <3>2. In(i, Len(blocks))
      BY <3>1, <2>1, <2>3 DEF In
    <3> QED BY <3>1, <3>2, <2>1, <2>3 DEF At, LocalAt
  <2> QED BY <2>2, <2>4, <2>5, <1>0, UndefinedOne
<1> QED BY <1>1, <1>2

(* What the compiler says of a function is so: without an error all its    *)
(* gotos are bound, and the &&labels of the initializers before it; a      *)
(* label called undefined has been used, there or in the scope that ends,  *)
(* and not been defined in it, one called a duplicate has been.            *)
THEOREM VerdictsRight == Spec => Verdict
<1> DEFINE Right ==
       (mode \in {"body", "declare"} /\ mode' = "idle" /\ residue = 0) =>
          /\ message'.what = "none" => \A k \in DOMAIN refs' : refs'[k].to = Meant(k)
          /\ message'.what = "undefined" =>
                /\ [v |-> message'.v, scope |-> Ending] \notin defs
                /\ \E k \in DOMAIN refs : Meant(k) = [v |-> message'.v, scope |-> Ending]
          /\ message'.what = "duplicate" => Here(message'.v) \in defs
<1>1. ASSUME IInv, Next, mode \in {"body", "declare"}, mode' = "idle", residue = 0 PROVE Right
  <2>1. CASE gen_function \/ open_block \/ close_block
    BY <1>1, <2>1 DEF gen_function, open_block, close_block
  <2>2. CASE end_function
    <3>1. message'.what = "none"
      BY <1>1, <2>2 DEF end_function, IInv, Quiet, Silent
    <3>2. \A k \in DOMAIN refs' : refs'[k].to = Meant(k)
      BY <1>1, <2>2, EndStep
    <3> QED BY <3>1, <3>2
  <2>3. CASE label_undefined
    BY <1>1, <2>3, UndefinedRight
  <2>4. CASE tcc_error
    <3>1. message'.what = "other"
      BY <2>4 DEF tcc_error, Error
    <3> QED BY <3>1
  <2>5. ASSUME NEW n \in Names, label_duplicate(n) PROVE Right
    <3>1. message'.what = "duplicate" /\ message'.v = n
      BY <2>5 DEF label_duplicate, Error
    <3>2. Here(n) \in defs
      <4>1. Known(n) /\ label[label_find(n)].r = "DEFINED"
        BY <2>5 DEF label_duplicate
      <4> QED BY <4>1, <1>1, Found
    <3> QED BY <3>1, <3>2
  <2>6. ASSUME NEW n \in Names,
               declare_label(n) \/ goto(n) \/ take_address(n) \/ define_label(n)
        PROVE  mode' # "idle"
    BY <2>6, <1>1 DEF declare_label, goto, take_address, define_label, Statement
  <2>7. ASSUME NEW n \in Names, init_putv(n) PROVE Right
    BY <2>7 DEF init_putv
  <2> QED BY <1>1, <2>1, <2>2, <2>3, <2>4, <2>5, <2>6, <2>7 DEF Next
<1>2. ASSUME UNCHANGED vars PROVE mode' = mode
  BY <1>2 DEF vars
<1>3. IInv /\ [Next]_vars => [Right]_vars
  BY <1>1, <1>2
<1>4. [][Right]_vars => Verdict
  BY DEF Verdict
<1> QED BY <1>3, <1>4, Invariance, PTL DEF Spec
=============================================================================
