--------------------------- MODULE SymStackProofs ---------------------------
(***************************************************************************)
(* Proofs about SymStack, for all names, pools of Syms and depths of       *)
(* nesting.                                                                *)
(***************************************************************************)
EXTENDS SymStack, StackFacts, TLAPS

(* A Sym is on one of the stacks, once, or on the free list.               *)
Allocated ==
    /\ \A i, j \in 1 .. Len(Scope) : i # j => Scope[i] # Scope[j]
    /\ free = Addr \ {Scope[i] : i \in 1 .. Len(Scope)}

(* The blocks that are open lie one in the other, above the Sym of no name *)
(* that gen_function pushed.                                               *)
Nested ==
    /\ mode = "body" => local_stack # << >>
    /\ \A i \in 1 .. Len(blocks) :
          /\ 0 < blocks[i].height /\ blocks[i].height <= Len(local_stack)
          /\ \A j \in 1 .. i : blocks[j].height <= blocks[i].height

(* Every name means below a block what it meant when the block began, but  *)
(* for a function that was called since.                                   *)
Globals == {global_stack[i] : i \in 1 .. Len(global_stack)}
Meant(b, n) ==
    \E p \in Ptr :
        /\ IsNewest(NULL, Scope, sym, n, Len(global_stack) + blocks[b].height, p)
        /\ p = blocks[b].meaning[n] \/ (blocks[b].meaning[n] = NULL /\ p \in Globals)

(* gen_inline_functions: a pass that has compiled nothing has passed over  *)
(* nothing.                                                                *)
Phase ==
    /\ mode \in {"idle", "file", "head", "record", "exit"} => resume = "file"
    /\ mode = "inline" => resume = "inline" /\ scan <= Len(global_stack)
    /\ mode = "body" /\ resume = "inline" => generated /\ scan <= Len(global_stack)
    /\ mode = "inline" /\ ~generated => scan = Len(global_stack)

(* Until a unit has left locals behind, the scope rule and the blocks.     *)
ScopeInv ==
    residue = 0 =>
        /\ IsScope(Names, NULL, Scope, sym, sym_identifier)
        /\ \A b \in 1 .. Len(blocks), n \in Names : Meant(b, n)

IInv == TypeOK /\ Allocated /\ Nested /\ Phase /\ ScopeInv

-----------------------------------------------------------------------------
(* The operations on the stacks.  Scope is the two stacks, one on the      *)
(* other.                                                                  *)
LEMMA ScopeFacts ==
    ASSUME TypeOK
    PROVE  /\ Scope \in Seq(Addr)
           /\ Len(global_stack) \in Nat /\ Len(local_stack) \in Nat
           /\ Len(Scope) = Len(global_stack) + Len(local_stack)
           /\ \A i \in 1 .. Len(global_stack) : Scope[i] = global_stack[i]
           /\ \A i \in 1 .. Len(local_stack) :
                 Scope[Len(global_stack) + i] = local_stack[i]
BY DEF TypeOK, Scope

(* The types of what Fresh makes.                                          *)
LEMMA FreshFacts ==
    ASSUME NEW n \in Names \union {Anon}
    PROVE  /\ Fresh(n) \in Sym
           /\ \A p \in Ptr, t \in {"plain", "inline"} :
                 [Fresh(n) EXCEPT !.prev_tok = p, !.type = t] \in Sym
           /\ \A t \in {"plain", "inline"} : [Fresh(n) EXCEPT !.type = t] \in Sym
           /\ [Fresh(n) EXCEPT !.used = TRUE] \in Sym
BY DEF Fresh, Sym, Ptr

(* What the free list is, in the words of StackFacts.                      *)
LEMMA AllocatedIs == Allocated <=> Allotted(Addr, free, Scope)
BY DEF Allocated, Allotted

(* A Sym put on top of the two stacks.                                     *)
LEMMA AllocatedTop ==
    ASSUME TypeOK, Allocated, NEW a \in free,
           Scope' = Append(Scope, a), free' = free \ {a}
    PROVE  Allocated'
<1>1. Scope \in Seq(Addr) /\ Allotted(Addr, free, Scope)
  BY ScopeFacts, AllocatedIs
<1>2. Allotted(Addr, free', Scope')
  BY <1>1, AllottedPush
<1> QED BY <1>2 DEF Allocated, Allotted

(* A Sym put between the two stacks.                                       *)
LEMMA AllocatedBetween ==
    ASSUME TypeOK, Allocated, NEW a \in free,
           Scope' = Append(global_stack, a) \o local_stack, free' = free \ {a}
    PROVE  Allocated'
<1>1. /\ global_stack \in Seq(Addr) /\ local_stack \in Seq(Addr)
      /\ Allotted(Addr, free, global_stack \o local_stack)
  BY AllocatedIs DEF TypeOK, Scope
<1>2. Allotted(Addr, free', Scope')
  BY <1>1, AllottedInsert
<1> QED BY <1>2 DEF Allocated, Allotted

(* The Syms above height m freed.                                          *)
LEMMA AllocatedPop ==
    ASSUME TypeOK, Allocated, NEW m \in 0 .. Len(Scope),
           Scope' = SubSeq(Scope, 1, m),
           free' = free \union {Scope[i] : i \in m + 1 .. Len(Scope)}
    PROVE  Allocated'
<1>1. Scope \in Seq(Addr) /\ Allotted(Addr, free, Scope)
  BY ScopeFacts, AllocatedIs
<1>2. Allotted(Addr, free', Scope')
  BY <1>1, AllottedPop
<1> QED BY <1>2 DEF Allocated, Allotted

(* finish frees the globals and leaves what locals there are.              *)
LEMMA AllocatedFinish ==
    ASSUME TypeOK, Allocated, global_stack' = << >>, local_stack' = local_stack,
           free' = free \union {global_stack[i] : i \in 1 .. Len(global_stack)}
    PROVE  Allocated'
<1>1. /\ global_stack \in Seq(Addr) /\ local_stack \in Seq(Addr)
      /\ Allotted(Addr, free, global_stack \o local_stack)
  BY AllocatedIs DEF TypeOK, Scope
<1>2. Allotted(Addr, free', local_stack)
  BY <1>1, AllottedRest, ZenonT(60)
<1>3. Scope' = local_stack
  BY <1>1 DEF Scope
<1> QED BY <1>2, <1>3 DEF Allocated, Allotted

(* sym_pop: what it does to the names is what the scope rule asks for.     *)
LEMMA sym_popFacts ==
    ASSUME TypeOK, NEW stack \in Seq(Addr), NEW h \in 0 .. Len(stack), sym_pop(stack, h)
    PROVE  /\ free' = free \union {stack[i] : i \in h + 1 .. Len(stack)}
           /\ free' \subseteq Addr
           /\ sym' \in [Addr -> Sym]
           /\ \A a \in Addr \ {stack[i] : i \in h + 1 .. Len(stack)} : sym'[a] = sym[a]
           /\ \A a \in Addr : sym'[a].type = "inline" => sym'[a] = sym[a]
           /\ sym_identifier' \in [Names -> Ptr]
           /\ \A w \in Names :
                \/ /\ \A i \in h + 1 .. Len(stack) : sym[stack[i]].v # w
                   /\ sym_identifier'[w] = sym_identifier[w]
                \/ \E k \in h + 1 .. Len(stack) :
                      /\ sym[stack[k]].v = w
                      /\ sym_identifier'[w] = sym[stack[k]].prev_tok
                      /\ \A i \in h + 1 .. k - 1 : sym[stack[i]].v # w
<1>1. /\ free' = free \union {stack[i] : i \in h + 1 .. Len(stack)}
      /\ \A i \in h + 1 .. Len(stack) : stack[i] \in Addr
  BY DEF sym_pop, PoppedSyms
<1>2. free' \subseteq Addr
  BY <1>1 DEF TypeOK
<1>3. /\ sym' \in [Addr -> Sym]
      /\ \A a \in Addr \ {stack[i] : i \in h + 1 .. Len(stack)} : sym'[a] = sym[a]
      /\ \A a \in Addr : sym'[a].type = "inline" => sym'[a] = sym[a]
  <2>1. sym \in [Addr -> Sym] /\ Fresh(Anon) \in Sym /\ Fresh(Anon).type = "plain"
    BY FreshFacts DEF TypeOK, Fresh
  <2>2. sym' = [a \in Addr |-> IF a \in {stack[i] : i \in h + 1 .. Len(stack)}
                               THEN Fresh(Anon) ELSE sym[a]]
    BY DEF sym_pop, PoppedSyms
  <2> QED BY <2>1, <2>2
<1>4. ASSUME NEW w \in Names
      PROVE  /\ sym_identifier'[w] \in Ptr
             /\ \/ /\ \A i \in h + 1 .. Len(stack) : sym[stack[i]].v # w
                   /\ sym_identifier'[w] = sym_identifier[w]
                \/ \E k \in h + 1 .. Len(stack) :
                      /\ sym[stack[k]].v = w
                      /\ sym_identifier'[w] = sym[stack[k]].prev_tok
                      /\ \A i \in h + 1 .. k - 1 : sym[stack[i]].v # w
  <2> DEFINE I == PoppedAt(stack, h, w)
  <2>1. I = {i \in h + 1 .. Len(stack) : sym[stack[i]].v = w}
    BY DEF PoppedAt
  <2>2. sym_identifier'[w] = IF I = {} THEN sym_identifier[w]
                             ELSE sym[stack[Oldest(I)]].prev_tok
    BY DEF sym_pop
  <2>3. CASE I = {}
    BY <2>1, <2>2, <2>3 DEF TypeOK
  <2>4. CASE I # {}
    <3>1. I \subseteq Nat
      BY <2>1
    <3> HIDE DEF I
    <3>2. \E i \in I : \A j \in I : i <= j
      BY <2>4, <3>1, LeastNat
    <3>3. Oldest(I) \in I /\ \A j \in I : Oldest(I) <= j
      BY <3>2 DEF Oldest
    <3> DEFINE k == Oldest(I)
    <3>4. k \in h + 1 .. Len(stack) /\ sym[stack[k]].v = w
      BY <3>3, <2>1
    <3>5. sym_identifier'[w] = sym[stack[k]].prev_tok /\ sym_identifier'[w] \in Ptr
      BY <3>4, <2>2, <2>4, <1>1 DEF TypeOK, Sym
    <3>6. \A i \in h + 1 .. k - 1 : sym[stack[i]].v # w
      <4> SUFFICES ASSUME NEW i \in h + 1 .. k - 1, sym[stack[i]].v = w PROVE FALSE
        OBVIOUS
      <4>1. i \in h + 1 .. Len(stack) /\ i < k
        BY <3>4
      <4>2. i \in I
        BY <4>1, <2>1
      <4>3. k <= i
        BY <4>2, <3>3
      <4> HIDE DEF k
      <4> QED BY <4>1, <4>3, <3>4
    <3> QED BY <3>4, <3>5, <3>6
  <2> QED BY <2>3, <2>4
<1>5. sym_identifier' \in [Names -> Ptr]
  BY <1>4 DEF sym_pop
<1> QED BY <1>1, <1>2, <1>3, <1>4, <1>5

-----------------------------------------------------------------------------
(* What was on the stacks when a block began is part of them.              *)
LEMMA BlockFacts ==
    ASSUME TypeOK, Nested, NEW b \in 1 .. Len(blocks)
    PROVE  /\ blocks[b].height \in 1 .. Len(local_stack)
           /\ blocks[b].meaning \in [Names -> Ptr]
           /\ Len(global_stack) + blocks[b].height \in Len(global_stack) .. Len(Scope)
           /\ Len(global_stack) + blocks[b].height \in Nat
<1>1. blocks[b] \in Block /\ Len(global_stack) \in Nat /\ Len(local_stack) \in Nat
  BY DEF TypeOK
<1>2. blocks[b].height \in 1 .. Len(local_stack) /\ blocks[b].meaning \in [Names -> Ptr]
  BY <1>1 DEF Nested, Block
<1> QED BY <1>1, <1>2, ScopeFacts

(* As long as the block is open and no function is declared by a call.     *)
LEMMA MeantKept ==
    ASSUME TypeOK, Nested, NEW b \in 1 .. Len(blocks), NEW n \in Names, Meant(b, n),
           blocks'[b] = blocks[b], global_stack' = global_stack,
           \A i \in 1 .. Len(global_stack) + blocks[b].height :
              Scope'[i] = Scope[i] /\ sym'[Scope[i]].v = sym[Scope[i]].v
    PROVE  Meant(b, n)'
<1> DEFINE m == Len(global_stack) + blocks[b].height
<1>1. m \in Nat
  BY BlockFacts
<1>2. PICK p \in Ptr :
         /\ IsNewest(NULL, Scope, sym, n, m, p)
         /\ p = blocks[b].meaning[n] \/ (blocks[b].meaning[n] = NULL /\ p \in Globals)
  BY DEF Meant
<1>3. IsNewest(NULL, Scope', sym', n, m, p)
  BY <1>1, <1>2, NewestSame
<1> QED BY <1>2, <1>3 DEF Meant, Globals

(* A step that leaves the stacks and the names as they are, and of the     *)
(* Syms what the scope rule looks at.                                      *)
LEMMA StacksKept ==
    ASSUME TypeOK, Allocated, Nested, ScopeInv,
           UNCHANGED <<free, global_stack, local_stack, sym_identifier, residue>>,
           \A a \in Addr : sym'[a].v = sym[a].v /\ sym'[a].prev_tok = sym[a].prev_tok,
           blocks' \in {blocks, << >>}
    PROVE  Allocated' /\ ScopeInv'
<1>1. Scope' = Scope /\ Scope \in Seq(Addr)
  BY ScopeFacts DEF Scope
<1>2. Allocated'
  BY <1>1 DEF Allocated
<1>3. SameSyms(Scope, sym, sym')
  BY <1>1 DEF SameSyms
<1>4. ASSUME residue' = 0 PROVE IsScope(Names, NULL, Scope, sym, sym_identifier)'
  <2>1. IsScope(Names, NULL, Scope, sym, sym_identifier)
    BY <1>4 DEF ScopeInv
  <2>2. IsScope(Names, NULL, Scope, sym', sym_identifier)
    BY <2>1, <1>1, <1>3, ScopeSame
  <2> QED BY <2>2, <1>1
<1>5. ASSUME residue' = 0, NEW b \in 1 .. Len(blocks'), NEW n \in Names
      PROVE  Meant(b, n)'
  <2>1. blocks' = blocks /\ b \in 1 .. Len(blocks)
    BY <1>5
  <2>2. Meant(b, n)
    BY <2>1, <1>5 DEF ScopeInv
  <2>3. \A i \in 1 .. Len(global_stack) + blocks[b].height :
           Scope'[i] = Scope[i] /\ sym'[Scope[i]].v = sym[Scope[i]].v
    BY <2>1, <1>1, <1>3, BlockFacts DEF SameSyms
  <2> QED BY <2>1, <2>2, <2>3, MeantKept
<1> QED BY <1>2, <1>4, <1>5 DEF ScopeInv

(* A step that pushes a Sym on top: a local, or a global when there are no *)
(* locals.                                                                 *)
LEMMA StacksPush ==
    ASSUME TypeOK, Allocated, Nested, ScopeInv,
           NEW n \in Names \union {Anon}, NEW a \in free, free' = free \ {a},
           \/ local_stack' = Append(local_stack, a) /\ UNCHANGED global_stack
           \/ /\ local_stack = << >> /\ UNCHANGED local_stack
              /\ global_stack' = Append(global_stack, a),
           \A b \in Addr \ {a} : sym'[b].v = sym[b].v /\ sym'[b].prev_tok = sym[b].prev_tok,
           sym'[a].v = n, sym'[a].prev_tok = Hiding(n), sym_identifier' = Name(n, a),
           UNCHANGED <<blocks, residue>>
    PROVE  Allocated' /\ ScopeInv'
<1>1. Scope \in Seq(Addr) /\ a \in Addr /\ Len(Scope) \in Nat
  BY ScopeFacts DEF TypeOK
<1>2. Scope' = Append(Scope, a)
  <2>1. CASE local_stack' = Append(local_stack, a) /\ UNCHANGED global_stack
    <3>1. \A g, l \in Seq(Addr) : g \o Append(l, a) = Append(g \o l, a)
      BY <1>1
    <3> QED BY <2>1, <3>1 DEF TypeOK, Scope
  <2>2. CASE /\ local_stack = << >> /\ UNCHANGED local_stack
             /\ global_stack' = Append(global_stack, a)
    <3>1. \A g \in Seq(Addr) : Append(g, a) \o << >> = Append(g \o << >>, a)
      BY <1>1
    <3> QED BY <2>2, <3>1 DEF TypeOK, Scope
  <2> QED BY <2>1, <2>2
<1>3. Allocated'
  BY <1>2, AllocatedTop
<1>4. SameSyms(Scope, sym, sym')
  BY <1>1 DEF Allocated, SameSyms
<1>5. \A w \in Names : sym_identifier'[w] = IF w = n THEN a ELSE sym_identifier[w]
  BY SymAssumption DEF TypeOK, Name
<1>6. n \in Names => sym'[a].prev_tok = sym_identifier[n]
  BY SymAssumption DEF Hiding, sym_find
<1>7. ASSUME residue' = 0 PROVE IsScope(Names, NULL, Scope, sym, sym_identifier)'
  <2>1. IsScope(Names, NULL, Scope, sym, sym_identifier)
    BY <1>7 DEF ScopeInv
  <2>2. IsScope(Names, NULL, Append(Scope, a), sym', sym_identifier')
    <3>1. Pushes(Addr, Names, Scope, sym, sym', sym_identifier, sym_identifier', n, a)
      BY <1>1, <1>4, <1>5, <1>6 DEF Pushes
    <3> QED BY <2>1, <3>1, ScopePush
  <2> QED BY <2>2, <1>2
<1>8. ASSUME residue' = 0, NEW b \in 1 .. Len(blocks'), NEW w \in Names
      PROVE  Meant(b, w)'
  <2>1. b \in 1 .. Len(blocks) /\ Meant(b, w)
    BY <1>8 DEF ScopeInv
  <2>2. blocks[b].height \in 1 .. Len(local_stack)
    BY <2>1, BlockFacts
  <2>3. global_stack' = global_stack
    BY <2>2
  <2>4. \A i \in 1 .. Len(Scope) :
           Scope'[i] = Scope[i] /\ sym'[Scope[i]].v = sym[Scope[i]].v
    BY <1>1, <1>2, <1>4 DEF SameSyms
  <2>5. \A i \in 1 .. Len(global_stack) + blocks[b].height :
           Scope'[i] = Scope[i] /\ sym'[Scope[i]].v = sym[Scope[i]].v
    <3>1. Len(global_stack) + blocks[b].height \in Len(global_stack) .. Len(Scope)
      BY <2>1, BlockFacts
    <3>2. Len(global_stack) \in Nat
      BY ScopeFacts
    <3> QED BY <3>1, <3>2, <2>4
  <2> QED BY <2>1, <2>3, <2>5, MeantKept
<1> QED BY <1>3, <1>7, <1>8 DEF ScopeInv

(* A call of a function that means nothing declares it below the locals.   *)
LEMMA StacksInsert ==
    ASSUME TypeOK, Allocated, Nested, ScopeInv,
           NEW n \in Names, NEW a \in Addr, global_identifier_push(n, a),
           \A b \in Addr \ {a} : sym'[b] = sym[b],
           sym'[a].v = n, sym'[a].prev_tok = NULL,
           UNCHANGED <<local_stack, blocks, residue>>
    PROVE  Allocated' /\ ScopeInv'
<1> DEFINE G == Len(global_stack)
<1>1. /\ Scope \in Seq(Addr) /\ G \in Nat
      /\ global_stack \in Seq(Addr) /\ local_stack \in Seq(Addr)
      /\ Scope = global_stack \o local_stack
      /\ \A i \in 1 .. Len(Scope) : Scope[i] \in Addr
  BY ScopeFacts DEF TypeOK, Scope
<1>2. /\ a \in free /\ free' = free \ {a} /\ sym_identifier[n] = NULL
      /\ global_stack' = Append(global_stack, a)
      /\ sym_identifier' = Name(n, a)
  BY DEF global_identifier_push, sym_find
<1>3. Scope' = Append(global_stack, a) \o local_stack
  BY <1>2 DEF Scope
<1>4. Allocated'
  BY <1>2, <1>3, AllocatedBetween
<1>5. SameSyms(Scope, sym, sym')
  BY <1>1, <1>2 DEF Allocated, SameSyms
<1>6. \A w \in Names : sym_identifier'[w] = IF w = n THEN a ELSE sym_identifier[w]
  BY <1>2, SymAssumption DEF TypeOK, Name
<1>7. ASSUME residue' = 0 PROVE IsScope(Names, NULL, Scope, sym, sym_identifier)'
  <2>1. IsScope(Names, NULL, Scope, sym, sym_identifier)
    BY <1>7 DEF ScopeInv
  <2>2. IsScope(Names, NULL, Append(global_stack, a) \o local_stack, sym', sym_identifier')
    <3>1. InsertsName(Addr, Names, NULL, global_stack, local_stack, sym, sym', sym_identifier,
                     sym_identifier', n, a)
      BY <1>1, <1>2, <1>5, <1>6, SymAssumption DEF InsertsName
    <3> QED BY <2>1, <3>1, <1>1, ScopeInsert
  <2> QED BY <2>2, <1>3
<1>8. ASSUME residue' = 0, NEW b \in 1 .. Len(blocks'), NEW w \in Names
      PROVE  Meant(b, w)'
  <2> DEFINE m == G + blocks[b].height
             mean == blocks[b].meaning[w]
  <2>1. b \in 1 .. Len(blocks) /\ Meant(b, w)
    BY <1>8 DEF ScopeInv
  <2>2. m \in Nat /\ G <= m /\ m <= Len(Scope) /\ blocks[b].height \in Nat
    BY <2>1, <1>1, BlockFacts
  <2>3. PICK p \in Ptr : /\ IsNewest(NULL, Scope, sym, w, m, p)
                         /\ p = mean \/ (mean = NULL /\ p \in Globals)
    BY <2>1 DEF Meant
  <2>4. Len(global_stack') + blocks'[b].height = m + 1
    BY <1>1, <1>2, <2>2
  <2>5. /\ \A i \in 1 .. G : Scope'[i] = Scope[i]
        /\ \A i \in G + 1 .. m : Scope'[i + 1] = Scope[i]
        /\ Scope'[G + 1] = a
    <3>1. /\ Append(global_stack, a) \in Seq(Addr) /\ Len(Append(global_stack, a)) = G + 1
          /\ Append(global_stack, a)[G + 1] = a
          /\ \A i \in 1 .. G : Append(global_stack, a)[i] = global_stack[i]
      BY <1>1
    <3> DEFINE g == Append(global_stack, a)
    <3>2. Len(Scope) = G + Len(local_stack) /\ Len(local_stack) \in Nat
      BY <1>1
    <3> HIDE DEF g
    <3>3. /\ \A i \in 1 .. G + 1 : (g \o local_stack)[i] = g[i]
          /\ \A i \in 1 .. Len(local_stack) :
                (g \o local_stack)[(G + 1) + i] = local_stack[i]
      BY <1>1, <3>1 DEF g
    <3>4. /\ \A i \in 1 .. G : Scope[i] = global_stack[i]
          /\ \A i \in 1 .. Len(local_stack) : Scope[G + i] = local_stack[i]
      BY ScopeFacts
    <3>5. ASSUME NEW i \in G + 1 .. m PROVE Scope'[i + 1] = Scope[i]
      <4>1. /\ i - G \in 1 .. Len(local_stack)
            /\ i = G + (i - G) /\ i + 1 = (G + 1) + (i - G)
        BY <1>1, <2>2, <3>2
      <4> QED BY <4>1, <3>3, <3>4, <1>3 DEF g
    <3>6. \A i \in 1 .. G : i \in 1 .. G + 1
      BY <1>1
    <3>7. G + 1 \in 1 .. G + 1
      BY <1>1
    <3> QED BY <3>1, <3>3, <3>4, <3>5, <3>6, <3>7, <1>3 DEF g
  <2>6. \A i \in 1 .. m : sym'[Scope[i]].v = sym[Scope[i]].v /\ i \in 1 .. Len(Scope)
    BY <2>2, <1>5 DEF SameSyms
  <2>7. NULL \notin {Scope[i] : i \in 1 .. m}
    BY <2>6, <1>1, SymAssumption
  <2>8. /\ \A k, q : k # n /\ IsNewest(NULL, Scope, sym, k, m, q)
                        => IsNewest(NULL, Scope', sym', k, m + 1, q)
        /\ IsNewest(NULL, Scope, sym, n, m, NULL) => IsNewest(NULL, Scope', sym', n, m + 1, a)
    <3>1. Inserts(Scope, Scope', sym, sym', n, G, m)
      BY <1>1, <2>2, <2>5, <2>6 DEF Inserts
    <3>2. /\ \A k, q : k # n /\ IsNewest(NULL, Scope, sym, k, m, q)
                        => IsNewest(NULL, Scope', sym', k, m + 1, q)
          /\ IsNewest(NULL, Scope, sym, n, m, NULL) /\ NULL \notin {Scope[i] : i \in 1 .. m}
                => IsNewest(NULL, Scope', sym', n, m + 1, Scope'[G + 1])
      BY <3>1, NewestInsert
    <3> QED BY <3>2, <2>5, <2>7
  <2>9. Globals' = Globals \union {a}
    <3>1. Len(global_stack') = G + 1 /\ global_stack'[G + 1] = a
      BY <1>1, <1>2
    <3>2. \A i \in 1 .. G : global_stack'[i] = global_stack[i]
      BY <1>1, <1>2
    <3>3. 1 .. G + 1 = 1 .. G \union {G + 1}
      BY <1>1
    <3>4. \A x : x \in Globals' <=> x \in Globals \/ x = a
      BY <3>1, <3>2, <3>3 DEF Globals
    <3> QED BY <3>4
  <2>10. CASE w # n
    <3>1. IsNewest(NULL, Scope', sym', w, m + 1, p)
      BY <2>3, <2>8, <2>10
    <3> QED BY <3>1, <2>3, <2>4, <2>9 DEF Meant
  <2>11. CASE w = n
    <3>1. IsNewest(NULL, Scope, sym, n, Len(Scope), NULL)
      BY <1>2, <1>8 DEF ScopeInv, IsScope
    <3>2. \A i \in 1 .. Len(Scope) : sym[Scope[i]].v # n
      BY <3>1, <1>1, SymAssumption DEF IsNewest
    <3>3. IsNewest(NULL, Scope, sym, n, m, NULL)
      BY <3>2, <2>6 DEF IsNewest
    <3>4. p = NULL
      <4>1. m \in 0 .. Len(Scope)
        BY <2>2
      <4> QED BY <4>1, <3>3, <2>3, <2>11, <1>1, NewestUnique, SymAssumption
    <3>5. mean = NULL
      <4>1. NULL \notin Globals
        BY <1>1, SymAssumption DEF Globals
      <4> QED BY <4>1, <3>4, <2>3
    <3>6. IsNewest(NULL, Scope', sym', w, m + 1, a)
      BY <3>3, <2>8, <2>11
    <3>7. a \in Ptr /\ a \in Globals'
      BY <2>9 DEF Ptr
    <3> QED BY <3>5, <3>6, <3>7, <2>4 DEF Meant
  <2> QED BY <2>10, <2>11
<1> QED BY <1>4, <1>7, <1>8 DEF ScopeInv

(* Leaving a block, or the function.                                       *)
LEMMA StacksPop ==
    ASSUME TypeOK, Allocated, Nested, ScopeInv, NEW h \in 0 .. Len(local_stack),
           sym_pop(local_stack, h), local_stack' = SubSeq(local_stack, 1, h),
           UNCHANGED <<global_stack, residue>>,
           \A b \in 1 .. Len(blocks') :
              b \in 1 .. Len(blocks) /\ blocks'[b] = blocks[b] /\ blocks[b].height <= h
    PROVE  /\ Allocated' /\ ScopeInv'
           /\ Len(Scope') = Len(global_stack) + h
           /\ \A i \in 1 .. Len(global_stack) + h :
                 Scope'[i] = Scope[i] /\ sym'[Scope[i]].v = sym[Scope[i]].v
<1> DEFINE G == Len(global_stack)
           N == Len(local_stack)
           L == Len(Scope)
<1>1. /\ Scope \in Seq(Addr) /\ G \in Nat /\ N \in Nat /\ L = G + N
      /\ Scope = global_stack \o local_stack
      /\ global_stack \in Seq(Addr) /\ local_stack \in Seq(Addr)
      /\ \A i \in 1 .. G : Scope[i] = global_stack[i]
      /\ \A i \in 1 .. N : Scope[G + i] = local_stack[i]
  BY ScopeFacts DEF TypeOK, Scope
<1>2. Scope' = SubSeq(Scope, 1, G + h)
  <2>1. \A g, l \in Seq(Addr) : h \in 0 .. Len(l) =>
           g \o SubSeq(l, 1, h) = SubSeq(g \o l, 1, Len(g) + h)
    OBVIOUS
  <2> QED BY <2>1, <1>1 DEF Scope
<1>3. /\ free' = free \union {local_stack[i] : i \in h + 1 .. N}
      /\ \A a \in Addr \ {local_stack[i] : i \in h + 1 .. N} : sym'[a] = sym[a]
      /\ \A w \in Names :
           \/ /\ \A i \in h + 1 .. N : sym[local_stack[i]].v # w
              /\ sym_identifier'[w] = sym_identifier[w]
           \/ \E k \in h + 1 .. N :
                 /\ sym[local_stack[k]].v = w
                 /\ sym_identifier'[w] = sym[local_stack[k]].prev_tok
                 /\ \A i \in h + 1 .. k - 1 : sym[local_stack[i]].v # w
  BY <1>1, sym_popFacts
<1> HIDE DEF G, N, L
<1>4. /\ \A i \in h + 1 .. N : G + i \in (G + h) + 1 .. L /\ Scope[G + i] = local_stack[i]
      /\ \A i \in (G + h) + 1 .. L : /\ i - G \in h + 1 .. N /\ i = G + (i - G)
                                     /\ Scope[i] = local_stack[i - G]
      /\ G + h \in 0 .. L /\ h \in Nat /\ h <= N
  <2>1. ASSUME NEW i \in h + 1 .. N PROVE G + i \in (G + h) + 1 .. L /\ i \in 1 .. N
    BY <1>1 DEF N
  <2>2. ASSUME NEW i \in (G + h) + 1 .. L
        PROVE  i - G \in h + 1 .. N /\ i = G + (i - G) /\ i - G \in 1 .. N
    BY <1>1 DEF N
  <2>3. G + h \in 0 .. L /\ h \in Nat /\ h <= N
    BY <1>1 DEF N
  <2> QED BY <2>1, <2>2, <2>3, <1>1
<1>5. Allocated'
  <2>1. {local_stack[i] : i \in h + 1 .. N} = {Scope[i] : i \in (G + h) + 1 .. L}
    <3>1. ASSUME NEW x
          PROVE  x \in {local_stack[i] : i \in h + 1 .. N}
                    <=> x \in {Scope[i] : i \in (G + h) + 1 .. L}
      <4>1. x \in {local_stack[i] : i \in h + 1 .. N}
               <=> \E i \in h + 1 .. N : x = local_stack[i]
        OBVIOUS
      <4>2. x \in {Scope[i] : i \in (G + h) + 1 .. L}
               <=> \E i \in (G + h) + 1 .. L : x = Scope[i]
        OBVIOUS
      <4> QED BY <4>1, <4>2, <1>4
    <3> QED BY <3>1
  <2> QED BY <2>1, <1>2, <1>3, <1>4, AllocatedPop DEF L
<1>6. \A i \in 1 .. G + h : sym'[Scope[i]] = sym[Scope[i]]
  <2> TAKE i \in 1 .. G + h
  <2>1. i \in 1 .. L /\ Scope[i] \in Addr
    BY <1>1, <1>4 DEF L
  <2>2. \A j \in h + 1 .. N : Scope[i] # local_stack[j]
    <3> TAKE j \in h + 1 .. N
    <3>1. G + j \in (G + h) + 1 .. L /\ Scope[G + j] = local_stack[j]
      BY <1>4
    <3>2. G + j \in 1 .. L /\ G + j # i
      <4>1. G \in Nat /\ h \in Nat /\ L \in Nat
        BY <1>1, <1>4
      <4>2. \A k \in (G + h) + 1 .. L : k \in 1 .. L /\ k # i
        BY <4>1
      <4> QED BY <3>1, <4>2
    <3> QED BY <2>1, <3>1, <3>2 DEF Allocated, L
  <2> QED BY <2>1, <2>2, <1>3
<1>7. ASSUME residue' = 0 PROVE IsScope(Names, NULL, Scope, sym, sym_identifier)'
  <2>1. IsScope(Names, NULL, Scope, sym, sym_identifier)
    BY <1>7 DEF ScopeInv
  <2>2. Pops(Addr, Names, Scope, sym, sym', sym_identifier, sym_identifier', G + h)
    <3>1. ASSUME NEW w \in Names
          PROVE \/ /\ \A i \in (G + h) + 1 .. L : sym[Scope[i]].v # w
                   /\ sym_identifier'[w] = sym_identifier[w]
                \/ \E k \in (G + h) + 1 .. L :
                      /\ sym[Scope[k]].v = w
                      /\ sym_identifier'[w] = sym[Scope[k]].prev_tok
                      /\ \A i \in (G + h) + 1 .. k - 1 : sym[Scope[i]].v # w
      <4>1. CASE /\ \A i \in h + 1 .. N : sym[local_stack[i]].v # w
                 /\ sym_identifier'[w] = sym_identifier[w]
        <5>1. \A i \in (G + h) + 1 .. L :
                 i - G \in h + 1 .. N /\ Scope[i] = local_stack[i - G]
          BY <1>4
        <5> QED BY <4>1, <5>1
      <4>2. ASSUME NEW k \in h + 1 .. N,
                   sym[local_stack[k]].v = w,
                   sym_identifier'[w] = sym[local_stack[k]].prev_tok,
                   \A i \in h + 1 .. k - 1 : sym[local_stack[i]].v # w
            PROVE  \E j \in (G + h) + 1 .. L :
                      /\ sym[Scope[j]].v = w
                      /\ sym_identifier'[w] = sym[Scope[j]].prev_tok
                      /\ \A i \in (G + h) + 1 .. j - 1 : sym[Scope[i]].v # w
        <5>1. /\ G + k \in (G + h) + 1 .. L /\ sym[Scope[G + k]].v = w
              /\ sym_identifier'[w] = sym[Scope[G + k]].prev_tok
          BY <4>2, <1>4
        <5>2. ASSUME NEW i \in (G + h) + 1 .. (G + k) - 1
              PROVE  sym[Scope[i]].v # w
          <6>1. i \in (G + h) + 1 .. L /\ i - G \in h + 1 .. k - 1
            BY <1>1, <1>4, <5>1
          <6> QED BY <6>1, <4>2, <1>4
        <5> QED BY <5>1, <5>2
      <4> QED BY <4>1, <4>2, <1>3
    <3> QED BY <3>1, <1>1, <1>4, <1>6, ZenonT(60) DEF Pops, L
  <2>3. IsScope(Names, NULL, SubSeq(Scope, 1, G + h), sym', sym_identifier')
    BY <2>1, <2>2, ScopePop
  <2> QED BY <2>3, <1>2
<1>9. /\ Len(Scope') = G + h
      /\ \A i \in 1 .. G + h : Scope'[i] = Scope[i] /\ sym'[Scope[i]].v = sym[Scope[i]].v
  <2>1. \A k \in 0 .. Len(Scope) :
           /\ Len(SubSeq(Scope, 1, k)) = k
           /\ \A i \in 1 .. k : SubSeq(Scope, 1, k)[i] = Scope[i]
    BY <1>1
  <2>2. /\ Len(SubSeq(Scope, 1, G + h)) = G + h
        /\ \A i \in 1 .. G + h : SubSeq(Scope, 1, G + h)[i] = Scope[i]
    BY <2>1, <1>4 DEF L
  <2> QED BY <2>2, <1>2, <1>6
<1>8. ASSUME residue' = 0, NEW b \in 1 .. Len(blocks'), NEW n \in Names
      PROVE  Meant(b, n)'
  <2>1. b \in 1 .. Len(blocks) /\ blocks'[b] = blocks[b] /\ blocks[b].height <= h
    OBVIOUS
  <2>2. Meant(b, n)
    BY <2>1, <1>8 DEF ScopeInv
  <2>3. \A i \in 1 .. G + blocks[b].height : i \in 1 .. G + h
    <3>1. blocks[b].height \in 1 .. Len(local_stack)
      BY <2>1, BlockFacts
    <3>2. h \in Nat /\ G \in Nat /\ Len(local_stack) \in Nat
      BY <1>1, <1>4 DEF N
    <3>3. blocks[b].height \in Nat /\ blocks[b].height <= h
      BY <2>1, <3>1, <3>2
    <3> QED BY <3>2, <3>3
  <2> QED BY <2>1, <2>2, <2>3, <1>9, MeantKept DEF G
<1> QED BY <1>5, <1>7, <1>8, <1>9 DEF ScopeInv, G

-----------------------------------------------------------------------------
(* The process starts in it, every Sym on the free list.                   *)
LEMMA InitIInv == Init => IInv
<1> SUFFICES ASSUME Init PROVE IInv
  OBVIOUS
<1> USE DEF Init, Idle
<1>1. TypeOK
  <2>1. sym \in [Addr -> Sym] /\ sym_identifier \in [Names -> Ptr]
    BY FreshFacts DEF Ptr
  <2>2. generated \in BOOLEAN
    OBVIOUS
  <2> QED BY <2>1, <2>2 DEF TypeOK, Ptr
<1>2. Scope = << >> /\ Len(Scope) = 0
  BY DEF Scope
<1>3. Allocated
  BY <1>2 DEF Allocated
<1>4. Nested /\ Phase
  BY DEF Nested, Phase
<1>5. ScopeInv
  BY <1>2 DEF ScopeInv, IsScope, IsNewest
<1> QED BY <1>1, <1>3, <1>4, <1>5 DEF IInv

(* sym_push, whoever calls it.                                             *)
LEMMA sym_pushFacts ==
    ASSUME IInv, NEW n \in Names \union {Anon}, NEW type \in {"plain", "inline"},
           NEW a \in Addr, sym_push(n, type, a), UNCHANGED <<blocks, residue>>
    PROVE  /\ Allocated' /\ ScopeInv'
           /\ sym' \in [Addr -> Sym] /\ free' \subseteq Addr
           /\ sym_identifier' \in [Names -> Ptr]
           /\ global_stack' \in Seq(Addr) /\ local_stack' \in Seq(Addr)
           /\ Len(local_stack') >= Len(local_stack)
           /\ local_stack # << >> => global_stack' = global_stack /\ local_stack' # << >>
           /\ \A b \in Addr \ {a} : sym'[b] = sym[b]
<1>1. /\ TypeOK /\ a \in free /\ free' = free \ {a} /\ sym \in [Addr -> Sym]
      /\ sym_identifier' = Name(n, a) /\ sym_identifier \in [Names -> Ptr]
      /\ local_stack \in Seq(Addr) /\ global_stack \in Seq(Addr)
  BY DEF IInv, TypeOK, sym_push
<1> DEFINE e == [Fresh(n) EXCEPT !.prev_tok = Hiding(n), !.type = type]
<1>2. Hiding(n) \in Ptr
  BY <1>1, SymAssumption DEF Hiding, sym_find, Ptr
<1>3. e \in Sym /\ e.v = n /\ e.prev_tok = Hiding(n)
  <2>1. e \in Sym
    BY <1>2, FreshFacts
  <2> QED BY <2>1 DEF Fresh
<1>4. sym' = [sym EXCEPT ![a] = e]
  BY DEF sym_push
<1> HIDE DEF e
<1>5. /\ sym' \in [Addr -> Sym] /\ sym'[a] = e
      /\ \A b \in Addr \ {a} : sym'[b] = sym[b]
  BY <1>1, <1>3, <1>4
<1>6. sym_identifier' \in [Names -> Ptr]
  BY <1>1 DEF Name, Ptr
<1>7. /\ \/ local_stack' = Append(local_stack, a) /\ UNCHANGED global_stack
         \/ /\ local_stack = << >> /\ UNCHANGED local_stack
            /\ global_stack' = Append(global_stack, a)
      /\ local_stack # << >> => local_stack' = Append(local_stack, a) /\ UNCHANGED global_stack
  BY DEF sym_push
<1>8. /\ global_stack' \in Seq(Addr) /\ local_stack' \in Seq(Addr)
      /\ Len(local_stack') >= Len(local_stack)
      /\ local_stack # << >> => global_stack' = global_stack /\ local_stack' # << >>
  <2>1. CASE local_stack' = Append(local_stack, a) /\ UNCHANGED global_stack
    BY <2>1, <1>1
  <2>2. CASE /\ local_stack = << >> /\ UNCHANGED local_stack
             /\ global_stack' = Append(global_stack, a)
    BY <2>2, <1>1
  <2> QED BY <2>1, <2>2, <1>7
<1>9. Allocated' /\ ScopeInv'
  BY <1>1, <1>3, <1>5, <1>7, StacksPush DEF IInv
<1>10. free' \subseteq Addr
  BY <1>1 DEF TypeOK
<1> QED BY <1>5, <1>6, <1>8, <1>9, <1>10

(* global_identifier_push, likewise.                                       *)
LEMMA global_identifier_pushFacts ==
    ASSUME IInv, NEW n \in Names, NEW a \in Addr, NEW e \in Sym,
           e.v = n, e.prev_tok = NULL,
           global_identifier_push(n, a), sym' = [sym EXCEPT ![a] = e],
           UNCHANGED <<local_stack, blocks, residue>>
    PROVE  /\ Allocated' /\ ScopeInv'
           /\ sym' \in [Addr -> Sym] /\ free' \subseteq Addr
           /\ sym_identifier' \in [Names -> Ptr] /\ global_stack' \in Seq(Addr)
           /\ \A b \in Addr \ {a} : sym'[b] = sym[b]
           /\ Len(global_stack') = Len(global_stack) + 1 /\ Len(global_stack) \in Nat
           /\ global_stack'[Len(global_stack) + 1] = a
           /\ \A i \in 1 .. Len(global_stack) : global_stack'[i] = global_stack[i]
<1>1. /\ sym \in [Addr -> Sym] /\ global_stack \in Seq(Addr) /\ free \subseteq Addr
      /\ sym_identifier \in [Names -> Ptr]
      /\ free' = free \ {a} /\ sym_identifier' = Name(n, a)
      /\ global_stack' = Append(global_stack, a)
  BY DEF IInv, TypeOK, global_identifier_push
<1>2. /\ sym' \in [Addr -> Sym] /\ sym'[a] = e
      /\ \A b \in Addr \ {a} : sym'[b] = sym[b]
  BY <1>1
<1>3. sym_identifier' \in [Names -> Ptr]
  BY <1>1 DEF Name, Ptr
<1>4. Allocated' /\ ScopeInv'
  BY <1>2, StacksInsert DEF IInv
<1> QED BY <1>1, <1>2, <1>3, <1>4

-----------------------------------------------------------------------------
(* The blocks stay nested while the local stack does not shrink.           *)
LEMMA NestedGrows ==
    ASSUME TypeOK, Nested, TypeOK', blocks' \in {blocks, << >>},
           Len(local_stack') >= Len(local_stack),
           mode' = "body" => local_stack' # << >>
    PROVE  Nested'
<1>1. Len(local_stack) \in Nat /\ Len(local_stack') \in Nat
  BY DEF TypeOK
<1>2. ASSUME NEW i \in 1 .. Len(blocks')
      PROVE  /\ 0 < blocks'[i].height /\ blocks'[i].height <= Len(local_stack')
             /\ \A j \in 1 .. i : blocks'[j].height <= blocks'[i].height
  <2>1. blocks' = blocks /\ i \in 1 .. Len(blocks)
    OBVIOUS
  <2>2. blocks[i].height \in Nat
    BY <2>1, BlockFacts
  <2> QED BY <1>1, <2>1, <2>2 DEF Nested
<1> QED BY <1>2 DEF Nested

(* A unit begins.                                                          *)
LEMMA tcc_compileIInv ==
    ASSUME IInv, tcc_compile PROVE IInv'
<1> USE DEF tcc_compile, IInv
<1>1. PICK a \in Addr : sym_push(Anon, "plain", a)
  OBVIOUS
<1>2. /\ Allocated' /\ ScopeInv'
      /\ sym' \in [Addr -> Sym] /\ free' \subseteq Addr
      /\ sym_identifier' \in [Names -> Ptr]
      /\ global_stack' \in Seq(Addr) /\ local_stack' \in Seq(Addr)
      /\ Len(local_stack') >= Len(local_stack)
  BY <1>1, sym_pushFacts
<1>3. generated' \in BOOLEAN
  BY Zenon DEF TypeOK
<1>4. TypeOK'
  BY <1>2, <1>3 DEF TypeOK
<1>5. Nested'
  BY <1>2, <1>4, NestedGrows
<1>6. Phase'
  BY DEF Phase
<1> QED BY <1>2, <1>4, <1>5, <1>6

(* A declaration, at file scope or in a function.                          *)
LEMMA declareIInv ==
    ASSUME IInv, NEW n \in Names, NEW type \in {"plain", "inline"}, declare(n, type)
    PROVE  IInv'
<1> USE DEF declare, IInv
<1>1. PICK a \in Addr : sym_push(n, type, a)
  OBVIOUS
<1>2. /\ Allocated' /\ ScopeInv'
      /\ sym' \in [Addr -> Sym] /\ free' \subseteq Addr
      /\ sym_identifier' \in [Names -> Ptr]
      /\ global_stack' \in Seq(Addr) /\ local_stack' \in Seq(Addr)
      /\ Len(local_stack') >= Len(local_stack)
      /\ local_stack # << >> => global_stack' = global_stack /\ local_stack' # << >>
  BY <1>1, sym_pushFacts
<1>3. generated' \in BOOLEAN
  BY Zenon DEF TypeOK
<1>4. declared' \subseteq Names
  BY DEF TypeOK
<1>5. TypeOK'
  BY <1>2, <1>3, <1>4 DEF TypeOK
<1>6. Nested'
  BY <1>2, <1>5, NestedGrows DEF Nested
<1>7. Phase'
  <2>1. CASE mode = "file"
    BY <2>1 DEF Phase
  <2>2. CASE mode = "body"
    BY <2>2, <1>2 DEF Phase, Nested
  <2> QED BY <2>1, <2>2
<1> QED BY <1>2, <1>5, <1>6, <1>7

(* The head of a function definition.                                      *)
LEMMA functionIInv ==
    ASSUME IInv, NEW n \in Names, NEW type \in {"plain", "inline"}, function(n, type)
    PROVE  IInv'
<1> USE DEF function, IInv
<1>1. /\ Allocated' /\ ScopeInv'
      /\ sym' \in [Addr -> Sym] /\ free' \subseteq Addr
      /\ sym_identifier' \in [Names -> Ptr]
      /\ global_stack' \in Seq(Addr) /\ current' \in Ptr
  <2>1. CASE /\ sym_find(n) \in Addr \ free
             /\ current' = sym_find(n)
             /\ sym' = [sym EXCEPT ![sym_find(n)].type = type]
             /\ UNCHANGED <<free, sym_identifier, global_stack>>
    <3>1. sym \in [Addr -> Sym] /\ sym_find(n) \in Addr
      BY <2>1 DEF TypeOK
    <3>2. sym' \in [Addr -> Sym]
      BY <2>1, <3>1 DEF Sym
    <3>3. \A a \in Addr : sym'[a].v = sym[a].v /\ sym'[a].prev_tok = sym[a].prev_tok
      BY <2>1, <3>1 DEF Sym
    <3>4. Allocated' /\ ScopeInv'
      BY <2>1, <3>3, StacksKept
    <3> QED BY <2>1, <3>1, <3>2, <3>4 DEF TypeOK, Ptr
  <2>2. ASSUME NEW a \in Addr, global_identifier_push(n, a), current' = a,
               sym' = [sym EXCEPT ![a] = [Fresh(n) EXCEPT !.type = type]]
        PROVE  /\ Allocated' /\ ScopeInv'
               /\ sym' \in [Addr -> Sym] /\ free' \subseteq Addr
               /\ sym_identifier' \in [Names -> Ptr]
               /\ global_stack' \in Seq(Addr) /\ current' \in Ptr
    <3>1. PICK e : e = [Fresh(n) EXCEPT !.type = type]
      OBVIOUS
    <3>2. e \in Sym /\ e.v = n /\ e.prev_tok = NULL
      <4>1. e \in Sym
        BY <3>1, FreshFacts
      <4> QED BY <3>1, <4>1 DEF Fresh
    <3> QED BY <2>2, <3>1, <3>2, global_identifier_pushFacts DEF Ptr
  <2> QED BY <2>1, <2>2
<1>2. generated' \in BOOLEAN
  BY Zenon DEF TypeOK
<1>3. TypeOK'
  BY <1>1, <1>2 DEF TypeOK
<1>4. Nested'
  BY <1>3, NestedGrows DEF TypeOK
<1>5. Phase'
  BY DEF Phase
<1> QED BY <1>1, <1>3, <1>4, <1>5

(* The tokens of a static inline function.                                 *)
LEMMA record_inlineIInv ==
    ASSUME IInv, record_inline PROVE IInv'
<1> USE DEF record_inline, IInv
<1>1. sym \in [Addr -> Sym]
  BY DEF TypeOK
<1>2. sym' \in [Addr -> Sym]
  BY <1>1 DEF Sym
<1>3. \A a \in Addr : sym'[a].v = sym[a].v /\ sym'[a].prev_tok = sym[a].prev_tok
  BY <1>1 DEF Sym
<1>4. Allocated' /\ ScopeInv'
  BY <1>3, StacksKept
<1>5. generated' \in BOOLEAN
  BY Zenon DEF TypeOK
<1>6. TypeOK'
  BY <1>2, <1>5 DEF TypeOK, Ptr
<1>7. Nested'
  BY <1>6, NestedGrows DEF TypeOK
<1>8. Phase'
  BY DEF Phase
<1> QED BY <1>4, <1>6, <1>7, <1>8

(* gen_function, at the head of a function and for an inline one: f is     *)
(* not the Sym it takes from the pool.                                     *)
LEMMA gen_functionFacts ==
    ASSUME IInv, NEW f \in Ptr, NEW a \in Addr, gen_function(f, a),
           UNCHANGED <<blocks, residue>>
    PROVE  /\ Allocated' /\ ScopeInv'
           /\ sym' \in [Addr -> Sym] /\ free' \subseteq Addr
           /\ sym_identifier' \in [Names -> Ptr]
           /\ global_stack' = global_stack
           /\ local_stack' \in Seq(Addr) /\ local_stack' # << >>
           /\ Len(local_stack') >= Len(local_stack)
           /\ \A b \in Addr \ {a, f} : sym'[b] = sym[b]
           /\ sym'[a].type = "plain"
           /\ f \in Addr => sym'[f].type = "plain"
<1> USE DEF gen_function, IInv
<1>1. /\ sym \in [Addr -> Sym] /\ local_stack \in Seq(Addr) /\ free \subseteq Addr
      /\ sym_identifier \in [Names -> Ptr] /\ a \in free
  BY DEF TypeOK
<1> DEFINE g == [sym[f] EXCEPT !.type = "plain", !.r = "other", !.used = TRUE]
<1>2. Fresh(Anon) \in Sym /\ Fresh(Anon).v = Anon /\ Fresh(Anon).prev_tok = NULL
      /\ Fresh(Anon).type = "plain"
  <2>1. Fresh(Anon) \in Sym
    BY FreshFacts
  <2> QED BY <2>1 DEF Fresh
<1>3. /\ f \in Addr => /\ g \in Sym /\ g.v = sym[f].v /\ g.prev_tok = sym[f].prev_tok
                       /\ g.type = "plain"
  <2>1. f \in Addr => sym[f] \in Sym
    BY <1>1
  <2> QED BY <2>1 DEF Sym
<1>4. /\ \A b \in Addr : sym'[b] = IF b = a THEN Fresh(Anon) ELSE IF b = f THEN g ELSE sym[b]
      /\ sym' \in [Addr -> Sym]
  <2>1. sym' = [sym EXCEPT ![f].type = "plain", ![f].r = "other", ![f].used = TRUE,
                          ![a] = Fresh(Anon)]
    OBVIOUS
  <2>2. sym' = [b \in Addr |-> IF b = a THEN Fresh(Anon) ELSE IF b = f THEN g ELSE sym[b]]
    BY <1>1, <2>1
  <2> HIDE DEF g
  <2> QED BY <1>1, <1>2, <1>3, <2>2
<1> HIDE DEF g
<1>5. \A b \in Addr \ {a} : sym'[b].v = sym[b].v /\ sym'[b].prev_tok = sym[b].prev_tok
  BY <1>3, <1>4
<1>6. Allocated' /\ ScopeInv'
  <2>1. sym'[a].v = Anon /\ sym'[a].prev_tok = Hiding(Anon)
    BY <1>2, <1>4 DEF Hiding
  <2>2. sym_identifier' = Name(Anon, a)
    BY DEF Name
  <2> QED BY <2>1, <2>2, <1>1, <1>5, StacksPush
<1>7. sym_identifier' \in [Names -> Ptr] /\ free' \subseteq Addr
  BY <1>1
<1>8. local_stack' \in Seq(Addr) /\ local_stack' # << >> /\ Len(local_stack') >= Len(local_stack)
  BY <1>1
<1>9. /\ \A b \in Addr \ {a, f} : sym'[b] = sym[b]
      /\ sym'[a].type = "plain"
      /\ f \in Addr => sym'[f].type = "plain"
  BY <1>2, <1>3, <1>4
<1> QED BY <1>4, <1>6, <1>7, <1>8, <1>9

-----------------------------------------------------------------------------
(* The body of a function begins.                                          *)
LEMMA begin_bodyIInv ==
    ASSUME IInv, begin_body PROVE IInv'
<1> USE DEF begin_body, IInv
<1>1. PICK a \in Addr : gen_function(current, a)
  OBVIOUS
<1>2. current \in Ptr /\ mode' = "body"
  BY <1>1 DEF TypeOK, gen_function
<1>3. /\ Allocated' /\ ScopeInv'
      /\ sym' \in [Addr -> Sym] /\ free' \subseteq Addr
      /\ sym_identifier' \in [Names -> Ptr] /\ global_stack' = global_stack
      /\ local_stack' \in Seq(Addr) /\ local_stack' # << >>
      /\ Len(local_stack') >= Len(local_stack)
  BY <1>1, <1>2, gen_functionFacts
<1>4. generated' \in BOOLEAN
  BY Zenon DEF TypeOK
<1>5. TypeOK'
  BY <1>2, <1>3, <1>4 DEF TypeOK, Ptr
<1>6. Nested'
  BY <1>3, <1>5, NestedGrows
<1>7. Phase'
  BY <1>2 DEF Phase
<1> QED BY <1>3, <1>5, <1>6, <1>7

(* An identifier in an expression.                                         *)
LEMMA referenceIInv ==
    ASSUME IInv, NEW n \in Names, reference(n) PROVE IInv'
<1> USE DEF reference, IInv
<1>1. /\ Allocated' /\ ScopeInv'
      /\ sym' \in [Addr -> Sym] /\ free' \subseteq Addr
      /\ sym_identifier' \in [Names -> Ptr]
      /\ global_stack' \in Seq(Addr) /\ Len(global_stack') >= Len(global_stack)
  <2>1. CASE /\ sym_find(n) \in Addr \ free
             /\ sym' = [sym EXCEPT ![sym_find(n)].used = TRUE]
             /\ UNCHANGED <<free, sym_identifier, global_stack>>
    <3>1. sym \in [Addr -> Sym] /\ sym_find(n) \in Addr
      BY <2>1 DEF TypeOK
    <3>2. sym' \in [Addr -> Sym]
      BY <2>1, <3>1, ZenonT(60) DEF Sym
    <3>3. \A a \in Addr : sym'[a].v = sym[a].v /\ sym'[a].prev_tok = sym[a].prev_tok
      BY <2>1, <3>1 DEF Sym
    <3>4. Allocated' /\ ScopeInv'
      BY <2>1, <3>3, StacksKept
    <3> QED BY <2>1, <3>2, <3>4 DEF TypeOK
  <2>2. ASSUME NEW a \in Addr, global_identifier_push(n, a),
               sym' = [sym EXCEPT ![a] = [Fresh(n) EXCEPT !.used = TRUE]]
        PROVE  /\ Allocated' /\ ScopeInv'
               /\ sym' \in [Addr -> Sym] /\ free' \subseteq Addr
               /\ sym_identifier' \in [Names -> Ptr]
               /\ global_stack' \in Seq(Addr) /\ Len(global_stack') >= Len(global_stack)
    <3>1. PICK e : e = [Fresh(n) EXCEPT !.used = TRUE]
      OBVIOUS
    <3>2. e \in Sym /\ e.v = n /\ e.prev_tok = NULL
      <4>1. e \in Sym
        BY <3>1, FreshFacts
      <4> QED BY <3>1, <4>1 DEF Fresh
    <3>3. sym' = [sym EXCEPT ![a] = e]
      BY <2>2, <3>1
    <3>4. /\ Allocated' /\ ScopeInv'
          /\ sym' \in [Addr -> Sym] /\ free' \subseteq Addr
          /\ sym_identifier' \in [Names -> Ptr] /\ global_stack' \in Seq(Addr)
          /\ Len(global_stack') = Len(global_stack) + 1 /\ Len(global_stack) \in Nat
      BY <2>2, <3>2, <3>3, global_identifier_pushFacts
    <3> QED BY <3>4
  <2> QED BY <2>1, <2>2
<1>2. generated' \in BOOLEAN
  BY Zenon DEF TypeOK
<1>3. TypeOK'
  BY <1>1, <1>2 DEF TypeOK
<1>4. Nested'
  BY <1>3, NestedGrows DEF TypeOK, Nested
<1>5. Phase'
  <2>1. Len(global_stack) \in Nat /\ Len(global_stack') \in Nat /\ scan \in Nat
    BY <1>1 DEF TypeOK
  <2> QED BY <1>1, <2>1 DEF Phase
<1> QED BY <1>1, <1>3, <1>4, <1>5

(* A block begins: what every name means is what it means below it.        *)
LEMMA open_blockIInv ==
    ASSUME IInv, open_block PROVE IInv'
<1> USE DEF open_block, IInv
<1> DEFINE B == Len(blocks)
           new == [height |-> Len(local_stack), meaning |-> sym_identifier]
<1>1. /\ blocks \in Seq(Block) /\ Len(local_stack) \in Nat /\ Len(global_stack) \in Nat
      /\ sym_identifier \in [Names -> Ptr]
      /\ Len(Scope) = Len(global_stack) + Len(local_stack)
  BY ScopeFacts DEF TypeOK
<1>2. Len(local_stack) > 0
  BY <1>1 DEF Nested, TypeOK
<1>3. new \in Block /\ new.height = Len(local_stack) /\ new.meaning = sym_identifier
  BY <1>1 DEF Block
<1>4. blocks' = Append(blocks, new)
  OBVIOUS
<1> HIDE DEF new
<1>5. /\ blocks' \in Seq(Block) /\ B \in Nat /\ Len(blocks') = B + 1
      /\ blocks'[B + 1] = new
      /\ \A i \in 1 .. B : blocks'[i] = blocks[i]
      /\ 1 .. B + 1 = 1 .. B \union {B + 1}
  BY <1>1, <1>3, <1>4
<1>6. generated' \in BOOLEAN
  BY Zenon DEF TypeOK
<1>7. TypeOK'
  BY <1>5, <1>6 DEF TypeOK
<1>8. Allocated' /\ Phase'
  BY DEF Allocated, Phase, Scope
<1>9. Nested'
  <2>1. \A i \in 1 .. B : /\ blocks[i].height \in Nat
                          /\ blocks[i].height <= Len(local_stack)
    BY BlockFacts, <1>1
  <2>2. ASSUME NEW i \in 1 .. B + 1
        PROVE  /\ 0 < blocks'[i].height /\ blocks'[i].height <= Len(local_stack')
               /\ \A j \in 1 .. i : blocks'[j].height <= blocks'[i].height
    <3>1. CASE i = B + 1
      <4>1. \A j \in 1 .. i : j \in 1 .. B \/ j = B + 1
        BY <3>1, <1>5
      <4> QED BY <4>1, <3>1, <2>1, <1>1, <1>2, <1>3, <1>5
    <3>2. CASE i \in 1 .. B
      <4>1. \A j \in 1 .. i : j \in 1 .. B
        BY <3>2, <1>5
      <4> QED BY <4>1, <3>2, <1>5 DEF Nested
    <3> QED BY <3>1, <3>2, <1>5
  <2> QED BY <2>2, <1>5 DEF Nested
<1>10. ScopeInv'
  <2>1. Scope' = Scope
    BY DEF Scope
  <2>2. ASSUME residue' = 0 PROVE IsScope(Names, NULL, Scope, sym, sym_identifier)'
    BY <2>1, <2>2 DEF ScopeInv
  <2>3. ASSUME residue' = 0, NEW b \in 1 .. Len(blocks'), NEW n \in Names
        PROVE  Meant(b, n)'
    <3>1. CASE b \in 1 .. B
      <4>1. Meant(b, n)
        BY <2>3, <3>1 DEF ScopeInv
      <4> QED BY <4>1, <3>1, <1>5, <2>1 DEF Meant, Globals
    <3>2. CASE b = B + 1
      <4>1. /\ IsNewest(NULL, Scope, sym, n, Len(Scope), sym_identifier[n])
            /\ sym_identifier[n] \in Ptr
        BY <2>3, <1>1 DEF ScopeInv, IsScope
      <4>2. Len(global_stack') + blocks'[b].height = Len(Scope)
        BY <3>2, <1>1, <1>3, <1>5
      <4> QED BY <4>1, <4>2, <3>2, <1>3, <1>5, <2>1 DEF Meant
    <3> QED BY <3>1, <3>2, <1>5
  <2> QED BY <2>2, <2>3 DEF ScopeInv
<1> QED BY <1>7, <1>8, <1>9, <1>10

(* The end of a block.                                                     *)
LEMMA close_blockIInv ==
    ASSUME IInv, close_block PROVE IInv'
<1> USE DEF close_block, IInv
<1> DEFINE B == Len(blocks)
           h == Inner.height
<1>1. B \in Nat /\ B \in 1 .. B /\ Inner = blocks[B] /\ blocks \in Seq(Block)
  BY DEF TypeOK, Inner
<1>2. h \in 1 .. Len(local_stack) /\ h \in 0 .. Len(local_stack)
      /\ local_stack \in Seq(Addr) /\ Len(local_stack) \in Nat
  BY <1>1, BlockFacts DEF TypeOK
<1>3. /\ blocks' \in Seq(Block) /\ Len(blocks') = B - 1
      /\ \A b \in 1 .. B - 1 : b \in 1 .. B /\ blocks'[b] = blocks[b] /\ blocks[b].height <= h
  <2>1. blocks' = SubSeq(blocks, 1, B - 1)
    OBVIOUS
  <2>2. \A k \in 0 .. B : /\ SubSeq(blocks, 1, k) \in Seq(Block)
                          /\ Len(SubSeq(blocks, 1, k)) = k
                          /\ \A b \in 1 .. k : SubSeq(blocks, 1, k)[b] = blocks[b]
    BY <1>1
  <2>3. B - 1 \in 0 .. B /\ \A b \in 1 .. B - 1 : b \in 1 .. B
    BY <1>1
  <2>4. /\ blocks' \in Seq(Block) /\ Len(blocks') = B - 1
        /\ \A b \in 1 .. B - 1 : b \in 1 .. B /\ blocks'[b] = blocks[b]
    BY <2>1, <2>2, <2>3
  <2>5. \A b \in 1 .. B : blocks[b].height <= blocks[B].height
    BY <1>1 DEF Nested
  <2> QED BY <2>4, <2>5, <1>1
<1>4. sym_pop(local_stack, h) /\ local_stack' = SubSeq(local_stack, 1, h)
  OBVIOUS
<1> HIDE DEF h
<1>5. Allocated' /\ ScopeInv'
  <2>1. \A b \in 1 .. Len(blocks') :
           b \in 1 .. Len(blocks) /\ blocks'[b] = blocks[b] /\ blocks[b].height <= h
    BY <1>3
  <2>2. UNCHANGED <<global_stack, residue>>
    OBVIOUS
  <2>3. TypeOK /\ Allocated /\ Nested /\ ScopeInv /\ h \in 0 .. Len(local_stack)
    BY <1>2
  <2> HIDE DEF close_block, IInv, B
  <2> QED BY <2>1, <2>2, <2>3, <1>4, StacksPop, Zenon
<1>6. /\ sym' \in [Addr -> Sym] /\ free' \subseteq Addr
      /\ sym_identifier' \in [Names -> Ptr]
  BY <1>2, <1>4, sym_popFacts
<1>7. local_stack' \in Seq(Addr) /\ Len(local_stack') = h /\ local_stack' # << >>
  <2>1. \A k \in 0 .. Len(local_stack) : /\ SubSeq(local_stack, 1, k) \in Seq(Addr)
                                         /\ Len(SubSeq(local_stack, 1, k)) = k
    BY <1>2
  <2>2. local_stack' \in Seq(Addr) /\ Len(local_stack') = h
    BY <2>1, <1>2, <1>4
  <2> QED BY <2>2, <1>2
<1>8. generated' \in BOOLEAN
  BY Zenon DEF TypeOK
<1>9. TypeOK'
  BY <1>3, <1>6, <1>7, <1>8 DEF TypeOK
<1>10. Nested'
  <2>1. ASSUME NEW i \in 1 .. Len(blocks')
        PROVE  /\ 0 < blocks'[i].height /\ blocks'[i].height <= Len(local_stack')
               /\ \A j \in 1 .. i : blocks'[j].height <= blocks'[i].height
    <3>1. i \in 1 .. B - 1 /\ i \in 1 .. B
      BY <1>3
    <3>2. \A j \in 1 .. i : j \in 1 .. B - 1
      BY <3>1, <1>1
    <3>3. 0 < blocks[i].height /\ \A j \in 1 .. i : blocks[j].height <= blocks[i].height
      BY <3>1 DEF Nested
    <3> QED BY <3>1, <3>2, <3>3, <1>3, <1>7
  <2> QED BY <2>1, <1>7 DEF Nested
<1>11. Phase'
  BY DEF Phase
<1> QED BY <1>5, <1>9, <1>10, <1>11

(* The end of a function.                                                  *)
LEMMA end_bodyIInv ==
    ASSUME IInv, end_body PROVE IInv'
<1> USE DEF end_body, IInv
<1>1. /\ local_stack \in Seq(Addr) /\ Len(local_stack) \in Nat
      /\ 0 \in 0 .. Len(local_stack) /\ Len(blocks') = 0
      /\ local_stack' = SubSeq(local_stack, 1, 0) /\ sym_pop(local_stack, 0)
  BY DEF TypeOK
<1>2. Allocated' /\ ScopeInv'
  BY <1>1, StacksPop
<1>3. /\ sym' \in [Addr -> Sym] /\ free' \subseteq Addr
      /\ sym_identifier' \in [Names -> Ptr]
  BY <1>1, sym_popFacts
<1>4. generated' \in BOOLEAN
  BY Zenon DEF TypeOK
<1>5. TypeOK'
  BY <1>3, <1>4 DEF TypeOK
<1>6. Nested'
  BY <1>1 DEF Nested, TypeOK
<1>7. Phase'
  BY DEF Phase, TypeOK
<1> QED BY <1>2, <1>5, <1>6, <1>7

-----------------------------------------------------------------------------
(* The end of the source, without or with an error: the locals an error    *)
(* leaves behind stay on their stack.                                      *)
LEMMA StartInlineIInv ==
    ASSUME IInv, StartInline PROVE IInv'
<1> USE DEF StartInline, IInv
<1>1. Allocated' /\ ScopeInv'
  BY StacksKept
<1>2. TypeOK'
  <2>1. generated' \in BOOLEAN
    BY Zenon
  <2>2. blocks' \in Seq(Block) /\ scan' \in Nat
    BY DEF TypeOK
  <2> QED BY <2>1, <2>2 DEF TypeOK, Ptr
<1>3. Nested'
  BY <1>2, NestedGrows DEF TypeOK
<1>4. Phase'
  BY DEF Phase, TypeOK
<1> QED BY <1>1, <1>2, <1>3, <1>4

(* The process exits.                                                      *)
LEMMA ExitIInv ==
    ASSUME IInv, Exit PROVE IInv'
<1> USE DEF Exit, IInv
<1>1. TypeOK'
  <2>1. sym' \in [Addr -> Sym] /\ sym_identifier' \in [Names -> Ptr]
    BY FreshFacts DEF Ptr
  <2>2. generated' \in BOOLEAN
    OBVIOUS
  <2> QED BY <2>1, <2>2 DEF TypeOK, Ptr
<1>2. Scope' = << >> /\ Len(Scope') = 0
  BY DEF Scope
<1>3. Allocated'
  BY <1>2 DEF Allocated
<1>4. Nested' /\ Phase'
  BY DEF Nested, Phase
<1>5. ScopeInv'
  <2>1. \A n \in Names : IsNewest(NULL, << >>, sym', n, 0, sym_identifier'[n])
    BY DEF IsNewest
  <2> QED BY <2>1, <1>2 DEF ScopeInv, IsScope
<1> QED BY <1>1, <1>3, <1>4, <1>5

(* Another pass of gen_inline_functions.                                   *)
LEMMA next_passIInv ==
    ASSUME IInv, next_pass PROVE IInv'
<1> USE DEF next_pass, IInv
<1>1. Allocated' /\ ScopeInv'
  BY StacksKept
<1>2. TypeOK'
  <2>1. generated' \in BOOLEAN
    BY Zenon
  <2>2. scan' \in Nat
    BY DEF TypeOK
  <2> QED BY <2>1, <2>2 DEF TypeOK
<1>3. Nested'
  BY <1>2, NestedGrows DEF TypeOK
<1>4. Phase'
  BY DEF Phase, TypeOK
<1> QED BY <1>1, <1>2, <1>3, <1>4

(* Where a pass stops is the first wanted function on its way down.        *)
LEMMA FirstFacts ==
    ASSUME TypeOK, Wanted # {}
    PROVE  First \in Wanted /\ \A j \in Wanted : j <= First
<1>1. Wanted \subseteq 0 .. scan /\ scan \in Nat
  BY DEF TypeOK, Wanted
<1>2. \E i \in Wanted : \A j \in Wanted : j <= i
  BY <1>1, GreatestNat
<1> QED BY <1>2 DEF First

(* The function a pass compiles is on global_stack.                        *)
LEMMA gen_inlineFacts ==
    ASSUME IInv, gen_inline
    PROVE  /\ First \in 1 .. scan /\ First \in 1 .. Len(global_stack)
           /\ global_stack[First] \in Addr /\ Inline(global_stack[First])
<1>1. TypeOK /\ Wanted # {} /\ mode = "inline"
  BY DEF IInv, gen_inline
<1>2. First \in Wanted
  BY <1>1, FirstFacts
<1>3. First \in 1 .. scan /\ Inline(global_stack[First])
  BY <1>2 DEF Wanted
<1>4. scan \in Nat /\ Len(global_stack) \in Nat /\ scan <= Len(global_stack)
      /\ global_stack \in Seq(Addr)
  BY <1>1 DEF IInv, TypeOK, Phase
<1>5. First \in 1 .. Len(global_stack)
  BY <1>3, <1>4
<1> QED BY <1>3, <1>4, <1>5

(* An inline function is compiled.                                         *)
LEMMA gen_inlineIInv ==
    ASSUME IInv, gen_inline PROVE IInv'
<1> USE DEF gen_inline, IInv
<1>1. PICK a \in Addr : gen_function(global_stack[First], a)
  OBVIOUS
<1>2. /\ global_stack[First] \in Ptr /\ mode' = "body"
      /\ First \in 1 .. scan /\ scan \in Nat /\ First - 1 \in Nat
      /\ First - 1 <= Len(global_stack)
  <2>1. First \in 1 .. scan /\ First \in 1 .. Len(global_stack) /\ global_stack[First] \in Addr
    BY gen_inlineFacts
  <2>2. scan \in Nat /\ Len(global_stack) \in Nat
    BY DEF TypeOK
  <2>3. mode' = "body"
    BY <1>1 DEF gen_function
  <2> QED BY <2>1, <2>2, <2>3 DEF Ptr
<1>3. /\ Allocated' /\ ScopeInv'
      /\ sym' \in [Addr -> Sym] /\ free' \subseteq Addr
      /\ sym_identifier' \in [Names -> Ptr] /\ global_stack' = global_stack
      /\ local_stack' \in Seq(Addr) /\ local_stack' # << >>
      /\ Len(local_stack') >= Len(local_stack)
  BY <1>1, <1>2, gen_functionFacts
<1>4. TypeOK'
  <2>1. generated' \in BOOLEAN /\ scan' \in Nat
    BY <1>2
  <2> QED BY <2>1, <1>2, <1>3 DEF TypeOK
<1>5. Nested'
  BY <1>3, <1>4, NestedGrows
<1>6. Phase'
  BY <1>2, <1>3 DEF Phase
<1> QED BY <1>3, <1>4, <1>5, <1>6

(* The end of a unit.                                                      *)
LEMMA finishIInv ==
    ASSUME IInv, finish PROVE IInv'
<1> USE DEF finish, IInv
<1>1. /\ global_stack \in Seq(Addr) /\ local_stack \in Seq(Addr)
      /\ 0 \in 0 .. Len(global_stack) /\ residue \in Nat
      /\ sym_pop(global_stack, 0) /\ global_stack' = << >>
  BY DEF TypeOK
<1>2. /\ free' = free \union {global_stack[i] : i \in 1 .. Len(global_stack)}
      /\ free' \subseteq Addr /\ sym' \in [Addr -> Sym]
      /\ \A a \in Addr \ {global_stack[i] : i \in 1 .. Len(global_stack)} : sym'[a] = sym[a]
      /\ sym_identifier' \in [Names -> Ptr]
      /\ \A w \in Names :
           \/ /\ \A i \in 1 .. Len(global_stack) : sym[global_stack[i]].v # w
              /\ sym_identifier'[w] = sym_identifier[w]
           \/ \E k \in 1 .. Len(global_stack) :
                 /\ sym[global_stack[k]].v = w
                 /\ sym_identifier'[w] = sym[global_stack[k]].prev_tok
                 /\ \A i \in 1 .. k - 1 : sym[global_stack[i]].v # w
  BY <1>1, sym_popFacts
<1>3. Allocated'
  BY <1>2, AllocatedFinish
<1>4. TypeOK'
  <2>1. generated' \in BOOLEAN
    BY Zenon DEF TypeOK
  <2>2. global_stack' \in Seq(Addr) /\ residue' \in Nat
    BY <1>1
  <2> QED BY <1>2, <2>1, <2>2 DEF TypeOK
<1>5. Nested'
  BY <1>4, NestedGrows DEF TypeOK
<1>6. Phase'
  BY DEF Phase
<1>7. ASSUME residue' = 0 PROVE ScopeInv'
  <2>1. residue = 0 /\ local_stack = << >>
    BY <1>7, <1>1
  <2>2. Scope = global_stack /\ Scope' = << >>
    <3>1. \A s \in Seq(Addr) : s \o << >> = s
      OBVIOUS
    <3> QED BY <3>1, <2>1, <1>1 DEF Scope
  <2>3. Pops(Addr, Names, Scope, sym, sym', sym_identifier, sym_identifier', 0)
    <3>1. Pops(Addr, Names, global_stack, sym, sym', sym_identifier, sym_identifier', 0)
      BY <1>1, <1>2 DEF Pops
    <3> QED BY <3>1, <2>2
  <2>4. IsScope(Names, NULL, SubSeq(Scope, 1, 0), sym', sym_identifier')
    BY <2>1, <2>3, ScopePop DEF ScopeInv
  <2>5. SubSeq(Scope, 1, 0) = << >>
    BY <1>1, <2>2
  <2>6. IsScope(Names, NULL, Scope, sym, sym_identifier)'
    BY <2>2, <2>4, <2>5
  <2>7. \A b \in 1 .. Len(blocks') : FALSE
    <3> SUFFICES ASSUME NEW b \in 1 .. Len(blocks) PROVE FALSE
      OBVIOUS
    <3>1. blocks[b].height \in 1 .. Len(local_stack)
      BY BlockFacts
    <3> QED BY <3>1, <2>1
  <2> QED BY <2>6, <2>7 DEF ScopeInv
<1>8. ScopeInv'
  BY <1>7 DEF ScopeInv
<1> QED BY <1>3, <1>4, <1>5, <1>6, <1>8

(* After undefined behaviour nothing is done.                              *)
LEMMA UndefinedIInv ==
    ASSUME IInv, Undefined PROVE IInv'
<1> USE DEF Undefined, IInv
<1>1. Allocated' /\ ScopeInv'
  BY StacksKept
<1>2. TypeOK'
  <2>1. generated' \in BOOLEAN
    BY Zenon DEF TypeOK
  <2> QED BY <2>1 DEF TypeOK
<1>3. Nested'
  BY <1>2, NestedGrows DEF TypeOK
<1>4. Phase'
  BY DEF Phase
<1> QED BY <1>1, <1>2, <1>3, <1>4

-----------------------------------------------------------------------------
(* Every step of the compiler keeps the invariant: the Syms of the two     *)
(* stacks are those not on the free list, blocks nest, and until a unit    *)
(* has left locals behind the token table is the scope rule, also below    *)
(* every open block.                                                       *)
THEOREM Invariance == Spec => []IInv
<1>1. Init => IInv
  BY InitIInv
<1>2. IInv /\ [Next]_vars => IInv'
  <2> SUFFICES ASSUME IInv, [Next]_vars PROVE IInv'
    OBVIOUS
  <2>1. CASE tcc_compile
    BY <2>1, tcc_compileIInv
  <2>2. CASE record_inline
    BY <2>2, record_inlineIInv
  <2>3. CASE begin_body
    BY <2>3, begin_bodyIInv
  <2>4. CASE open_block
    BY <2>4, open_blockIInv
  <2>5. CASE close_block
    BY <2>5, close_blockIInv
  <2>6. CASE end_body
    BY <2>6, end_bodyIInv
  <2>7. CASE end_of_file \/ tcc_error
    BY <2>7, StartInlineIInv DEF end_of_file, tcc_error
  <2>8. CASE Exit
    BY <2>8, ExitIInv
  <2>9. CASE gen_inline
    BY <2>9, gen_inlineIInv
  <2>10. CASE next_pass
    BY <2>10, next_passIInv
  <2>11. CASE finish
    BY <2>11, finishIInv
  <2>12. CASE Undefined
    BY <2>12, UndefinedIInv
  <2>13. ASSUME NEW n \in Names, reference(n) PROVE IInv'
    BY <2>13, referenceIInv
  <2>14. ASSUME NEW n \in Names, NEW type \in {"plain", "inline"}, declare(n, type)
         PROVE  IInv'
    BY <2>14, declareIInv
  <2>15. ASSUME NEW n \in Names, NEW type \in {"plain", "inline"}, function(n, type)
         PROVE  IInv'
    BY <2>15, functionIInv
  <2>16. CASE UNCHANGED vars
    BY <2>16 DEF vars, IInv, TypeOK, Allocated, Nested, Phase, ScopeInv, Scope, Meant, Globals
  <2> QED BY <2>1, <2>2, <2>3, <2>4, <2>5, <2>6, <2>7, <2>8, <2>9, <2>10, <2>11, <2>12,
             <2>13, <2>14, <2>15, <2>16 DEF Next
<1> QED BY <1>1, <1>2, PTL DEF Spec

(* The newest Sym of a name is what the scope rule of SymStack chooses.    *)
LEMMA NewestChosen ==
    ASSUME TypeOK, NEW n, NEW m \in 0 .. Len(Scope), NEW p, IsNewest(NULL, Scope, sym, n, m, p)
    PROVE  p = Newest(n, m)
<1> DEFINE I == {i \in 1 .. m : sym[Scope[i]].v = n}
           Last(i) == i \in I /\ \A j \in I : j <= i
<1>1. Newest(n, m) = IF I = {} THEN NULL ELSE Scope[CHOOSE i \in I : \A j \in I : j <= i]
  BY DEF Newest
<1>2. CASE p = NULL /\ \A i \in 1 .. m : sym[Scope[i]].v # n
  BY <1>1, <1>2
<1>3. ASSUME NEW k \in 1 .. m, Scope[k] = p, sym[p].v = n,
             \A i \in k + 1 .. m : sym[Scope[i]].v # n
      PROVE  p = Newest(n, m)
  <2>1. k \in I /\ \A j \in I : j <= k
    BY <1>3
  <2>2. \A l \in I : (\A j \in I : j <= l) => l = k
    BY <2>1
  <2>3. (CHOOSE i \in I : \A j \in I : j <= i) = k
    BY <2>1, <2>2
  <2> QED BY <2>1, <2>3, <1>1, <1>3
<1> QED BY <1>2, <1>3 DEF IsNewest

(* The token table is the scope rule, whatever blocks were entered and     *)
(* left, whatever functions were called before they were declared and      *)
(* whatever errors ended earlier units outside functions.                  *)
THEOREM ScopeRuleHolds == Spec => []ScopeRule
<1>1. IInv => ScopeRule
  <2> SUFFICES ASSUME IInv, residue = 0 PROVE ScopeRule
    BY DEF ScopeRule
  <2> USE DEF IInv
  <2>1. IsScope(Names, NULL, Scope, sym, sym_identifier) /\ Len(Scope) \in Nat
    BY ScopeFacts DEF ScopeInv
  <2>2. ASSUME NEW n \in Names PROVE sym_identifier[n] = Newest(n, Len(Scope))
    BY <2>1, NewestChosen DEF IsScope
  <2>3. ASSUME NEW i \in 1 .. Len(Scope), sym[Scope[i]].v \in Names
        PROVE  sym[Scope[i]].prev_tok = Newest(sym[Scope[i]].v, i - 1)
    <3>1. IsNewest(NULL, Scope, sym, sym[Scope[i]].v, i - 1, sym[Scope[i]].prev_tok)
      BY <2>1, <2>3 DEF IsScope
    <3>2. i - 1 \in 0 .. Len(Scope)
      BY <2>1
    <3> QED BY <3>1, <3>2, NewestChosen
  <2> QED BY <2>2, <2>3 DEF ScopeRule, Allocated
<1> QED BY <1>1, Invariance, PTL

(* Leaving a block restores what every name meant.                         *)
LEMMA close_blockRestores ==
    ASSUME IInv, close_block, residue = 0, NEW n \in Names
    PROVE  \/ sym_identifier'[n] = Inner.meaning[n]
           \/ Inner.meaning[n] = NULL /\ sym_identifier'[n] \in Globals
<1> USE DEF close_block, IInv
<1> DEFINE B == Len(blocks)
           h == Inner.height
           m == Len(global_stack) + h
<1>1. B \in Nat /\ B \in 1 .. B /\ Inner = blocks[B] /\ blocks \in Seq(Block)
  BY DEF TypeOK, Inner
<1>2. h \in 0 .. Len(local_stack) /\ m \in Nat
  BY <1>1, BlockFacts
<1>3. Meant(B, n)
  BY <1>1 DEF ScopeInv
<1>4. PICK p \in Ptr : /\ IsNewest(NULL, Scope, sym, n, m, p)
                       /\ p = Inner.meaning[n] \/ (Inner.meaning[n] = NULL /\ p \in Globals)
  BY <1>1, <1>3 DEF Meant
<1>5. sym_pop(local_stack, h) /\ local_stack' = SubSeq(local_stack, 1, h)
  OBVIOUS
<1> HIDE DEF h
<1>6. /\ Len(Scope') = m
      /\ \A i \in 1 .. m : Scope'[i] = Scope[i] /\ sym'[Scope[i]].v = sym[Scope[i]].v
  <2>1. \A b \in 1 .. Len(blocks') :
           b \in 1 .. Len(blocks) /\ blocks'[b] = blocks[b] /\ blocks[b].height <= h
    <3>1. \A k \in 0 .. B : /\ Len(SubSeq(blocks, 1, k)) = k
                            /\ \A b \in 1 .. k : SubSeq(blocks, 1, k)[b] = blocks[b]
      BY <1>1
    <3>2. B - 1 \in 0 .. B /\ \A b \in 1 .. B - 1 : b \in 1 .. B
      BY <1>1
    <3>3. Len(blocks') = B - 1 /\ \A b \in 1 .. B - 1 : blocks'[b] = blocks[b]
      BY <3>1, <3>2
    <3>4. \A b \in 1 .. B : blocks[b].height <= h
      BY <1>1 DEF Nested, h
    <3> QED BY <3>2, <3>3, <3>4
  <2>2. UNCHANGED <<global_stack, residue>>
    OBVIOUS
  <2> HIDE DEF close_block, IInv, B
  <2> QED BY <2>1, <2>2, <1>2, <1>5, StacksPop DEF IInv
<1>7. IsNewest(NULL, Scope', sym', n, m, p)
  BY <1>2, <1>4, <1>6, NewestSame
<1>8. IsNewest(NULL, Scope', sym', n, m, sym_identifier'[n]) /\ Scope' \in Seq(Addr)
  <2>1. IsScope(Names, NULL, Scope, sym, sym_identifier)' /\ TypeOK'
    BY close_blockIInv DEF ScopeInv
  <2>2. \A w \in Names : IsNewest(NULL, Scope', sym', w, Len(Scope'), sym_identifier'[w])
    BY <2>1 DEF IsScope
  <2>3. Scope' \in Seq(Addr)
    BY <2>1 DEF TypeOK, Scope
  <2> QED BY <2>2, <2>3, <1>6
<1>9. p = sym_identifier'[n]
  <2>1. m \in 0 .. Len(Scope')
    BY <1>2, <1>6
  <2> QED BY <2>1, <1>7, <1>8, NewestUnique, SymAssumption
<1> QED BY <1>4, <1>9

(* No other step of the compiler closes a block and goes on.               *)
THEOREM BlocksRestore == Spec => BlockRestores
<1>1. ASSUME IInv, Next, mode' = "body", Len(blocks') < Len(blocks), residue = 0
      PROVE  \A n \in Names :
                \/ sym_identifier'[n] = Inner.meaning[n]
                \/ /\ Inner.meaning[n] = NULL
                   /\ sym_identifier'[n] \in {global_stack[i] : i \in 1 .. Len(global_stack)}
  <2>1. blocks \in Seq(Block) /\ Len(blocks) \in Nat
    BY <1>1 DEF IInv, TypeOK
  <2>2. blocks' # blocks
    BY <1>1, <2>1
  <2>3. ~open_block
    <3>1. ASSUME open_block PROVE FALSE
      <4>1. \A e : Len(Append(blocks, e)) = Len(blocks) + 1
        BY <2>1
      <4> QED BY <3>1, <4>1, <1>1, <2>1 DEF open_block
    <3> QED BY <3>1
  <2>4. close_block
    BY <1>1, <2>2, <2>3
       DEF Next, tcc_compile, record_inline, begin_body, end_body, end_of_file, tcc_error,
           StartInline, Exit, gen_inline, next_pass, finish, Undefined, reference, declare,
           function
  <2> QED BY <1>1, <2>4, close_blockRestores DEF Globals
<1>2. IInv /\ [Next]_vars =>
         [(mode' = "body" /\ Len(blocks') < Len(blocks) /\ residue = 0) =>
             \A n \in Names :
                \/ sym_identifier'[n] = Inner.meaning[n]
                \/ /\ Inner.meaning[n] = NULL
                   /\ sym_identifier'[n] \in {global_stack[i] : i \in 1 .. Len(global_stack)}]_vars
  BY <1>1
<1> QED BY <1>2, Invariance, PTL DEF Spec, BlockRestores

(* gen_inline_functions frees the tokens of functions no code refers to:   *)
(* the last pass has passed over all of them and found nothing wanted.     *)
THEOREM InlineAllCompiled == Spec => InlineCompiled
<1>1. ASSUME IInv, Next, mode = "inline", mode' = "idle"
      PROVE  \A i \in 1 .. Len(global_stack) :
                ~(Inline(global_stack[i]) /\ sym[global_stack[i]].used)
  <2>1. finish
    <3>1. \A a \in Addr : \A f : ~gen_function(f, a)
      BY <1>1 DEF gen_function
    <3> QED BY <1>1, <3>1
       DEF Next, tcc_compile, record_inline, begin_body, open_block, close_block, end_body,
           end_of_file, tcc_error, StartInline, Exit, gen_inline, next_pass, Undefined,
           reference, declare, function
  <2>2. scan = Len(global_stack) /\ Wanted = {}
    BY <1>1, <2>1 DEF finish, IInv, Phase
  <2> QED BY <2>2 DEF Wanted
<1>2. IInv /\ [Next]_vars =>
         [(mode = "inline" /\ mode' = "idle") =>
             \A i \in 1 .. Len(global_stack) :
                ~(Inline(global_stack[i]) /\ sym[global_stack[i]].used)]_vars
  BY <1>1
<1> QED BY <1>2, Invariance, PTL DEF Spec, InlineCompiled

(* When no Sym that is inline afterwards was less before, there are no     *)
(* more inline functions than there were.                                  *)
LEMMA UnusedShrinks ==
    ASSUME \A a \in Globals' : sym'[a].type = "inline" => a \in Globals /\ sym[a].type = "inline"
    PROVE  Unused' \subseteq Unused
BY DEF Unused, Globals, Inline

(* While gen_inline_functions compiles a function, whatever the function   *)
(* declares is a local or the plain global that a call declares.           *)
LEMMA BodyShrinks ==
    ASSUME IInv, mode = "body", Next, mode' \in {"inline", "body"}
    PROVE  Unused' \subseteq Unused
<1> USE DEF IInv
<1>0. /\ global_stack \in Seq(Addr) /\ sym \in [Addr -> Sym]
      /\ local_stack \in Seq(Addr) /\ Len(local_stack) \in Nat
      /\ Globals \subseteq Addr
  BY DEF TypeOK, Globals
<1>1. \A a \in free : a \notin Globals
  BY ScopeFacts DEF Allocated, Globals
<1>2. CASE UNCHANGED <<sym, global_stack>>
  BY <1>2 DEF Unused, Inline
<1>3. ASSUME NEW h \in 0 .. Len(local_stack), sym_pop(local_stack, h), UNCHANGED global_stack
      PROVE  Unused' \subseteq Unused
  <2>1. \A a \in Addr : sym'[a].type = "inline" => sym'[a] = sym[a]
    BY <1>0, <1>3, sym_popFacts
  <2>2. Globals' = Globals
    BY <1>3 DEF Globals
  <2> QED BY <2>1, <2>2, <1>0, UnusedShrinks
<1>4. ASSUME close_block PROVE Unused' \subseteq Unused
  <2>1. Len(blocks) \in 1 .. Len(blocks) /\ Inner = blocks[Len(blocks)]
    BY <1>4 DEF close_block, TypeOK, Inner
  <2>2. Inner.height \in 0 .. Len(local_stack)
    BY <2>1, BlockFacts
  <2> QED BY <2>2, <1>3, <1>4 DEF close_block
<1>5. ASSUME end_body PROVE Unused' \subseteq Unused
  <2>1. 0 \in 0 .. Len(local_stack)
    BY <1>0
  <2> QED BY <2>1, <1>3, <1>5 DEF end_body
<1>6. ASSUME NEW n \in Names, NEW type \in {"plain", "inline"}, declare(n, type)
      PROVE  Unused' \subseteq Unused
  <2>1. PICK a \in Addr : sym_push(n, type, a)
    BY <1>6 DEF declare
  <2>2. UNCHANGED <<blocks, residue>>
    BY <1>6 DEF declare
  <2>3. local_stack # << >>
    BY DEF Nested
  <2>4. global_stack' = global_stack /\ \A b \in Addr \ {a} : sym'[b] = sym[b]
    BY <2>1, <2>2, <2>3, sym_pushFacts
  <2>5. a \in free /\ Globals' = Globals
    BY <2>1, <2>4 DEF sym_push, Globals
  <2> QED BY <2>4, <2>5, <1>0, <1>1, UnusedShrinks
<1>7. ASSUME NEW n \in Names, reference(n) PROVE Unused' \subseteq Unused
  <2>1. CASE /\ sym_find(n) \in Addr \ free
             /\ sym' = [sym EXCEPT ![sym_find(n)].used = TRUE]
             /\ UNCHANGED <<free, sym_identifier, global_stack>>
    <3>1. \A a \in Addr : sym'[a].type = sym[a].type
      BY <2>1, <1>0 DEF Sym
    <3>2. Globals' = Globals
      BY <2>1 DEF Globals
    <3> QED BY <3>1, <3>2, <1>0, UnusedShrinks
  <2>2. ASSUME NEW a \in Addr, global_identifier_push(n, a),
               sym' = [sym EXCEPT ![a] = [Fresh(n) EXCEPT !.used = TRUE]]
        PROVE  Unused' \subseteq Unused
    <3>1. global_stack' = Append(global_stack, a)
      BY <2>2 DEF global_identifier_push
    <3>2. Globals' \subseteq Globals \union {a}
      BY <3>1, <1>0 DEF Globals
    <3>3. sym'[a].type = "plain" /\ \A b \in Addr \ {a} : sym'[b] = sym[b]
      <4>1. [Fresh(n) EXCEPT !.used = TRUE].type = "plain"
        BY DEF Fresh
      <4> QED BY <4>1, <2>2, <1>0
    <3> QED BY <3>2, <3>3, <1>0, UnusedShrinks
  <2> QED BY <2>1, <2>2, <1>7 DEF reference
<1>8. \A a \in Addr : \A f : ~(mode = "inline" /\ gen_function(f, a))
  OBVIOUS
<1> QED
  BY <1>2, <1>4, <1>5, <1>6, <1>7
     DEF Next, tcc_compile, record_inline, begin_body, open_block, end_of_file, tcc_error,
         StartInline, Exit, gen_inline, next_pass, finish, Undefined, function

(* What a pass compiles is an inline function no more.                     *)
LEMMA gen_inlineShrinks ==
    ASSUME IInv, gen_inline
    PROVE  Unused' \subseteq Unused /\ Unused' # Unused
<1> DEFINE f == global_stack[First]
<1>1. PICK a \in Addr : gen_function(f, a)
  BY DEF gen_inline
<1>2. f \in Addr /\ f \in Globals /\ Inline(f) /\ Globals \subseteq Addr
  <2>1. First \in 1 .. Len(global_stack) /\ f \in Addr /\ Inline(f)
    BY gen_inlineFacts
  <2>2. global_stack \in Seq(Addr)
    BY DEF IInv, TypeOK
  <2> QED BY <2>1, <2>2 DEF Globals
<1>3. UNCHANGED <<blocks, residue>>
  BY DEF gen_inline
<1> HIDE DEF f
<1>4. /\ global_stack' = global_stack
      /\ \A b \in Addr \ {a, f} : sym'[b] = sym[b]
      /\ sym'[a].type = "plain" /\ sym'[f].type = "plain"
  <2>1. f \in Ptr
    BY <1>2 DEF Ptr
  <2> QED BY <2>1, <1>1, <1>2, <1>3, gen_functionFacts
<1>5. Globals' = Globals
  BY <1>4 DEF Globals
<1>6. Unused' \subseteq Unused
  BY <1>2, <1>4, <1>5, UnusedShrinks
<1>7. f \in Unused /\ f \notin Unused'
  BY <1>2, <1>4 DEF Unused, Inline, Globals
<1> QED BY <1>6, <1>7

(* gen_inline_functions compiles each inline function once at most and     *)
(* never gets another to compile, so that its passes end.                  *)
THEOREM InlineTerminates == Spec => InlineShrinks
<1>1. ASSUME IInv, Next, resume = "inline", mode' \in {"inline", "body"}
      PROVE  /\ Unused' \subseteq Unused
             /\ (mode = "inline" /\ mode' = "body") => Unused' # Unused
  <2>1. mode \in {"body", "inline", "undefined"}
    BY <1>1 DEF IInv, TypeOK, Phase
  <2>2. CASE mode = "body"
    BY <1>1, <2>2, BodyShrinks
  <2>3. CASE mode # "body"
    <3>1. gen_inline \/ next_pass
      BY <1>1, <2>1, <2>3
         DEF Next, tcc_compile, record_inline, begin_body, open_block, close_block, end_body,
             end_of_file, tcc_error, Exit, finish, Undefined, reference, declare, function
    <3>2. CASE gen_inline
      BY <1>1, <3>2, gen_inlineShrinks
    <3>3. CASE next_pass
      BY <3>3 DEF next_pass, Unused, Inline
    <3> QED BY <3>1, <3>2, <3>3
  <2> QED BY <2>2, <2>3
<1>2. IInv /\ [Next]_vars =>
         [(resume = "inline" /\ mode' \in {"inline", "body"}) =>
             /\ Unused' \subseteq Unused
             /\ (mode = "inline" /\ mode' = "body") => Unused' # Unused]_vars
  BY <1>1
<1> QED BY <1>2, Invariance, PTL DEF Spec, InlineShrinks
=============================================================================
