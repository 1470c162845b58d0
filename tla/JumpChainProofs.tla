-------------------------- MODULE JumpChainProofs --------------------------
(***************************************************************************)
(* Proofs about JumpChain, for all functions and conditions.               *)
(***************************************************************************)
EXTENDS JumpChain, StackFacts, FiniteSetTheorems

Registers == {"", "v1", "v2"} \union Operands
Instruction == [op : {"jmp", "jcc", "other"}, x : Registers, inv : BOOLEAN,
                next : Nat, meant : Nat, writes : Nat]

(* Instruction i is a jump that waits for label l.                         *)
WaitsFor(cs, i, l) ==
    cs[i].op # "other" /\ cs[i].writes = 0 /\ cs[i].next \in 0 .. i - 1 /\ cs[i].meant = l

(* W: chains, with the label each waits for.  They hold jumps that wait    *)
(* for it; and an instruction that is on no chain is another one or a jump *)
(* that has arrived, at the place p says.                                  *)
Threads(cs, W, p) ==
    /\ cs \in Seq(Instruction)
    /\ \A t, l : <<t, l>> \in W =>
          t \in 0 .. Len(cs) /\ l \in Nat /\ \A i \in Chain(cs, t) : WaitsFor(cs, i, l)
    /\ \A i \in 1 .. Len(cs) :
          \/ cs[i] = Other \/ Arrived(cs[i], p)
          \/ \E t, l : <<t, l>> \in W /\ i \in Chain(cs, t)

Kinds == {"then", "else", "while", "for", "do", "switch", "expr"}
Stmt == [kind : Kinds, a : Nat, b : Nat, c : Nat, d : Nat, brk : Nat, cont : Nat, after : Nat]

(* The labels of a statement, up to n, are those of its kind.              *)
OwnLabels(s, n) ==
    /\ s.brk \in 0 .. n /\ s.cont \in 0 .. n /\ s.after \in 0 .. n
    /\ Exit \notin Labels(s)
    /\ s.brk # 0 => s.brk # s.cont /\ s.brk # s.after
    /\ s.cont # 0 => s.cont # s.after
    /\ s.kind \in {"then", "else"} => s.after # 0
    /\ s.kind \in Loops => s.brk # 0 /\ s.cont # 0
    /\ s.kind = "switch" => s.brk # 0 /\ s.after # 0
    /\ s.kind = "do" => s.after # 0

(* A loop goes back to where its label is.                                 *)
Fits(s, p) ==
    /\ s.kind = "while" => p[s.cont] = s.d
    /\ s.kind = "for" => p[s.cont] = s.c
    /\ s.kind = "do" => p[s.after] = s.d

(* The labels of open statements are different ones.                       *)
Nested(o, p) ==
    /\ o \in Seq(Stmt) /\ (\E S : p \in Seq(S)) /\ Len(p) >= 1
    /\ \A i \in 1 .. Len(o) : OwnLabels(o[i], Len(p)) /\ Fits(o[i], p)
    /\ \A i, j \in 1 .. Len(o) : i # j => Labels(o[i]) \intersect Labels(o[j]) = {}

IInv ==
    /\ Threads(code, Waiting, place) /\ Nested(open, place)
    /\ \A i \in 1 .. Len(code) : code[i].writes = 0
    /\ Len(code) <= MaxCode /\ Len(open) <= MaxOpen /\ ended \in BOOLEAN

-----------------------------------------------------------------------------
(* Chains.                                                                 *)
LEMMA CodeType ==
    ASSUME NEW cs \in Seq(Instruction)
    PROVE  /\ Len(cs) \in Nat /\ DOMAIN cs = 1 .. Len(cs) /\ ind(cs) = Len(cs) + 1
           /\ \A i \in 1 .. Len(cs) :
                 cs[i] \in Instruction /\ cs[i].next \in Nat /\ cs[i].meant \in Nat
                 /\ cs[i].writes \in Nat
<1>1. \A i \in 1 .. Len(cs) : cs[i] \in Instruction
  OBVIOUS
<1>2. \A i \in 1 .. Len(cs) : cs[i].next \in Nat /\ cs[i].meant \in Nat /\ cs[i].writes \in Nat
  BY <1>1 DEF Instruction
<1>3. Len(cs) \in Nat /\ DOMAIN cs = 1 .. Len(cs)
  OBVIOUS
<1> QED BY <1>1, <1>2, <1>3 DEF ind

(* One step of the walk: on has the chains of jumps up to u.               *)
ChainStep(cs, on, u) ==
    on[u] = IF u = 0 THEN {} ELSE {u} \union IF cs[u].next < u THEN on[cs[u].next] ELSE {}

(* The walk of a chain ends.                                               *)
LEMMA ChainExists ==
    ASSUME NEW cs \in Seq(Instruction), NEW m \in 0 .. Len(cs)
    PROVE  \E on : on = [u \in 0 .. m |->
              IF u = 0 THEN {} ELSE {u} \union IF cs[u].next < u THEN on[cs[u].next] ELSE {}]
<1> DEFINE W(on, k) == on = [u \in 0 .. k |->
              IF u = 0 THEN {} ELSE {u} \union IF cs[u].next < u THEN on[cs[u].next] ELSE {}]
           N == Len(cs)
           I == {k \in 0 .. N : ~\E on : W(on, k)}
<1>0. N \in Nat /\ \A i \in 1 .. N : cs[i].next \in Nat
  BY CodeType
<1>1. I \subseteq Nat
  OBVIOUS
<1>2. ASSUME I # {} PROVE FALSE
  <2> HIDE DEF I
  <2>1. PICK k \in I : \A j \in I : k <= j
    BY <1>1, <1>2, LeastNat
  <2>2. k \in 0 .. N /\ ~\E on : W(on, k)
    BY DEF I
  <2>3. CASE k = 0
    <3>1. PICK on : on = [u \in 0 .. 0 |-> {}]
      OBVIOUS
    <3>2. on = [u \in 0 .. 0 |->
              IF u = 0 THEN {} ELSE {u} \union IF cs[u].next < u THEN on[cs[u].next] ELSE {}]
      BY <3>1
    <3> QED BY <2>2, <2>3, <3>2
  <2>4. CASE k # 0
    <3>1. k - 1 \in 0 .. N /\ ~(k <= k - 1) /\ k \in 1 .. N
      BY <2>2, <2>4, <1>0
    <3>2. \E on : W(on, k - 1)
      BY <3>1, <2>1 DEF I
    <3>3. PICK w : W(w, k - 1)
      BY <3>2
    <3>4. PICK v : v = [u \in 0 .. k |->
                          IF u < k THEN w[u]
                          ELSE {k} \union IF cs[k].next < k THEN w[cs[k].next] ELSE {}]
      OBVIOUS
    <3>5. \A u \in 0 .. k - 1 : u \in 0 .. k /\ u < k /\ v[u] = w[u]
      BY <3>1, <3>4
    <3>6. \A u \in 0 .. k : v[u] =
             IF u = 0 THEN {} ELSE {u} \union IF cs[u].next < u THEN v[cs[u].next] ELSE {}
      <4> TAKE u \in 0 .. k
      <4>1. CASE u = k
        <5>1. cs[k].next < k => cs[k].next \in 0 .. k - 1
          BY <3>1, <1>0
        <5>2. v[k] = {k} \union IF cs[k].next < k THEN w[cs[k].next] ELSE {}
          BY <3>1, <3>4
        <5>3. cs[k].next < k => v[cs[k].next] = w[cs[k].next]
          BY <5>1, <3>5
        <5> QED BY <4>1, <5>2, <5>3, <2>4
      <4>2. CASE u # k
        <5>1. u \in 0 .. k - 1
          BY <4>2, <3>1
        <5>2. w[u] = IF u = 0 THEN {} ELSE {u} \union IF cs[u].next < u THEN w[cs[u].next] ELSE {}
          BY <5>1, <3>3
        <5>3. u # 0 /\ cs[u].next < u => cs[u].next \in 0 .. k - 1
          BY <5>1, <3>1, <1>0
        <5>4. u # 0 /\ cs[u].next < u => v[cs[u].next] = w[cs[u].next]
          BY <5>3, <3>5
        <5>5. v[u] = w[u]
          BY <5>1, <3>5
        <5> QED BY <5>2, <5>4, <5>5
      <4> QED BY <4>1, <4>2
    <3>7. W(v, k)
      BY <3>4, <3>6
    <3> QED BY <3>7, <2>2
  <2> QED BY <2>3, <2>4
<1>3. m \in 0 .. N /\ m \notin I
  BY <1>2
<1> QED BY <1>3

(* What it finds: nothing, or the jump and what its field leads down to.   *)
LEMMA ChainIs ==
    ASSUME NEW cs \in Seq(Instruction)
    PROVE  /\ Chain(cs, 0) = {}
           /\ \A t \in 1 .. Len(cs) : Chain(cs, t) =
                 {t} \union IF cs[t].next < t THEN Chain(cs, cs[t].next) ELSE {}
<1> DEFINE W(on) == on = [u \in 0 .. Len(cs) |->
              IF u = 0 THEN {} ELSE {u} \union IF cs[u].next < u THEN on[cs[u].next] ELSE {}]
<1>1. \A t : Chain(cs, t) = (CHOOSE on : W(on))[t]
  BY DEF Chain
<1>2. \E on : W(on)
  <2>1. Len(cs) \in 0 .. Len(cs)
    BY CodeType
  <2> QED BY <2>1, ChainExists
<1> HIDE DEF W
<1>3. PICK on : on = CHOOSE v : W(v)
  OBVIOUS
<1>4. W(on)
  BY <1>2, <1>3
<1>5. \A u \in 0 .. Len(cs) : ChainStep(cs, on, u)
  BY <1>4 DEF W, ChainStep
<1>6. \A t : Chain(cs, t) = on[t]
  BY <1>1, <1>3
<1>7. Len(cs) \in Nat /\ \A t \in 1 .. Len(cs) : t \in 0 .. Len(cs) /\ t # 0
  BY CodeType
<1>8. Chain(cs, 0) = {}
  <2>1. 0 \in 0 .. Len(cs)
    BY <1>7
  <2>2. ChainStep(cs, on, 0)
    BY <1>5, <2>1
  <2> QED BY <2>2, <1>6 DEF ChainStep
<1>9. ASSUME NEW t \in 1 .. Len(cs)
      PROVE  Chain(cs, t) = {t} \union IF cs[t].next < t THEN Chain(cs, cs[t].next) ELSE {}
  <2>1. ChainStep(cs, on, t) /\ t # 0
    BY <1>5, <1>7
  <2> QED BY <2>1, <1>6 DEF ChainStep
<1> QED BY <1>8, <1>9

(* A chain holds its newest jump, and older ones.                          *)
LEMMA ChainBelow ==
    ASSUME NEW cs \in Seq(Instruction), NEW t \in 0 .. Len(cs)
    PROVE  Chain(cs, t) \subseteq 1 .. t /\ (t # 0 => t \in Chain(cs, t))
<1> DEFINE N == Len(cs)
           I == {k \in 0 .. N : ~(Chain(cs, k) \subseteq 1 .. k)}
<1>0. N \in Nat /\ \A i \in 1 .. N : cs[i].next \in Nat
  BY CodeType
<1>1. ASSUME I # {} PROVE FALSE
  <2>0. I \subseteq Nat
    OBVIOUS
  <2> HIDE DEF I
  <2>1. PICK k \in I : \A j \in I : k <= j
    BY <2>0, <1>1, LeastNat
  <2>2. k \in 0 .. N /\ ~(Chain(cs, k) \subseteq 1 .. k)
    BY DEF I
  <2>3. k # 0
    BY <2>2, ChainIs
  <2>4. k \in 1 .. N /\ cs[k].next \in Nat
    BY <2>2, <2>3, <1>0
  <2>5. Chain(cs, k) = {k} \union IF cs[k].next < k THEN Chain(cs, cs[k].next) ELSE {}
    BY <2>4, ChainIs
  <2>6. cs[k].next < k => Chain(cs, cs[k].next) \subseteq 1 .. k
    <3> SUFFICES ASSUME cs[k].next < k PROVE Chain(cs, cs[k].next) \subseteq 1 .. k
      OBVIOUS
    <3>1. cs[k].next \in 0 .. N /\ ~(k <= cs[k].next)
      BY <2>4
    <3>2. Chain(cs, cs[k].next) \subseteq 1 .. cs[k].next
      BY <3>1, <2>1 DEF I
    <3> QED BY <3>1, <3>2, <2>4
  <2>7. k \in 1 .. k
    BY <2>4
  <2> QED BY <2>2, <2>5, <2>6, <2>7
<1>2. Chain(cs, t) \subseteq 1 .. t
  BY <1>1
<1>3. t # 0 => t \in Chain(cs, t)
  <2>1. t # 0 => t \in 1 .. N
    BY <1>0
  <2> QED BY <2>1, ChainIs
<1> QED BY <1>2, <1>3

(* From a jump of a chain the field leads to one of it, or up.             *)
LEMMA ChainClosed ==
    ASSUME NEW cs \in Seq(Instruction), NEW t \in 0 .. Len(cs), NEW i \in Chain(cs, t)
    PROVE  /\ i \in 1 .. Len(cs) /\ Chain(cs, i) \subseteq Chain(cs, t)
           /\ cs[i].next < i => Chain(cs, cs[i].next) \subseteq Chain(cs, t)
<1> DEFINE N == Len(cs)
           I == {k \in 0 .. N : i \in Chain(cs, k) /\ ~(Chain(cs, i) \subseteq Chain(cs, k))}
<1>0. N \in Nat /\ \A j \in 1 .. N : cs[j].next \in Nat
  BY CodeType
<1>1. i \in 1 .. N
  BY <1>0, ChainBelow
<1>2. ASSUME I # {} PROVE FALSE
  <2>0. I \subseteq Nat
    OBVIOUS
  <2> HIDE DEF I
  <2>1. PICK k \in I : \A j \in I : k <= j
    BY <2>0, <1>2, LeastNat
  <2>2. k \in 0 .. N /\ i \in Chain(cs, k) /\ ~(Chain(cs, i) \subseteq Chain(cs, k))
    BY DEF I
  <2>3. k # 0 /\ k # i
    BY <2>2, ChainIs
  <2>4. k \in 1 .. N /\ cs[k].next \in Nat
    BY <2>2, <2>3, <1>0
  <2>5. Chain(cs, k) = {k} \union IF cs[k].next < k THEN Chain(cs, cs[k].next) ELSE {}
    BY <2>4, ChainIs
  <2>6. cs[k].next < k /\ i \in Chain(cs, cs[k].next)
    BY <2>2, <2>3, <2>5
  <2>7. cs[k].next \in 0 .. N /\ ~(k <= cs[k].next)
    BY <2>4, <2>6
  <2>8. Chain(cs, i) \subseteq Chain(cs, cs[k].next)
    BY <2>6, <2>7, <2>1 DEF I
  <2> QED BY <2>2, <2>5, <2>6, <2>8
<1>3. Chain(cs, i) \subseteq Chain(cs, t)
  BY <1>2
<1>4. cs[i].next < i => Chain(cs, cs[i].next) \subseteq Chain(cs, i)
  BY <1>1, ChainIs
<1> QED BY <1>1, <1>3, <1>4

(* A chain is the same in code that agrees on the fields of its jumps.     *)
LEMMA ChainSame ==
    ASSUME NEW cs \in Seq(Instruction), NEW ds \in Seq(Instruction), NEW t \in 0 .. Len(cs),
           t <= Len(ds), \A i \in Chain(cs, t) : ds[i].next = cs[i].next
    PROVE  Chain(ds, t) = Chain(cs, t)
<1> DEFINE N == Len(cs)
           I == {k \in 0 .. N : k <= Len(ds) /\ Chain(cs, k) \subseteq Chain(cs, t)
                                /\ Chain(ds, k) # Chain(cs, k)}
<1>0. N \in Nat /\ Len(ds) \in Nat /\ \A j \in 1 .. N : cs[j].next \in Nat
  BY CodeType
<1>2. ASSUME I # {} PROVE FALSE
  <2>0. I \subseteq Nat
    OBVIOUS
  <2> HIDE DEF I
  <2>1. PICK k \in I : \A j \in I : k <= j
    BY <2>0, <1>2, LeastNat
  <2>2. k \in 0 .. N /\ k <= Len(ds) /\ Chain(cs, k) \subseteq Chain(cs, t)
        /\ Chain(ds, k) # Chain(cs, k)
    BY DEF I
  <2>3. k # 0
    BY <2>2, ChainIs
  <2>4. k \in 1 .. N /\ k \in 1 .. Len(ds) /\ cs[k].next \in Nat
    BY <2>2, <2>3, <1>0
  <2>5. Chain(cs, k) = {k} \union IF cs[k].next < k THEN Chain(cs, cs[k].next) ELSE {}
    BY <2>4, ChainIs
  <2>6. Chain(ds, k) = {k} \union IF ds[k].next < k THEN Chain(ds, ds[k].next) ELSE {}
    BY <2>4, ChainIs
  <2>7. ds[k].next = cs[k].next
    BY <2>2, <2>5
  <2>8. cs[k].next < k => Chain(ds, cs[k].next) = Chain(cs, cs[k].next)
    <3> SUFFICES ASSUME cs[k].next < k PROVE Chain(ds, cs[k].next) = Chain(cs, cs[k].next)
      OBVIOUS
    <3>1. cs[k].next \in 0 .. N /\ ~(k <= cs[k].next) /\ cs[k].next <= Len(ds)
      BY <2>4, <2>2
    <3>2. Chain(cs, cs[k].next) \subseteq Chain(cs, t)
      BY <2>2, <2>5
    <3> QED BY <3>1, <3>2, <2>1 DEF I
  <2> QED BY <2>2, <2>5, <2>6, <2>7, <2>8
<1> QED BY <1>2

(* The older jumps of a chain are on the chain of a newer one.             *)
LEMMA ChainLinear ==
    ASSUME NEW cs \in Seq(Instruction), NEW t \in 0 .. Len(cs),
           NEW k \in Chain(cs, t), NEW j \in Chain(cs, t), j <= k
    PROVE  j \in Chain(cs, k)
<1> DEFINE N == Len(cs)
           I == {u \in 0 .. N : k \in Chain(cs, u) /\ j \in Chain(cs, u)}
<1>0. N \in Nat /\ \A i \in 1 .. N : cs[i].next \in Nat
  BY CodeType
<1>1. I \subseteq Nat /\ t \in I
  OBVIOUS
<1> HIDE DEF I
<1>2. PICK u \in I : \A i \in I : u <= i
  BY <1>1, LeastNat
<1>3. u \in 0 .. N /\ k \in Chain(cs, u) /\ j \in Chain(cs, u)
  BY DEF I
<1>4. u # 0
  BY <1>3, ChainIs
<1>5. u \in 1 .. N /\ cs[u].next \in Nat
  BY <1>0, <1>3, <1>4
<1>6. Chain(cs, u) = {u} \union IF cs[u].next < u THEN Chain(cs, cs[u].next) ELSE {}
  BY <1>5, ChainIs
<1>7. CASE k = u
  BY <1>3, <1>7
<1>8. CASE k # u
  <2>1. cs[u].next < u /\ k \in Chain(cs, cs[u].next)
    BY <1>3, <1>6, <1>8
  <2>2. cs[u].next \in 0 .. N /\ ~(u <= cs[u].next)
    BY <1>5, <2>1
  <2>3. k \in 1 .. cs[u].next /\ k \in Nat
    BY <2>1, <2>2, ChainBelow
  <2>4. j # u
    BY <2>2, <2>3, <1>5
  <2>5. j \in Chain(cs, cs[u].next)
    BY <2>4, <1>3, <1>6
  <2>6. cs[u].next \in I
    BY <2>1, <2>2, <2>5 DEF I
  <2> QED BY <2>6, <2>2, <1>2
<1> QED BY <1>7, <1>8

(* The oldest jump of a chain, z, is put in front of chain t: the newest   *)
(* one leads to both.                                                      *)
Spliced(cs, ds, t, u, z) ==
    /\ z \in Chain(cs, u)
    /\ \A i \in Chain(cs, u) : z <= i /\ t < i /\ cs[i].next < i
    /\ \A i \in 1 .. Len(cs) : ds[i].next = IF i = z THEN t ELSE cs[i].next

(* The chain that u leads to then has the jumps of both (gtst, splice).    *)
LEMMA ChainSplice ==
    ASSUME NEW cs \in Seq(Instruction), NEW ds \in Seq(Instruction), Len(ds) = Len(cs),
           NEW t \in 0 .. Len(cs), NEW u \in 1 .. Len(cs), NEW z, Spliced(cs, ds, t, u, z)
    PROVE  Chain(ds, u) = Chain(cs, u) \union Chain(cs, t)
<1> DEFINE N == Len(cs)
           S == Chain(cs, u)
           I == {k \in S : Chain(ds, k) # Chain(cs, k) \union Chain(cs, t)}
<1>0. N \in Nat /\ u \in 0 .. N /\ \A i \in 1 .. N : cs[i].next \in Nat
  BY CodeType
<1>1. S \subseteq 1 .. N /\ S \subseteq Nat /\ u \in S /\ z \in S
  BY <1>0, ChainBelow DEF Spliced
<1>2. /\ \A i \in S : z <= i /\ t < i /\ cs[i].next < i
      /\ \A i \in 1 .. N : ds[i].next = IF i = z THEN t ELSE cs[i].next
  BY DEF Spliced
<1>3. Chain(ds, t) = Chain(cs, t)
  <2>1. Chain(cs, t) \subseteq 1 .. t
    BY ChainBelow
  <2>2. \A i \in Chain(cs, t) : i \in 1 .. N /\ i # z
    BY <2>1, <1>0, <1>1, <1>2
  <2>3. \A i \in Chain(cs, t) : ds[i].next = cs[i].next
    BY <1>2, <2>2
  <2>4. t <= Len(ds)
    BY <1>0
  <2> QED BY <2>3, <2>4, ChainSame
<1>4. ASSUME I # {} PROVE FALSE
  <2>0. I \subseteq Nat
    BY <1>1
  <2>1. PICK k \in I : \A j \in I : k <= j
    BY <2>0, <1>4, LeastNat
  <2>2. k \in S /\ k \in 1 .. N /\ Chain(ds, k) # Chain(cs, k) \union Chain(cs, t)
    BY <1>1
  <2>3. Chain(ds, k) = {k} \union IF ds[k].next < k THEN Chain(ds, ds[k].next) ELSE {}
    BY <2>2, ChainIs
  <2>4. Chain(cs, k) = {k} \union Chain(cs, cs[k].next)
    BY <2>2, <1>2, ChainIs
  <2>5. CASE k = z
    <3>1. ds[k].next = t /\ t < k
      BY <2>2, <2>5, <1>2
    <3>2. Chain(ds, k) = {k} \union Chain(cs, t)
      BY <3>1, <2>3, <1>3
    <3>3. Chain(cs, cs[k].next) = {}
      <4>1. cs[k].next \in Nat /\ cs[k].next < k
        BY <2>2, <1>0, <1>2
      <4>2. cs[k].next \in 0 .. N
        BY <4>1, <2>2, <1>0
      <4>3. Chain(cs, cs[k].next) \subseteq S
        BY <2>2, <4>1, <1>0, ChainClosed
      <4>4. ~(z <= cs[k].next)
        BY <4>1, <2>5, <1>1
      <4>5. cs[k].next \notin S
        BY <4>4, <1>2
      <4>6. cs[k].next = 0
        BY <4>2, <4>3, <4>5, ChainBelow
      <4> QED BY <4>6, ChainIs
    <3> QED BY <3>2, <3>3, <2>2, <2>4
  <2>6. CASE k # z
    <3>1. ds[k].next = cs[k].next /\ cs[k].next < k /\ cs[k].next \in Nat
      BY <2>2, <2>6, <1>0, <1>2
    <3>2. z \in Chain(cs, k)
      <4>1. z <= k
        BY <2>2, <1>2
      <4> QED BY <4>1, <2>2, <1>0, <1>1, ChainLinear
    <3>3. z \in Chain(cs, cs[k].next)
      BY <3>2, <2>4, <2>6
    <3>4. cs[k].next # 0 /\ cs[k].next \in 0 .. N
      BY <3>1, <3>3, <2>2, <1>0, ChainIs
    <3>5. cs[k].next \in S
      <4>1. Chain(cs, cs[k].next) \subseteq S
        BY <2>2, <3>1, <1>0, ChainClosed
      <4> QED BY <4>1, <3>4, ChainBelow
    <3>6. ~(k <= cs[k].next)
      BY <3>1, <2>2
    <3>7. Chain(ds, cs[k].next) = Chain(cs, cs[k].next) \union Chain(cs, t)
      BY <3>5, <3>6, <2>1
    <3> QED BY <3>1, <3>7, <2>2, <2>3, <2>4
  <2> QED BY <2>5, <2>6
<1>5. u \in S
  BY <1>1
<1> QED BY <1>4, <1>5

-----------------------------------------------------------------------------
(* Conditions: ds is cs and new instructions; those of chain t wait for m, *)
(* and the other ones that matter have arrived.                            *)
NewJumps(cs, ds, t, m) ==
    /\ cs \in Seq(Instruction) /\ ds \in Seq(Instruction) /\ Len(cs) <= Len(ds)
    /\ \A i \in 1 .. Len(cs) : ds[i] = cs[i]
    /\ t \in 0 .. Len(ds)
    /\ \A i \in Chain(ds, t) : i > Len(cs) /\ WaitsFor(ds, i, m)
    /\ \A i \in Len(cs) + 1 .. Len(ds) :
          i \in Chain(ds, t) \/ (ds[i].writes = 1 /\ ds[i].meant = 0)

(* A value of those that conditions leave; only jumps have a chain.        *)
Values == [r : {"jmp", "const", "cmp", "operand"}, x : Registers \union BOOLEAN,
           inv : BOOLEAN, t : Nat]
IsValue(v) ==
    /\ v \in Values /\ (v.r # "jmp" => v.t = 0)
    /\ (v.r \in {"cmp", "operand"} => v.x \in Registers)
    /\ (v.r = "const" => v.x \in BOOLEAN)

(* Code to which nothing was added has no new jump.                        *)
LEMMA NewNone ==
    ASSUME NEW cs \in Seq(Instruction), NEW m PROVE NewJumps(cs, cs, 0, m)
<1>1. Len(cs) \in Nat /\ Chain(cs, 0) = {}
  BY CodeType, ChainIs
<1>2. \A i \in Len(cs) + 1 .. Len(cs) : FALSE
  BY <1>1
<1> QED BY <1>1, <1>2 DEF NewJumps

(* A jump that is put in front of its chain.                               *)
IsJump(d, t, m) == d \in Instruction /\ d.op # "other" /\ d.next = t /\ d.meant = m /\ d.writes = 0

(* It waits for what it was given, and the rest of the code is as it was.  *)
LEMMA AppendedJump ==
    ASSUME NEW cs \in Seq(Instruction), NEW t \in 0 .. Len(cs), NEW m, NEW d, IsJump(d, t, m)
    PROVE  LET ds == Append(cs, d)
           IN  /\ ds \in Seq(Instruction) /\ Len(ds) = Len(cs) + 1
               /\ \A i \in 1 .. Len(cs) : ds[i] = cs[i]
               /\ ds[Len(cs) + 1] = d /\ WaitsFor(ds, Len(cs) + 1, m)
               /\ Chain(ds, Len(cs) + 1) = {Len(cs) + 1} \union Chain(cs, t)
               /\ \A u \in 0 .. Len(cs) : Chain(ds, u) = Chain(cs, u)
<1> DEFINE ds == Append(cs, d)
           n == Len(cs) + 1
<1>0. Len(cs) \in Nat /\ n \in Nat /\ t < n /\ n \in 1 .. n /\ t \in 0 .. n - 1
  BY CodeType
<1>1. /\ ds \in Seq(Instruction) /\ Len(ds) = n /\ ds[n] = d
      /\ \A i \in 1 .. Len(cs) : ds[i] = cs[i]
  BY DEF IsJump
<1>2. WaitsFor(ds, n, m)
  BY <1>0, <1>1 DEF WaitsFor, IsJump
<1>3. \A u \in 0 .. Len(cs) : Chain(ds, u) = Chain(cs, u)
  <2> TAKE u \in 0 .. Len(cs)
  <2>1. Chain(cs, u) \subseteq 1 .. Len(cs)
    BY ChainBelow, <1>0
  <2>2. \A i \in Chain(cs, u) : ds[i].next = cs[i].next
    BY <2>1, <1>1
  <2>3. u <= Len(ds)
    BY <1>0, <1>1
  <2> HIDE DEF ds
  <2> QED BY <2>2, <2>3, <1>1, ChainSame
<1>4. Chain(ds, n) = {n} \union Chain(cs, t)
  <2>1. ds[n].next = t /\ n \in 1 .. Len(ds)
    BY <1>0, <1>1 DEF IsJump
  <2> HIDE DEF ds
  <2>2. Chain(ds, n) = {n} \union IF ds[n].next < n THEN Chain(ds, ds[n].next) ELSE {}
    BY <2>1, <1>1, ChainIs
  <2> QED BY <2>1, <2>2, <1>0, <1>3
<1> QED BY <1>1, <1>2, <1>3, <1>4

(* Jumps that gtst makes.                                                  *)
LEMMA JumpMade ==
    ASSUME NEW t \in Nat, NEW m \in Nat
    PROVE  /\ IsJump(Instr("jmp", "", FALSE, t, m), t, m)
           /\ \A x \in Registers, inv \in BOOLEAN : IsJump(Instr("jcc", x, inv, t, m), t, m)
<1>1. IsJump(Instr("jmp", "", FALSE, t, m), t, m)
  BY DEF IsJump, Instr, Instruction, Registers
<1>2. ASSUME NEW x \in Registers, NEW inv \in BOOLEAN
      PROVE  IsJump(Instr("jcc", x, inv, t, m), t, m)
  <2>1. 0 \in Nat
    OBVIOUS
  <2> QED BY <2>1 DEF IsJump, Instr, Instruction
<1> QED BY <1>1, <1>2

(* gtst of a value that is not one of jumps.                               *)
LEMMA NewAppended ==
    ASSUME NEW cs, NEW bs, NEW t, NEW m, NewJumps(cs, bs, t, m), NEW d, IsJump(d, t, m)
    PROVE  NewJumps(cs, Append(bs, d), Len(bs) + 1, m)
<1>1. /\ cs \in Seq(Instruction) /\ bs \in Seq(Instruction) /\ Len(cs) <= Len(bs)
      /\ t \in 0 .. Len(bs) /\ Len(cs) \in Nat /\ Len(bs) \in Nat
  BY CodeType DEF NewJumps
<1>2. PICK ds : ds = Append(bs, d)
  OBVIOUS
<1>3. /\ ds \in Seq(Instruction) /\ Len(ds) = Len(bs) + 1
      /\ \A i \in 1 .. Len(bs) : ds[i] = bs[i]
      /\ ds[Len(bs) + 1] = d /\ WaitsFor(ds, Len(bs) + 1, m)
      /\ Chain(ds, Len(bs) + 1) = {Len(bs) + 1} \union Chain(bs, t)
  BY <1>1, <1>2, AppendedJump
<1>4. \A i \in Chain(bs, t) : i > Len(cs) /\ i \in 1 .. Len(bs) /\ WaitsFor(bs, i, m)
  <2>1. Chain(bs, t) \subseteq 1 .. Len(bs)
    BY <1>1, ChainBelow
  <2> QED BY <2>1 DEF NewJumps
<1>5. \A i \in Chain(ds, Len(bs) + 1) : i > Len(cs) /\ WaitsFor(ds, i, m)
  <2>1. \A i \in Chain(bs, t) : WaitsFor(ds, i, m)
    BY <1>3, <1>4 DEF WaitsFor
  <2> QED BY <2>1, <1>1, <1>3, <1>4
<1>6. \A i \in 1 .. Len(cs) : ds[i] = cs[i]
  BY <1>1, <1>3 DEF NewJumps
<1>7. ASSUME NEW i \in Len(cs) + 1 .. Len(ds), i \notin Chain(ds, Len(bs) + 1)
      PROVE  ds[i].writes = 1 /\ ds[i].meant = 0
  <2>1. i \in Len(cs) + 1 .. Len(bs) /\ i \in 1 .. Len(bs) /\ i \notin Chain(bs, t)
    BY <1>1, <1>3, <1>7
  <2> QED BY <2>1, <1>3 DEF NewJumps
<1>8. Len(bs) + 1 \in 0 .. Len(ds) /\ Len(cs) <= Len(ds)
  BY <1>1, <1>3
<1>9. NewJumps(cs, ds, Len(bs) + 1, m)
  BY <1>1, <1>3, <1>5, <1>6, <1>7, <1>8 DEF NewJumps
<1> QED BY <1>2, <1>9

(* es and n: the jumps of chain u of ds, put in front of chain t of bs.    *)
InFront(ds, u, bs, t, m, es, n) ==
    /\ es \in Seq(Instruction) /\ Len(es) = Len(ds) /\ n \in 0 .. Len(es)
    /\ Chain(es, n) = Chain(ds, u) \union Chain(bs, t)
    /\ \A i \in 1 .. Len(ds) :
          /\ es[i].op = ds[i].op /\ es[i].x = ds[i].x /\ es[i].inv = ds[i].inv
          /\ es[i].writes = ds[i].writes
          /\ i \notin Chain(ds, u) => es[i] = ds[i]
          /\ i \in Chain(ds, u) => es[i].meant = m /\ es[i].next \in 0 .. i - 1

(* What splice does.                                                       *)
LEMMA SpliceIs ==
    ASSUME NEW bs \in Seq(Instruction), NEW ds, NEW t \in 0 .. Len(bs), NEW m \in Nat, NEW v,
           NewJumps(bs, ds, v.t, 0)
    PROVE  LET r == splice(ds, v, t, m) IN InFront(ds, v.t, bs, t, m, r.code, r.t)
<1>1. PICK u : u = v.t
  OBVIOUS
<1> DEFINE S == Chain(ds, u)
<1>2. /\ ds \in Seq(Instruction) /\ Len(bs) \in Nat /\ Len(ds) \in Nat /\ Len(bs) <= Len(ds)
      /\ t \in 0 .. Len(ds) /\ u \in 0 .. Len(ds)
  <2>1. ds \in Seq(Instruction) /\ Len(bs) <= Len(ds) /\ u \in 0 .. Len(ds)
    BY <1>1 DEF NewJumps
  <2>2. Len(bs) \in Nat /\ Len(ds) \in Nat
    BY <2>1, CodeType
  <2> QED BY <2>1, <2>2
<1>3. \A i \in 1 .. Len(bs) : ds[i] = bs[i]
  BY DEF NewJumps
<1>4. \A i \in S : i > Len(bs) /\ WaitsFor(ds, i, 0)
  BY <1>1 DEF NewJumps
<1>5. S \subseteq 1 .. Len(ds) /\ \A i \in S : ds[i].next \in 0 .. i - 1
  <2>1. S \subseteq 1 .. Len(ds)
    BY <1>2, ChainBelow
  <2> QED BY <2>1, <1>4 DEF WaitsFor
<1>6. Chain(ds, t) = Chain(bs, t)
  <2>1. Chain(bs, t) \subseteq 1 .. Len(bs)
    BY <1>2, ChainBelow
  <2>2. \A i \in Chain(bs, t) : ds[i].next = bs[i].next
    BY <2>1, <1>3
  <2>3. t <= Len(ds)
    BY <1>2
  <2> QED BY <2>1, <2>2, <2>3, <1>2, ChainSame
<1>7. CASE u = 0
  <2>1. S = {}
    BY <1>2, <1>7, ChainIs
  <2>2. splice(ds, v, t, m).code = [i \in DOMAIN ds |-> ds[i]] /\ splice(ds, v, t, m).t = t
    BY <2>1, <1>1, <1>7 DEF splice
  <2>3. [i \in DOMAIN ds |-> ds[i]] = ds
    BY <1>2
  <2>4. Chain(ds, t) = S \union Chain(bs, t)
    BY <2>1, <1>6
  <2>5. InFront(ds, u, bs, t, m, ds, t)
    BY <2>1, <2>4, <1>2 DEF InFront
  <2> QED BY <2>2, <2>3, <2>5, <1>1
<1>8. CASE u # 0
  <2>1. u \in 1 .. Len(ds) /\ u \in S /\ S \subseteq Nat /\ S # {}
    BY <1>2, <1>5, <1>8, ChainBelow
  <2>2. PICK z : z \in S /\ z = Min(S) /\ \A i \in S : z <= i
    BY <2>1, LeastNat DEF Min
  <2>3. PICK es : es = [i \in 1 .. Len(ds) |->
              IF i \notin S THEN ds[i]
              ELSE [ds[i] EXCEPT !.meant = m, !.next = IF i = z THEN t ELSE @]]
    OBVIOUS
  <2>4. splice(ds, v, t, m).code = es /\ splice(ds, v, t, m).t = u
    <3>1. DOMAIN ds = 1 .. Len(ds)
      BY <1>2
    <3>2. splice(ds, v, t, m).code = [i \in DOMAIN ds |->
              IF i \notin S THEN ds[i]
              ELSE [ds[i] EXCEPT !.meant = m, !.next = IF i = Min(S) THEN t ELSE @]]
      BY <1>1 DEF splice
    <3>3. splice(ds, v, t, m).t = u
      BY <1>1, <1>8 DEF splice
    <3> QED BY <3>1, <3>2, <3>3, <2>2, <2>3
  <2>5. \A i \in 1 .. Len(ds) : ds[i] \in Instruction
    BY <1>2
  <2>6. \A i \in 1 .. Len(ds) :
           /\ es[i] \in Instruction /\ (i \notin S => es[i] = ds[i])
           /\ i \in S => /\ es[i].op = ds[i].op /\ es[i].x = ds[i].x /\ es[i].inv = ds[i].inv
                         /\ es[i].writes = ds[i].writes /\ es[i].meant = m
                         /\ es[i].next = IF i = z THEN t ELSE ds[i].next
    <3> TAKE i \in 1 .. Len(ds)
    <3>0. t \in Nat
      BY <1>2
    <3>1. PICK d \in Instruction : d = ds[i]
      BY <2>5
    <3>2. CASE i \in S
      <4>1. es[i] = [d EXCEPT !.meant = m, !.next = IF i = z THEN t ELSE @]
        BY <2>3, <3>1, <3>2
      <4> QED BY <4>1, <3>0, <3>1, <3>2 DEF Instruction
    <3>3. CASE i \notin S
      BY <2>3, <3>1, <3>3
    <3> QED BY <3>2, <3>3
  <2>7. es \in Seq(Instruction) /\ Len(es) = Len(ds)
    <3>1. es = [i \in 1 .. Len(ds) |-> es[i]]
      BY <2>3
    <3> QED BY <3>1, <2>6, <1>2
  <2>8. \A i \in S : z <= i /\ t < i /\ ds[i].next < i
    <3> TAKE i \in S
    <3>1. i \in 1 .. Len(ds) /\ i > Len(bs) /\ ds[i].next \in 0 .. i - 1
      BY <1>4, <1>5
    <3> QED BY <3>1, <2>2, <1>2
  <2>9. \A i \in 1 .. Len(ds) : es[i].next = IF i = z THEN t ELSE ds[i].next
    BY <2>2, <2>6
  <2>10. Chain(es, u) = S \union Chain(bs, t)
    <3>1. ds \in Seq(Instruction) /\ es \in Seq(Instruction) /\ Len(es) = Len(ds)
      BY <1>2, <2>7
    <3>2. t \in 0 .. Len(ds) /\ u \in 1 .. Len(ds) /\ z \in Chain(ds, u)
      BY <1>2, <2>1, <2>2
    <3>3. Spliced(ds, es, t, u, z)
      BY <3>2, <2>8, <2>9 DEF Spliced
    <3> QED BY <3>1, <3>2, <3>3, <1>6, ChainSplice
  <2>11. \A i \in S : es[i].next \in 0 .. i - 1
    <3> TAKE i \in S
    <3>1. i \in 1 .. Len(ds) /\ t < i /\ ds[i].next \in 0 .. i - 1 /\ t \in Nat
      BY <1>2, <1>5, <2>8
    <3> QED BY <3>1, <2>9
  <2>12. \A i \in 1 .. Len(ds) :
            /\ es[i].op = ds[i].op /\ es[i].x = ds[i].x /\ es[i].inv = ds[i].inv
            /\ es[i].writes = ds[i].writes
            /\ i \notin S => es[i] = ds[i]
            /\ i \in S => es[i].meant = m /\ es[i].next \in 0 .. i - 1
    BY <2>6, <2>11
  <2>13. InFront(ds, u, bs, t, m, es, u)
    BY <1>2, <2>7, <2>10, <2>12 DEF InFront
  <2> QED BY <2>4, <2>13, <1>1
<1> QED BY <1>7, <1>8

(* gtst of jumps the same way.                                             *)
LEMMA NewSpliced ==
    ASSUME NEW cs, NEW bs, NEW ds, NEW t, NEW m \in Nat, NEW v, NewJumps(cs, bs, t, m),
           NewJumps(bs, ds, v.t, 0)
    PROVE  LET r == splice(ds, v, t, m) IN NewJumps(cs, r.code, r.t, m)
<1>1. PICK u, es, n : u = v.t /\ es = splice(ds, v, t, m).code /\ n = splice(ds, v, t, m).t
  OBVIOUS
<1> DEFINE S == Chain(ds, u)
<1>2. /\ cs \in Seq(Instruction) /\ bs \in Seq(Instruction) /\ ds \in Seq(Instruction)
      /\ Len(cs) \in Nat /\ Len(bs) \in Nat /\ Len(ds) \in Nat
      /\ Len(cs) <= Len(bs) /\ Len(bs) <= Len(ds) /\ t \in 0 .. Len(bs) /\ u \in 0 .. Len(ds)
  <2>1. /\ cs \in Seq(Instruction) /\ bs \in Seq(Instruction) /\ ds \in Seq(Instruction)
        /\ Len(cs) <= Len(bs) /\ Len(bs) <= Len(ds) /\ t \in 0 .. Len(bs) /\ u \in 0 .. Len(ds)
    BY <1>1 DEF NewJumps
  <2>2. Len(cs) \in Nat /\ Len(bs) \in Nat /\ Len(ds) \in Nat
    BY <2>1, CodeType
  <2> QED BY <2>1, <2>2
<1>3. InFront(ds, u, bs, t, m, es, n)
  BY <1>1, <1>2, SpliceIs
<1>4. /\ es \in Seq(Instruction) /\ Len(es) = Len(ds) /\ n \in 0 .. Len(es)
      /\ Chain(es, n) = S \union Chain(bs, t)
      /\ \A i \in 1 .. Len(ds) :
            /\ es[i].op = ds[i].op /\ es[i].writes = ds[i].writes
            /\ i \notin S => es[i] = ds[i]
            /\ i \in S => es[i].meant = m /\ es[i].next \in 0 .. i - 1
  BY <1>3 DEF InFront
<1>5. /\ \A i \in 1 .. Len(bs) : ds[i] = bs[i]
      /\ \A i \in S : i > Len(bs) /\ WaitsFor(ds, i, 0)
      /\ \A i \in Len(bs) + 1 .. Len(ds) : i \in S \/ (ds[i].writes = 1 /\ ds[i].meant = 0)
  BY <1>1 DEF NewJumps
<1>6. /\ \A i \in Chain(bs, t) : i > Len(cs) /\ WaitsFor(bs, i, m)
      /\ \A i \in Len(cs) + 1 .. Len(bs) :
            i \in Chain(bs, t) \/ (bs[i].writes = 1 /\ bs[i].meant = 0)
      /\ \A i \in 1 .. Len(cs) : bs[i] = cs[i]
  BY DEF NewJumps
<1>7. Chain(bs, t) \subseteq 1 .. Len(bs) /\ S \subseteq Len(bs) + 1 .. Len(ds)
  <2>1. Chain(bs, t) \subseteq 1 .. Len(bs) /\ S \subseteq 1 .. Len(ds)
    BY <1>2, ChainBelow
  <2> QED BY <2>1, <1>2, <1>5
<1>8. \A i \in 1 .. Len(bs) : es[i] = bs[i]
  <2> TAKE i \in 1 .. Len(bs)
  <2>1. i \in 1 .. Len(ds) /\ i \notin S
    BY <1>2, <1>7
  <2> QED BY <2>1, <1>4, <1>5
<1>9. ASSUME NEW i \in S PROVE i > Len(cs) /\ WaitsFor(es, i, m)
  <2>1. i \in 1 .. Len(ds) /\ i > Len(cs)
    BY <1>2, <1>7
  <2> QED BY <2>1, <1>4, <1>5 DEF WaitsFor
<1>10. ASSUME NEW i \in Chain(bs, t) PROVE i > Len(cs) /\ WaitsFor(es, i, m)
  <2>1. es[i] = bs[i]
    BY <1>7, <1>8
  <2> QED BY <2>1, <1>6 DEF WaitsFor
<1>11. \A i \in Len(cs) + 1 .. Len(es) :
          i \in Chain(es, n) \/ (es[i].writes = 1 /\ es[i].meant = 0)
  <2> TAKE i \in Len(cs) + 1 .. Len(es)
  <2>1. CASE i <= Len(bs)
    <3>1. i \in Len(cs) + 1 .. Len(bs) /\ i \in 1 .. Len(bs)
      BY <2>1, <1>2
    <3> QED BY <3>1, <1>4, <1>6, <1>8
  <2>2. CASE ~(i <= Len(bs))
    <3>1. i \in Len(bs) + 1 .. Len(ds) /\ i \in 1 .. Len(ds)
      BY <2>2, <1>2, <1>4
    <3> QED BY <3>1, <1>4, <1>5
  <2> QED BY <2>1, <2>2
<1>12. \A i \in 1 .. Len(cs) : es[i] = cs[i]
  <2> TAKE i \in 1 .. Len(cs)
  <2>1. i \in 1 .. Len(bs)
    BY <1>2
  <2> QED BY <2>1, <1>6, <1>8
<1>13. NewJumps(cs, es, n, m)
  BY <1>2, <1>4, <1>9, <1>10, <1>11, <1>12 DEF NewJumps
<1> QED BY <1>1, <1>13

(* gsym_addr writes the fields of a chain, and nothing else.               *)
LEMMA Patches ==
    ASSUME NEW cs \in Seq(Instruction), NEW t \in 0 .. Len(cs), NEW a \in Nat
    PROVE  LET es == gsym_addr(cs, t, a)
           IN  /\ es \in Seq(Instruction) /\ Len(es) = Len(cs)
               /\ \A i \in 1 .. Len(cs) :
                     /\ i \notin Chain(cs, t) => es[i] = cs[i]
                     /\ i \in Chain(cs, t) =>
                           /\ es[i].op = cs[i].op /\ es[i].x = cs[i].x
                           /\ es[i].inv = cs[i].inv /\ es[i].meant = cs[i].meant
                           /\ es[i].next = a /\ es[i].writes = cs[i].writes + 1
<1>1. PICK S : S = Chain(cs, t)
  OBVIOUS
<1>2. PICK es : es = gsym_addr(cs, t, a)
  OBVIOUS
<1>3. DOMAIN cs = 1 .. Len(cs) /\ Len(cs) \in Nat /\ \A i \in 1 .. Len(cs) : cs[i] \in Instruction
  BY CodeType
<1>4. es = [i \in 1 .. Len(cs) |->
              IF i \in S THEN [cs[i] EXCEPT !.next = a, !.writes = @ + 1] ELSE cs[i]]
  BY <1>1, <1>2, <1>3 DEF gsym_addr
<1>5. ASSUME NEW i \in 1 .. Len(cs)
      PROVE  /\ es[i] \in Instruction /\ (i \notin S => es[i] = cs[i])
             /\ i \in S => /\ es[i].op = cs[i].op /\ es[i].x = cs[i].x
                           /\ es[i].inv = cs[i].inv /\ es[i].meant = cs[i].meant
                           /\ es[i].next = a /\ es[i].writes = cs[i].writes + 1
  <2>1. PICK d \in Instruction : d = cs[i]
    BY <1>3
  <2>2. CASE i \in S
    <3>1. es[i] = [d EXCEPT !.next = a, !.writes = @ + 1]
      BY <1>4, <2>1, <2>2
    <3>2. PICK w \in Nat : w = d.writes + 1
      BY DEF Instruction
    <3>3. es[i] = [d EXCEPT !.next = a, !.writes = w]
      BY <3>1, <3>2
    <3> QED BY <3>2, <3>3, <2>1, <2>2 DEF Instruction
  <2>3. CASE i \notin S
    BY <1>4, <2>1, <2>3
  <2> QED BY <2>2, <2>3
<1>6. es \in Seq(Instruction) /\ Len(es) = Len(cs)
  <2>1. es = [i \in 1 .. Len(cs) |-> es[i]]
    BY <1>4
  <2> QED BY <2>1, <1>3, <1>5
<1> QED BY <1>1, <1>2, <1>5, <1>6

(* es: ds with a jump of chain t of bs behind it, over which the jumps of  *)
(* chain u go.                                                             *)
GoneOver(ds, u, bs, t, m, es) ==
    /\ es \in Seq(Instruction) /\ Len(es) = Len(ds) + 1
    /\ Chain(es, Len(ds) + 1) = {Len(ds) + 1} \union Chain(bs, t)
    /\ es[Len(ds) + 1].op = "jmp" /\ WaitsFor(es, Len(ds) + 1, m)
    /\ \A i \in 1 .. Len(ds) :
          /\ es[i].op = ds[i].op /\ es[i].x = ds[i].x /\ es[i].inv = ds[i].inv
          /\ es[i].meant = ds[i].meant
          /\ i \notin Chain(ds, u) => es[i] = ds[i]
          /\ i \in Chain(ds, u) => es[i].next = Len(ds) + 2 /\ es[i].writes = ds[i].writes + 1

(* What gjmp and gsym do.                                                  *)
LEMMA OverIs ==
    ASSUME NEW bs \in Seq(Instruction), NEW ds, NEW t \in 0 .. Len(bs), NEW m \in Nat, NEW u,
           NewJumps(bs, ds, u, 0)
    PROVE  GoneOver(ds, u, bs, t, m, gsym(gjmp(ds, t, m), u))
<1>1. PICK n : n = Len(ds) + 1
  OBVIOUS
<1>2. /\ ds \in Seq(Instruction) /\ Len(bs) \in Nat /\ Len(ds) \in Nat /\ Len(bs) <= Len(ds)
      /\ t \in 0 .. Len(ds) /\ t \in Nat /\ u \in 0 .. Len(ds)
  <2>1. ds \in Seq(Instruction) /\ Len(bs) <= Len(ds) /\ u \in 0 .. Len(ds)
    BY DEF NewJumps
  <2>2. Len(bs) \in Nat /\ Len(ds) \in Nat
    BY <2>1, CodeType
  <2> QED BY <2>1, <2>2
<1>3. \A i \in 1 .. Len(bs) : ds[i] = bs[i]
  BY DEF NewJumps
<1>4. Chain(bs, t) \subseteq 1 .. Len(bs) /\ Chain(ds, t) = Chain(bs, t)
  <2>1. Chain(bs, t) \subseteq 1 .. Len(bs)
    BY <1>2, ChainBelow
  <2>2. \A i \in Chain(bs, t) : ds[i].next = bs[i].next
    BY <2>1, <1>3
  <2>3. t <= Len(ds)
    BY <1>2
  <2> QED BY <2>1, <2>2, <2>3, <1>2, ChainSame
<1>5. Chain(ds, u) \subseteq Len(bs) + 1 .. Len(ds)
  <2>1. Chain(ds, u) \subseteq 1 .. Len(ds)
    BY <1>2, ChainBelow
  <2>2. \A i \in Chain(ds, u) : i > Len(bs)
    BY DEF NewJumps
  <2> QED BY <2>1, <2>2, <1>2
<1>6. PICK d : d = Instr("jmp", "", FALSE, t, m)
  OBVIOUS
<1>7. PICK js : js = gjmp(ds, t, m)
  OBVIOUS
<1>8. /\ js \in Seq(Instruction) /\ Len(js) = n
      /\ \A i \in 1 .. Len(ds) : js[i] = ds[i]
      /\ js[n] = d /\ WaitsFor(js, n, m) /\ Chain(js, n) = {n} \union Chain(bs, t)
      /\ Chain(js, u) = Chain(ds, u)
  <2>1. IsJump(d, t, m)
    BY <1>2, <1>6, JumpMade
  <2>2. js = Append(ds, d)
    BY <1>6, <1>7 DEF gjmp
  <2> QED BY <2>1, <2>2, <1>1, <1>2, <1>4, AppendedJump
<1>9. PICK es : es = gsym(js, u)
  OBVIOUS
<1>10. /\ es \in Seq(Instruction) /\ Len(es) = n
       /\ \A i \in 1 .. n :
             /\ i \notin Chain(ds, u) => es[i] = js[i]
             /\ i \in Chain(ds, u) =>
                   /\ es[i].op = js[i].op /\ es[i].x = js[i].x /\ es[i].inv = js[i].inv
                   /\ es[i].meant = js[i].meant /\ es[i].writes = js[i].writes + 1
                   /\ es[i].next = n + 1
  <2>1. n + 1 \in Nat /\ u \in 0 .. Len(js)
    BY <1>1, <1>2, <1>8
  <2>2. PICK a : a = n + 1
    OBVIOUS
  <2>3. es = gsym_addr(js, u, a)
    BY <1>8, <1>9, <2>2 DEF gsym, ind
  <2> QED BY <2>1, <2>2, <2>3, <1>8, Patches
<1>11. \A i \in Chain(js, n) : i \in 1 .. n /\ i \notin Chain(ds, u) /\ es[i] = js[i]
  <2> TAKE i \in Chain(js, n)
  <2>1. i \in 1 .. n /\ i \notin Chain(ds, u)
    BY <1>1, <1>2, <1>4, <1>5, <1>8
  <2> QED BY <2>1, <1>10
<1>12. Chain(es, n) = {n} \union Chain(bs, t)
  <2>1. n \in 0 .. Len(js) /\ n <= Len(es)
    BY <1>1, <1>2, <1>8, <1>10
  <2>2. \A i \in Chain(js, n) : es[i].next = js[i].next
    BY <1>11
  <2> QED BY <2>1, <2>2, <1>8, <1>10, ChainSame
<1>13. es[n].op = "jmp" /\ WaitsFor(es, n, m)
  <2>1. es[n] = js[n]
    BY <1>8, <1>11
  <2>2. d.op = "jmp"
    BY <1>6 DEF Instr
  <2> QED BY <2>1, <2>2, <1>8 DEF WaitsFor
<1>14. \A i \in 1 .. Len(ds) :
          /\ es[i].op = ds[i].op /\ es[i].x = ds[i].x /\ es[i].inv = ds[i].inv
          /\ es[i].meant = ds[i].meant
          /\ i \notin Chain(ds, u) => es[i] = ds[i]
          /\ i \in Chain(ds, u) => es[i].next = n + 1 /\ es[i].writes = ds[i].writes + 1
  <2> TAKE i \in 1 .. Len(ds)
  <2>1. i \in 1 .. n /\ js[i] = ds[i]
    BY <1>1, <1>2, <1>8
  <2> QED BY <2>1, <1>10
<1>15. n + 1 = Len(ds) + 2
  BY <1>1, <1>2
<1>16. GoneOver(ds, u, bs, t, m, es)
  BY <1>1, <1>10, <1>12, <1>13, <1>14, <1>15 DEF GoneOver
<1> QED BY <1>7, <1>9, <1>16

(* gtst of jumps the other way: they go behind a jump of the chain.        *)
LEMMA NewOver ==
    ASSUME NEW cs, NEW bs, NEW ds, NEW t, NEW m \in Nat, NEW u, NewJumps(cs, bs, t, m),
           NewJumps(bs, ds, u, 0)
    PROVE  NewJumps(cs, gsym(gjmp(ds, t, m), u), Len(ds) + 1, m)
<1>1. PICK n, es : n = Len(ds) + 1 /\ es = gsym(gjmp(ds, t, m), u)
  OBVIOUS
<1>2. /\ cs \in Seq(Instruction) /\ bs \in Seq(Instruction) /\ ds \in Seq(Instruction)
      /\ Len(cs) \in Nat /\ Len(bs) \in Nat /\ Len(ds) \in Nat
      /\ Len(cs) <= Len(bs) /\ Len(bs) <= Len(ds) /\ t \in 0 .. Len(bs) /\ u \in 0 .. Len(ds)
  <2>1. /\ cs \in Seq(Instruction) /\ bs \in Seq(Instruction) /\ ds \in Seq(Instruction)
        /\ Len(cs) <= Len(bs) /\ Len(bs) <= Len(ds) /\ t \in 0 .. Len(bs) /\ u \in 0 .. Len(ds)
    BY DEF NewJumps
  <2>2. Len(cs) \in Nat /\ Len(bs) \in Nat /\ Len(ds) \in Nat
    BY <2>1, CodeType
  <2> QED BY <2>1, <2>2
<1>3. GoneOver(ds, u, bs, t, m, es)
  BY <1>1, <1>2, OverIs
<1>4. /\ es \in Seq(Instruction) /\ Len(es) = n
      /\ Chain(es, n) = {n} \union Chain(bs, t) /\ WaitsFor(es, n, m)
      /\ \A i \in 1 .. Len(ds) :
            /\ es[i].meant = ds[i].meant
            /\ i \notin Chain(ds, u) => es[i] = ds[i]
            /\ i \in Chain(ds, u) => es[i].writes = ds[i].writes + 1
  BY <1>1, <1>3 DEF GoneOver
<1>5. /\ \A i \in 1 .. Len(bs) : ds[i] = bs[i]
      /\ \A i \in Chain(ds, u) : i > Len(bs) /\ WaitsFor(ds, i, 0)
      /\ \A i \in Len(bs) + 1 .. Len(ds) :
            i \in Chain(ds, u) \/ (ds[i].writes = 1 /\ ds[i].meant = 0)
  BY DEF NewJumps
<1>6. /\ \A i \in Chain(bs, t) : i > Len(cs) /\ WaitsFor(bs, i, m)
      /\ \A i \in Len(cs) + 1 .. Len(bs) :
            i \in Chain(bs, t) \/ (bs[i].writes = 1 /\ bs[i].meant = 0)
      /\ \A i \in 1 .. Len(cs) : bs[i] = cs[i]
  BY DEF NewJumps
<1>7. \A i \in 1 .. Len(bs) : i \in 1 .. Len(ds) /\ es[i] = bs[i]
  <2> TAKE i \in 1 .. Len(bs)
  <2>1. i \in 1 .. Len(ds) /\ i \notin Chain(ds, u)
    BY <1>2, <1>5
  <2> QED BY <2>1, <1>4, <1>5
<1>8. ASSUME NEW i \in Chain(es, n) PROVE i > Len(cs) /\ WaitsFor(es, i, m)
  <2>1. CASE i = n
    BY <2>1, <1>1, <1>2, <1>4
  <2>2. CASE i \in Chain(bs, t)
    <3>1. i \in 1 .. Len(bs)
      BY <2>2, <1>2, ChainBelow
    <3>2. es[i] = bs[i]
      BY <3>1, <1>7
    <3> QED BY <3>2, <2>2, <1>6 DEF WaitsFor
  <2> QED BY <2>1, <2>2, <1>4
<1>9. ASSUME NEW i \in Len(cs) + 1 .. Len(es), i \notin Chain(es, n)
      PROVE  es[i].writes = 1 /\ es[i].meant = 0
  <2>1. i \in 1 .. Len(ds) /\ i \notin Chain(bs, t)
    BY <1>1, <1>2, <1>4, <1>9
  <2>2. CASE i \in Chain(ds, u)
    <3>1. ds[i].writes = 0 /\ ds[i].meant = 0
      BY <2>2, <1>5 DEF WaitsFor
    <3>2. es[i].meant = ds[i].meant /\ es[i].writes = ds[i].writes + 1
      BY <2>1, <2>2, <1>4
    <3> QED BY <3>1, <3>2
  <2>3. CASE i \notin Chain(ds, u) /\ i <= Len(bs)
    <3>1. i \in Len(cs) + 1 .. Len(bs) /\ i \in 1 .. Len(bs)
      BY <2>3, <1>2
    <3> QED BY <3>1, <2>1, <1>6, <1>7
  <2>4. CASE i \notin Chain(ds, u) /\ ~(i <= Len(bs))
    <3>1. i \in Len(bs) + 1 .. Len(ds)
      BY <2>1, <2>4, <1>2
    <3> QED BY <3>1, <2>1, <2>4, <1>4, <1>5
  <2> QED BY <2>2, <2>3, <2>4
<1>10. \A i \in 1 .. Len(cs) : es[i] = cs[i]
  <2> TAKE i \in 1 .. Len(cs)
  <2>1. i \in 1 .. Len(bs)
    BY <1>2
  <2> QED BY <2>1, <1>6, <1>7
<1>11. n \in 0 .. Len(es) /\ Len(cs) <= Len(es)
  BY <1>1, <1>2, <1>4
<1>12. NewJumps(cs, es, n, m)
  BY <1>2, <1>4, <1>8, <1>9, <1>10, <1>11 DEF NewJumps
<1> QED BY <1>1, <1>12

(* Jumps that are added to those of a chain.                               *)
LEMMA NewOn ==
    ASSUME NEW cs, NEW bs, NEW ds, NEW t, NEW m, NewJumps(cs, bs, t, m), NewJumps(bs, ds, 0, 0)
    PROVE  NewJumps(cs, ds, t, m)
<1>1. /\ cs \in Seq(Instruction) /\ bs \in Seq(Instruction) /\ ds \in Seq(Instruction)
      /\ Len(cs) <= Len(bs) /\ Len(bs) <= Len(ds) /\ t \in 0 .. Len(bs)
  BY DEF NewJumps
<1>2. Len(cs) \in Nat /\ Len(bs) \in Nat /\ Len(ds) \in Nat
  BY <1>1, CodeType
<1>3. Chain(ds, 0) = {}
  BY <1>1, ChainIs
<1>4. /\ \A i \in 1 .. Len(bs) : ds[i] = bs[i]
      /\ \A i \in Len(bs) + 1 .. Len(ds) : ds[i].writes = 1 /\ ds[i].meant = 0
  BY <1>3 DEF NewJumps
<1>5. Chain(bs, t) \subseteq 1 .. Len(bs) /\ Chain(ds, t) = Chain(bs, t)
  <2>1. Chain(bs, t) \subseteq 1 .. Len(bs)
    BY <1>1, <1>2, ChainBelow
  <2>2. \A i \in Chain(bs, t) : ds[i].next = bs[i].next
    BY <2>1, <1>4
  <2>3. t <= Len(ds)
    BY <1>1, <1>2
  <2> QED BY <2>1, <2>2, <2>3, <1>1, ChainSame
<1>6. ASSUME NEW i \in Chain(ds, t) PROVE i > Len(cs) /\ WaitsFor(ds, i, m)
  <2>1. i > Len(cs) /\ WaitsFor(bs, i, m) /\ ds[i] = bs[i]
    BY <1>4, <1>5 DEF NewJumps
  <2> QED BY <2>1 DEF WaitsFor
<1>7. ASSUME NEW i \in Len(cs) + 1 .. Len(ds), i \notin Chain(ds, t)
      PROVE  ds[i].writes = 1 /\ ds[i].meant = 0
  <2>1. CASE i <= Len(bs)
    <3>1. i \in Len(cs) + 1 .. Len(bs) /\ i \in 1 .. Len(bs)
      BY <2>1, <1>2
    <3> QED BY <3>1, <1>4, <1>5, <1>7 DEF NewJumps
  <2>2. CASE ~(i <= Len(bs))
    <3>1. i \in Len(bs) + 1 .. Len(ds)
      BY <2>2, <1>2
    <3> QED BY <3>1, <1>4
  <2> QED BY <2>1, <2>2
<1>8. \A i \in 1 .. Len(cs) : ds[i] = cs[i]
  <2> TAKE i \in 1 .. Len(cs)
  <2>1. i \in 1 .. Len(bs)
    BY <1>1, <1>2
  <2> QED BY <2>1, <1>4 DEF NewJumps
<1>9. t \in 0 .. Len(ds) /\ Len(cs) <= Len(ds)
  BY <1>1, <1>2
<1> QED BY <1>1, <1>6, <1>7, <1>8, <1>9 DEF NewJumps

(* gtst: a value that is tested after chain t has got its jumps.           *)
LEMMA NewTest ==
    ASSUME NEW cs, NEW bs, NEW ds, NEW t, NEW m \in Nat, NEW v, NEW inv \in BOOLEAN, IsValue(v),
           NewJumps(cs, bs, t, m), NewJumps(bs, ds, v.t, 0)
    PROVE  LET r == gtst(ds, v, inv, t, m) IN NewJumps(cs, r.code, r.t, m)
<1>1. v.r \in {"jmp", "const", "cmp", "operand"} /\ v.inv \in BOOLEAN
  BY DEF IsValue, Values
<1>2. CASE v.r = "jmp" /\ v.inv = inv
  <2>1. gtst(ds, v, inv, t, m) = splice(ds, v, t, m)
    BY <1>2 DEF gtst
  <2> QED BY <2>1, NewSpliced
<1>3. CASE v.r = "jmp" /\ v.inv # inv
  <2>1. gtst(ds, v, inv, t, m) = [code |-> gsym(gjmp(ds, t, m), v.t), t |-> Len(ds) + 1]
    BY <1>3 DEF gtst, ind
  <2>2. PICK u : u = v.t
    OBVIOUS
  <2>3. NewJumps(bs, ds, u, 0)
    BY <2>2
  <2>4. NewJumps(cs, gsym(gjmp(ds, t, m), u), Len(ds) + 1, m)
    BY <2>3, NewOver
  <2> QED BY <2>1, <2>2, <2>4
<1>4. CASE v.r # "jmp"
  <2>1. v.t = 0
    BY <1>4 DEF IsValue
  <2>2. NewJumps(cs, ds, t, m)
    BY <2>1, NewOn
  <2>3. t \in Nat
    <3>1. t \in 0 .. Len(ds) /\ ds \in Seq(Instruction)
      BY <2>2 DEF NewJumps
    <3> QED BY <3>1, CodeType
  <2>4. ASSUME NEW d, IsJump(d, t, m),
               gtst(ds, v, inv, t, m) = [code |-> Append(ds, d), t |-> Len(ds) + 1]
        PROVE  LET r == gtst(ds, v, inv, t, m) IN NewJumps(cs, r.code, r.t, m)
    <3>1. PICK es : es = Append(ds, d)
      OBVIOUS
    <3>2. NewJumps(cs, es, Len(ds) + 1, m)
      BY <2>2, <2>4, <3>1, NewAppended
    <3>3. gtst(ds, v, inv, t, m) = [code |-> es, t |-> Len(ds) + 1]
      BY <2>4, <3>1
    <3> QED BY <3>2, <3>3
  <2>5. CASE v.r = "const" /\ v.x # inv
    <3>1. PICK d : d = Instr("jmp", "", FALSE, t, m)
      OBVIOUS
    <3>2. gtst(ds, v, inv, t, m) = [code |-> Append(ds, d), t |-> Len(ds) + 1]
      BY <2>5, <3>1 DEF gtst, Jump, gjmp, ind
    <3>3. IsJump(d, t, m)
      BY <2>3, <3>1, JumpMade
    <3> QED BY <3>2, <3>3, <2>4
  <2>6. CASE v.r = "const" /\ v.x = inv
    <3>1. gtst(ds, v, inv, t, m) = [code |-> ds, t |-> t]
      BY <2>6 DEF gtst
    <3> QED BY <3>1, <2>2
  <2>7. CASE v.r # "const"
    <3>1. PICK x, i : x = v.x /\ i = (v.inv # inv)
      OBVIOUS
    <3>2. PICK d : d = Instr("jcc", x, i, t, m)
      OBVIOUS
    <3>3. gtst(ds, v, inv, t, m) = [code |-> Append(ds, d), t |-> Len(ds) + 1]
      BY <1>4, <2>7, <3>1, <3>2 DEF gtst, ind
    <3>4. x \in Registers
      BY <1>1, <1>4, <2>7, <3>1 DEF IsValue
    <3>5. i \in BOOLEAN
      BY <3>1
    <3>6. IsJump(d, t, m)
      BY <2>3, <3>2, <3>4, <3>5, JumpMade
    <3> QED BY <3>3, <3>6, <2>4
  <2> QED BY <2>5, <2>6, <2>7
<1> QED BY <1>1, <1>2, <1>3, <1>4

(* A condition that was generated behind cs.                               *)
Fresh(cs, g) ==
    /\ g \in [code : Seq(Instruction), v : Values] /\ IsValue(g.v)
    /\ NewJumps(cs, g.code, g.v.t, 0)
    /\ g.v.r # "jmp" => g.code = cs

(* An operand of a condition adds no instruction.                          *)
LEMMA LeafFresh ==
    ASSUME NEW cs \in Seq(Instruction), NEW e \in Simple PROVE Fresh(cs, Leaf(cs, e))
<1>1. /\ e.op \in {"operand", "cmp", "const"}
      /\ e.op = "const" => e.x \in BOOLEAN
      /\ e.op # "const" => e.x \in Operands
  BY DEF Simple
<1>2. PICK v : v = Value(e.op, e.x, FALSE, 0)
  OBVIOUS
<1>3. v.r = e.op /\ v.x = e.x /\ v.t = 0
  BY <1>2 DEF Value
<1>4. e.x \in Registers \union BOOLEAN
  BY <1>1 DEF Registers
<1>5. v \in Values
  BY <1>1, <1>2, <1>4 DEF Value, Values
<1>6. IsValue(v)
  BY <1>1, <1>3, <1>5 DEF IsValue, Registers
<1>7. Leaf(cs, e) = [code |-> cs, v |-> v]
  BY <1>2 DEF Leaf
<1>8. NewJumps(cs, cs, v.t, 0)
  BY <1>3, NewNone
<1> QED BY <1>5, <1>6, <1>7, <1>8 DEF Fresh

(* "!" changes the value only.                                             *)
LEMMA NotFresh ==
    ASSUME NEW cs, NEW p, Fresh(cs, p) PROVE Fresh(cs, not(p))
<1>1. PICK ds, v : p = [code |-> ds, v |-> v]
  BY DEF Fresh
<1>2. /\ ds \in Seq(Instruction) /\ v \in Values /\ IsValue(v) /\ NewJumps(cs, ds, v.t, 0)
      /\ v.r # "jmp" => ds = cs
  BY <1>1 DEF Fresh
<1>3. CASE v.r = "const"
  <2>1. not(p) = [code |-> ds, v |-> [v EXCEPT !.x = ~@]]
    BY <1>1, <1>3 DEF not
  <2>2. PICK w : w = [v EXCEPT !.x = ~@]
    OBVIOUS
  <2>3. w.r = v.r /\ w.t = v.t
    BY <1>2, <2>2 DEF Values
  <2>4. PICK x : x = ~v.x
    OBVIOUS
  <2>5. x \in BOOLEAN
    BY <2>4
  <2>6. w = [v EXCEPT !.x = x]
    BY <2>2, <2>4
  <2>7. w \in Values /\ w.x = x
    BY <1>2, <2>5, <2>6 DEF Values
  <2>8. IsValue(w)
    BY <1>2, <1>3, <2>3, <2>5, <2>7 DEF IsValue
  <2>9. not(p) = [code |-> ds, v |-> w]
    BY <2>1, <2>2
  <2>10. NewJumps(cs, ds, w.t, 0) /\ (w.r # "jmp" => ds = cs) /\ ds \in Seq(Instruction)
    BY <1>2, <2>3
  <2> QED BY <2>7, <2>8, <2>9, <2>10 DEF Fresh
<1>4. CASE v.r = "cmp"
  <2>1. not(p) = [code |-> ds, v |-> [v EXCEPT !.inv = ~@]]
    BY <1>1, <1>4 DEF not
  <2>2. PICK w : w = [v EXCEPT !.inv = ~@]
    OBVIOUS
  <2>3. w.r = v.r /\ w.t = v.t /\ w.x = v.x
    BY <1>2, <2>2 DEF Values
  <2>4. PICK x : x = ~v.inv
    OBVIOUS
  <2>5. x \in BOOLEAN
    BY <2>4
  <2>6. w = [v EXCEPT !.inv = x]
    BY <2>2, <2>4
  <2>7. w \in Values
    BY <1>2, <2>5, <2>6 DEF Values
  <2>8. IsValue(w)
    BY <1>2, <1>4, <2>3, <2>7 DEF IsValue
  <2>9. not(p) = [code |-> ds, v |-> w]
    BY <2>1, <2>2
  <2>10. NewJumps(cs, ds, w.t, 0) /\ (w.r # "jmp" => ds = cs) /\ ds \in Seq(Instruction)
    BY <1>2, <2>3
  <2> QED BY <2>7, <2>8, <2>9, <2>10 DEF Fresh
<1>5. CASE v.r \notin {"const", "cmp"}
  <2>1. PICK r : r = gtst(ds, v, TRUE, 0, 0)
    OBVIOUS
  <2>2. PICK es, t : es = r.code /\ t = r.t
    OBVIOUS
  <2>3. PICK w : w = Value("jmp", "", FALSE, t)
    OBVIOUS
  <2>4. not(p) = [code |-> es, v |-> w]
    BY <1>1, <1>5, <2>1, <2>2, <2>3 DEF not
  <2>5. cs \in Seq(Instruction)
    BY <1>2 DEF NewJumps
  <2>6. NewJumps(cs, es, t, 0)
    <3>1. NewJumps(cs, cs, 0, 0)
      BY <2>5, NewNone
    <3>2. 0 \in Nat /\ TRUE \in BOOLEAN
      OBVIOUS
    <3> QED BY <3>1, <3>2, <1>2, <2>1, <2>2, NewTest
  <2>7. es \in Seq(Instruction) /\ t \in Nat
    <3>1. es \in Seq(Instruction) /\ t \in 0 .. Len(es)
      BY <2>6 DEF NewJumps
    <3> QED BY <3>1, CodeType
  <2>8. w.r = "jmp" /\ w.t = t
    BY <2>3 DEF Value
  <2>9. w \in Values
    BY <2>3, <2>7 DEF Value, Values, Registers
  <2>10. IsValue(w)
    BY <2>8, <2>9 DEF IsValue
  <2> QED BY <2>4, <2>6, <2>7, <2>8, <2>9, <2>10 DEF Fresh
<1> QED BY <1>3, <1>4, <1>5

(* What the operands of && and || have been tested with so far.            *)
Tested(cs) == {s \in [code : Seq(Instruction), t : Nat] : NewJumps(cs, s.code, s.t, 0)}

(* Before the first operand, nothing.                                      *)
LEMMA TestedFirst ==
    ASSUME NEW cs \in Seq(Instruction) PROVE [code |-> cs, t |-> 0] \in Tested(cs)
<1>1. NewJumps(cs, cs, 0, 0)
  BY NewNone
<1> QED BY <1>1 DEF Tested

(* After one operand more, its jumps too (expr_land, expr_lor).            *)
LEMMA TestedNext ==
    ASSUME NEW cs, NEW s \in Tested(cs), NEW p, Fresh(s.code, p), NEW inv \in BOOLEAN
    PROVE  expr_land_lor(s, p, inv) \in Tested(cs)
<1>1. PICK bs, t : s = [code |-> bs, t |-> t] /\ NewJumps(cs, bs, t, 0)
  BY DEF Tested
<1>2. PICK ds, v : /\ p = [code |-> ds, v |-> v]
                   /\ v \in Values /\ IsValue(v) /\ NewJumps(bs, ds, v.t, 0)
  BY <1>1 DEF Fresh
<1>3. PICK r : r = gtst(ds, v, inv, t, 0)
  OBVIOUS
<1>4. PICK es, u : es = r.code /\ u = r.t
  OBVIOUS
<1>5. NewJumps(cs, es, u, 0)
  <2>1. 0 \in Nat
    OBVIOUS
  <2> QED BY <2>1, <1>1, <1>2, <1>3, <1>4, NewTest
<1>6. r = [code |-> es, t |-> u]
  <2>1. v.inv \in BOOLEAN
    BY <1>2 DEF Values
  <2>2. CASE v.r = "jmp" /\ v.inv = inv
    BY <1>3, <1>4, <2>2 DEF gtst, splice
  <2>3. CASE v.r = "jmp" /\ v.inv # inv
    BY <1>3, <1>4, <2>3 DEF gtst
  <2>4. CASE v.r = "const"
    BY <1>3, <1>4, <2>4 DEF gtst, Jump
  <2>5. CASE v.r \notin {"jmp", "const"}
    BY <1>3, <1>4, <2>5 DEF gtst
  <2> QED BY <2>2, <2>3, <2>4, <2>5
<1>7. es \in Seq(Instruction) /\ u \in Nat
  <2>1. es \in Seq(Instruction) /\ u \in 0 .. Len(es)
    BY <1>5 DEF NewJumps
  <2> QED BY <2>1, CodeType
<1>8. expr_land_lor(s, p, inv) = r
  BY <1>1, <1>2, <1>3 DEF expr_land_lor
<1> QED BY <1>5, <1>6, <1>7, <1>8 DEF Tested

(* What is computed step by step, each by F from the one before.           *)
Iterable(V, z, n, F) == z \in V /\ n \in Nat /\ F \in [V \X (1 .. n) -> V]
Iterated(V, z, n, F) ==
    \E w \in [0 .. n -> V] : w[0] = z /\ \A i \in 1 .. n : w[i] = F[<<w[i - 1], i>>]

(* There is such a sequence of steps, of any length n.                     *)
LEMMA Iterates ==
    ASSUME NEW V, NEW z, NEW n, NEW F, Iterable(V, z, n, F) PROVE Iterated(V, z, n, F)
<1>0. z \in V /\ n \in Nat /\ F \in [V \X (1 .. n) -> V]
  BY DEF Iterable
<1> DEFINE W(w, k) == w \in [0 .. k -> V] /\ w[0] = z
                      /\ \A i \in 1 .. k : w[i] = F[<<w[i - 1], i>>]
           I == {k \in 0 .. n : ~\E w : W(w, k)}
<1>1. I \subseteq Nat
  OBVIOUS
<1>2. ASSUME I # {} PROVE FALSE
  <2> HIDE DEF I
  <2>1. PICK k \in I : \A j \in I : k <= j
    BY <1>1, <1>2, LeastNat
  <2>2. k \in 0 .. n /\ ~\E w : W(w, k)
    BY DEF I
  <2>3. CASE k = 0
    <3>1. PICK w : w = [i \in 0 .. 0 |-> z]
      OBVIOUS
    <3>2. W(w, 0)
      BY <3>1, <1>0
    <3> QED BY <3>2, <2>2, <2>3
  <2>4. CASE k # 0
    <3>1. k - 1 \in 0 .. n /\ ~(k <= k - 1) /\ k \in 1 .. n
      BY <2>2, <2>4, <1>0
    <3>2. PICK w : W(w, k - 1)
      BY <3>1, <2>1 DEF I
    <3>3. PICK v : v = [i \in 0 .. k |-> IF i < k THEN w[i] ELSE F[<<w[k - 1], k>>]]
      OBVIOUS
    <3>4. \A i \in 0 .. k - 1 : i \in 0 .. k /\ i < k /\ v[i] = w[i] /\ v[i] \in V
      BY <3>1, <3>2, <3>3
    <3>5. w[k - 1] \in V
      BY <3>1, <3>2
    <3>6. v[k] = F[<<w[k - 1], k>>]
      BY <3>1, <3>3
    <3>7. v[k] \in V
      BY <3>1, <3>5, <3>6, <1>0
    <3>8. v \in [0 .. k -> V]
      <4>1. \A i \in 0 .. k : v[i] \in V
        <5> TAKE i \in 0 .. k
        <5>1. i = k \/ i \in 0 .. k - 1
          BY <3>1
        <5> QED BY <5>1, <3>4, <3>7
      <4> QED BY <4>1, <3>3
    <3>9. v[0] = z
      BY <3>1, <3>2, <3>4
    <3>10. ASSUME NEW i \in 1 .. k PROVE v[i] = F[<<v[i - 1], i>>]
      <4>1. i - 1 \in 0 .. k - 1 /\ (i = k \/ (i \in 1 .. k - 1 /\ i \in 0 .. k - 1))
        BY <3>1
      <4>2. v[i - 1] = w[i - 1]
        BY <4>1, <3>4
      <4> QED BY <4>1, <4>2, <3>2, <3>4, <3>6
    <3> QED BY <3>8, <3>9, <3>10, <2>2
  <2> QED BY <2>3, <2>4
<1>3. n \in 0 .. n /\ n \notin I
  BY <1>0, <1>2
<1>4. \E w : W(w, n)
  BY <1>3
<1> QED BY <1>4 DEF Iterated

(* g: the operands of && or ||, each generated behind the code that tests  *)
(* those before it; w: that code, with the chain of its jumps.             *)
Folded(cs, w, g, n, inv) ==
    /\ w[0] = [code |-> cs, t |-> 0] /\ w[0] \in Tested(cs)
    /\ \A i \in 1 .. n :
          /\ w[i] \in Tested(cs) /\ w[i] = expr_land_lor(w[i - 1], g[i], inv)
          /\ Fresh(w[i - 1].code, g[i])

(* expr_land and expr_lor, for operands that are leaves.                 *)
LEMMA LeafFold ==
    ASSUME NEW cs \in Seq(Instruction), NEW S, S = Simple, NEW es \in Seq(S), NEW inv \in BOOLEAN
    PROVE  \E w : /\ AllTested(cs, es, inv, Leaf) = w[Len(es)]
                  /\ Folded(cs, w, [i \in 1 .. Len(es) |-> Leaf(w[i - 1].code, es[i])],
                            Len(es), inv)
<1>1. PICK n : n = Len(es)
  OBVIOUS
<1>2. n \in Nat /\ \A i \in 1 .. n : es[i] \in S
  BY <1>1
<1>3. ASSUME NEW s \in Tested(cs), NEW i \in 1 .. n
      PROVE  Fresh(s.code, Leaf(s.code, es[i]))
  <2>1. PICK bs, e : bs = s.code /\ e = es[i]
    OBVIOUS
  <2>2. bs \in Seq(Instruction) /\ e \in S
    BY <2>1, <1>2 DEF Tested
  <2> QED BY <2>1, <2>2, LeafFresh
<1>4. ASSUME NEW s \in Tested(cs), NEW i \in 1 .. n
      PROVE  expr_land_lor(s, Leaf(s.code, es[i]), inv) \in Tested(cs)
  BY <1>3, TestedNext
<1> DEFINE V == Tested(cs)
           F == [p \in V \X (1 .. n) |-> expr_land_lor(p[1], Leaf(p[1].code, es[p[2]]), inv)]
           W(w) == w = [i \in 0 .. n |->
                          IF i = 0 THEN [code |-> cs, t |-> 0]
                          ELSE expr_land_lor(w[i - 1], Leaf(w[i - 1].code, es[i]), inv)]
<1>5. [code |-> cs, t |-> 0] \in V
  BY TestedFirst
<1>6. \E w : W(w)
  <2>1. F \in [V \X (1 .. n) -> V]
    BY <1>4
  <2>2. \A s \in V, i \in 1 .. n : F[<<s, i>>] = expr_land_lor(s, Leaf(s.code, es[i]), inv)
    OBVIOUS
  <2> HIDE DEF F, V
  <2>3. PICK z : z = [code |-> cs, t |-> 0]
    OBVIOUS
  <2>4. PICK w \in [0 .. n -> V] : w[0] = z /\ \A i \in 1 .. n : w[i] = F[<<w[i - 1], i>>]
    <3>1. Iterable(V, z, n, F)
      BY <2>1, <2>3, <1>2, <1>5 DEF Iterable
    <3>2. Iterated(V, z, n, F)
      BY <3>1, Iterates
    <3> QED BY <3>2 DEF Iterated
  <2>5. \A i \in 0 .. n : w[i] = IF i = 0 THEN [code |-> cs, t |-> 0]
                                 ELSE expr_land_lor(w[i - 1], Leaf(w[i - 1].code, es[i]), inv)
    <3> TAKE i \in 0 .. n
    <3>1. CASE i = 0
      BY <3>1, <2>3, <2>4
    <3>2. CASE i # 0
      <4>1. i \in 1 .. n /\ i - 1 \in 0 .. n
        BY <3>2, <1>2
      <4>2. w[i - 1] \in V
        BY <4>1, <2>4
      <4>3. w[i] = F[<<w[i - 1], i>>]
        BY <4>1, <2>4
      <4> QED BY <3>2, <4>1, <4>2, <4>3, <2>2
    <3> QED BY <3>1, <3>2
  <2> QED BY <2>4, <2>5
<1>7. AllTested(cs, es, inv, Leaf) = (CHOOSE w : W(w))[n]
  BY <1>1 DEF AllTested
<1> HIDE DEF W, V, F
<1>8. PICK w : w = CHOOSE v : W(v)
  OBVIOUS
<1>9. W(w)
  BY <1>6, <1>8
<1>10. w[0] = [code |-> cs, t |-> 0]
  BY <1>2, <1>9 DEF W
<1>11. ASSUME NEW i \in 1 .. n
       PROVE  w[i] = expr_land_lor(w[i - 1], Leaf(w[i - 1].code, es[i]), inv)
  <2>1. i \in 0 .. n /\ i # 0
    BY <1>2
  <2> QED BY <2>1, <1>9 DEF W
<1>12. \A i \in 0 .. n : w[i] \in V
  <2> DEFINE I == {i \in 0 .. n : w[i] \notin V}
  <2>1. I \subseteq Nat
    OBVIOUS
  <2>2. ASSUME I # {} PROVE FALSE
    <3> HIDE DEF I
    <3>1. PICK i \in I : \A j \in I : i <= j
      BY <2>1, <2>2, LeastNat
    <3>2. i \in 0 .. n /\ w[i] \notin V
      BY DEF I
    <3>3. i # 0
      BY <3>2, <1>5, <1>10
    <3>4. i \in 1 .. n /\ i - 1 \in 0 .. n /\ ~(i <= i - 1)
      BY <3>2, <3>3, <1>2
    <3>5. w[i - 1] \in V
      BY <3>1, <3>4 DEF I
    <3> QED BY <3>2, <3>4, <3>5, <1>4, <1>11 DEF V
  <2> QED BY <2>2
<1>13. PICK g : g = [i \in 1 .. n |-> Leaf(w[i - 1].code, es[i])]
  OBVIOUS
<1>14. ASSUME NEW i \in 1 .. n
       PROVE  /\ w[i] \in Tested(cs) /\ w[i] = expr_land_lor(w[i - 1], g[i], inv)
              /\ Fresh(w[i - 1].code, g[i])
  <2>1. i \in 0 .. n /\ i - 1 \in 0 .. n
    BY <1>2
  <2>2. w[i] \in Tested(cs) /\ w[i - 1] \in Tested(cs)
    BY <2>1, <1>12 DEF V
  <2>3. g[i] = Leaf(w[i - 1].code, es[i])
    BY <1>13
  <2> QED BY <2>2, <2>3, <1>3, <1>11
<1>15. w[0] \in Tested(cs)
  BY <1>5, <1>10 DEF V
<1>16. Folded(cs, w, g, n, inv)
  BY <1>10, <1>14, <1>15 DEF Folded
<1>17. AllTested(cs, es, inv, Leaf) = w[n]
  BY <1>7, <1>8
<1> QED BY <1>1, <1>13, <1>16, <1>17

(* An operator is applied to what Gen generated.                           *)
LEMMA CombinedFresh ==
    ASSUME NEW cs \in Seq(Instruction), NEW t, NEW bs, NEW inv \in BOOLEAN,
           [code |-> bs, t |-> t] \in Tested(cs)
    PROVE  Fresh(cs, [code |-> bs, v |-> Value("jmp", "", inv, t)])
<1>1. bs \in Seq(Instruction) /\ t \in Nat /\ NewJumps(cs, bs, t, 0)
  BY DEF Tested
<1>2. PICK v : v = Value("jmp", "", inv, t)
  OBVIOUS
<1>3. v \in Values /\ v.r = "jmp" /\ v.t = t
  BY <1>1, <1>2 DEF Value, Values, Registers
<1>4. IsValue(v)
  BY <1>3 DEF IsValue
<1> QED BY <1>1, <1>2, <1>3, <1>4 DEF Fresh

(* A condition of at most one operator.                                    *)
LEMMA ShallowFresh ==
    ASSUME NEW cs \in Seq(Instruction), NEW e \in Simple \union Applied(Simple)
    PROVE  Fresh(cs, Shallow(cs, e))
<1>1. PICK S : S = Simple
  OBVIOUS
<1>2. CASE e \in Simple
  <2>1. Shallow(cs, e) = Leaf(cs, e)
    BY <1>2 DEF Shallow, IsLeaf, Simple
  <2> QED BY <2>1, <1>2, LeafFresh
<1>3. CASE e \in [op : {"and", "or"}, es : Seq(S)]
  <2>1. PICK es, inv : es = e.es /\ inv = (e.op = "and")
    OBVIOUS
  <2>2. es \in Seq(S) /\ inv \in BOOLEAN /\ e.op # "not" /\ e.op \in {"and", "or"}
    BY <2>1, <1>3
  <2>3. PICK r : r = AllTested(cs, es, inv, Leaf)
    OBVIOUS
  <2>4. r \in Tested(cs)
    <3>1. PICK w : /\ r = w[Len(es)]
                   /\ Folded(cs, w, [i \in 1 .. Len(es) |-> Leaf(w[i - 1].code, es[i])],
                             Len(es), inv)
      BY <2>2, <2>3, <1>1, LeafFold
    <3>2. Len(es) \in Nat
      BY <2>2
    <3>3. Len(es) = 0 \/ Len(es) \in 1 .. Len(es)
      BY <3>2
    <3> QED BY <3>1, <3>3 DEF Folded
  <2>5. PICK bs, t : r = [code |-> bs, t |-> t]
    BY <2>4 DEF Tested
  <2>6. AllTested(cs, e.es, e.op = "and", Leaf) = r
    BY <2>1, <2>3
  <2>7. r.code = bs /\ r.t = t
    BY <2>5
  <2>8. Combined(cs, e, Leaf) = [code |-> bs, v |-> Value("jmp", "", inv, t)]
    BY <2>1, <2>2, <2>6, <2>7 DEF Combined
  <2>9. Shallow(cs, e) = Combined(cs, e, Leaf)
    BY <2>2 DEF Shallow, IsLeaf
  <2> QED BY <2>2, <2>4, <2>5, <2>8, <2>9, CombinedFresh
<1>4. CASE e \in [op : {"not"}, es : [{1} -> S]]
  <2>1. PICK d : d = e.es[1]
    OBVIOUS
  <2>2. d \in S
    BY <2>1, <1>4
  <2>3. Fresh(cs, Leaf(cs, d))
    BY <2>2, <1>1, LeafFresh
  <2>4. Shallow(cs, e) = not(Leaf(cs, d))
    BY <2>1, <1>4 DEF Shallow, IsLeaf, Combined
  <2> QED BY <2>3, <2>4, NotFresh
<1> QED BY <1>1, <1>2, <1>3, <1>4 DEF Applied

(* expr_land and expr_lor, for operands that are conditions of one.      *)
LEMMA ShallowFold ==
    ASSUME NEW cs \in Seq(Instruction), NEW S, S = Simple \union Applied(Simple),
           NEW es \in Seq(S), NEW inv \in BOOLEAN
    PROVE  \E w : /\ AllTested(cs, es, inv, Shallow) = w[Len(es)]
                  /\ Folded(cs, w, [i \in 1 .. Len(es) |-> Shallow(w[i - 1].code, es[i])],
                            Len(es), inv)
<1>1. PICK n : n = Len(es)
  OBVIOUS
<1>2. n \in Nat /\ \A i \in 1 .. n : es[i] \in S
  BY <1>1
<1>3. ASSUME NEW s \in Tested(cs), NEW i \in 1 .. n
      PROVE  Fresh(s.code, Shallow(s.code, es[i]))
  <2>1. PICK bs, e : bs = s.code /\ e = es[i]
    OBVIOUS
  <2>2. bs \in Seq(Instruction) /\ e \in S
    BY <2>1, <1>2 DEF Tested
  <2> QED BY <2>1, <2>2, ShallowFresh
<1>4. ASSUME NEW s \in Tested(cs), NEW i \in 1 .. n
      PROVE  expr_land_lor(s, Shallow(s.code, es[i]), inv) \in Tested(cs)
  BY <1>3, TestedNext
<1> DEFINE V == Tested(cs)
           F == [p \in V \X (1 .. n) |-> expr_land_lor(p[1], Shallow(p[1].code, es[p[2]]), inv)]
           W(w) == w = [i \in 0 .. n |->
                          IF i = 0 THEN [code |-> cs, t |-> 0]
                          ELSE expr_land_lor(w[i - 1], Shallow(w[i - 1].code, es[i]), inv)]
<1>5. [code |-> cs, t |-> 0] \in V
  BY TestedFirst
<1>6. \E w : W(w)
  <2>1. F \in [V \X (1 .. n) -> V]
    BY <1>4
  <2>2. \A s \in V, i \in 1 .. n : F[<<s, i>>] = expr_land_lor(s, Shallow(s.code, es[i]), inv)
    OBVIOUS
  <2> HIDE DEF F, V
  <2>3. PICK z : z = [code |-> cs, t |-> 0]
    OBVIOUS
  <2>4. PICK w \in [0 .. n -> V] : w[0] = z /\ \A i \in 1 .. n : w[i] = F[<<w[i - 1], i>>]
    <3>1. Iterable(V, z, n, F)
      BY <2>1, <2>3, <1>2, <1>5 DEF Iterable
    <3>2. Iterated(V, z, n, F)
      BY <3>1, Iterates
    <3> QED BY <3>2 DEF Iterated
  <2>5. \A i \in 0 .. n : w[i] = IF i = 0 THEN [code |-> cs, t |-> 0]
                                 ELSE expr_land_lor(w[i - 1], Shallow(w[i - 1].code, es[i]), inv)
    <3> TAKE i \in 0 .. n
    <3>1. CASE i = 0
      BY <3>1, <2>3, <2>4
    <3>2. CASE i # 0
      <4>1. i \in 1 .. n /\ i - 1 \in 0 .. n
        BY <3>2, <1>2
      <4>2. w[i - 1] \in V
        BY <4>1, <2>4
      <4>3. w[i] = F[<<w[i - 1], i>>]
        BY <4>1, <2>4
      <4> QED BY <3>2, <4>1, <4>2, <4>3, <2>2
    <3> QED BY <3>1, <3>2
  <2> QED BY <2>4, <2>5
<1>7. AllTested(cs, es, inv, Shallow) = (CHOOSE w : W(w))[n]
  BY <1>1 DEF AllTested
<1> HIDE DEF W, V, F
<1>8. PICK w : w = CHOOSE v : W(v)
  OBVIOUS
<1>9. W(w)
  BY <1>6, <1>8
<1>10. w[0] = [code |-> cs, t |-> 0]
  BY <1>2, <1>9 DEF W
<1>11. ASSUME NEW i \in 1 .. n
       PROVE  w[i] = expr_land_lor(w[i - 1], Shallow(w[i - 1].code, es[i]), inv)
  <2>1. i \in 0 .. n /\ i # 0
    BY <1>2
  <2> QED BY <2>1, <1>9 DEF W
<1>12. \A i \in 0 .. n : w[i] \in V
  <2> DEFINE I == {i \in 0 .. n : w[i] \notin V}
  <2>1. I \subseteq Nat
    OBVIOUS
  <2>2. ASSUME I # {} PROVE FALSE
    <3> HIDE DEF I
    <3>1. PICK i \in I : \A j \in I : i <= j
      BY <2>1, <2>2, LeastNat
    <3>2. i \in 0 .. n /\ w[i] \notin V
      BY DEF I
    <3>3. i # 0
      BY <3>2, <1>5, <1>10
    <3>4. i \in 1 .. n /\ i - 1 \in 0 .. n /\ ~(i <= i - 1)
      BY <3>2, <3>3, <1>2
    <3>5. w[i - 1] \in V
      BY <3>1, <3>4 DEF I
    <3> QED BY <3>2, <3>4, <3>5, <1>4, <1>11 DEF V
  <2> QED BY <2>2
<1>13. PICK g : g = [i \in 1 .. n |-> Shallow(w[i - 1].code, es[i])]
  OBVIOUS
<1>14. ASSUME NEW i \in 1 .. n
       PROVE  /\ w[i] \in Tested(cs) /\ w[i] = expr_land_lor(w[i - 1], g[i], inv)
              /\ Fresh(w[i - 1].code, g[i])
  <2>1. i \in 0 .. n /\ i - 1 \in 0 .. n
    BY <1>2
  <2>2. w[i] \in Tested(cs) /\ w[i - 1] \in Tested(cs)
    BY <2>1, <1>12 DEF V
  <2>3. g[i] = Shallow(w[i - 1].code, es[i])
    BY <1>13
  <2> QED BY <2>2, <2>3, <1>3, <1>11
<1>15. w[0] \in Tested(cs)
  BY <1>5, <1>10 DEF V
<1>16. Folded(cs, w, g, n, inv)
  BY <1>10, <1>14, <1>15 DEF Folded
<1>17. AllTested(cs, es, inv, Shallow) = w[n]
  BY <1>7, <1>8
<1> QED BY <1>1, <1>13, <1>16, <1>17

(* Any condition.                                                          *)
LEMMA gexprFresh ==
    ASSUME NEW cs \in Seq(Instruction),
           NEW e \in Simple \union Applied(Simple \union Applied(Simple))
    PROVE  Fresh(cs, gexpr(cs, e))
<1>1. PICK S : S = Simple \union Applied(Simple)
  OBVIOUS
<1>2. CASE e \in Simple
  <2>1. gexpr(cs, e) = Leaf(cs, e)
    BY <1>2 DEF gexpr, IsLeaf, Simple
  <2> QED BY <2>1, <1>2, LeafFresh
<1>3. CASE e \in [op : {"and", "or"}, es : Seq(S)]
  <2>1. PICK es, inv : es = e.es /\ inv = (e.op = "and")
    OBVIOUS
  <2>2. es \in Seq(S) /\ inv \in BOOLEAN /\ e.op # "not" /\ e.op \in {"and", "or"}
    BY <2>1, <1>3
  <2>3. PICK r : r = AllTested(cs, es, inv, Shallow)
    OBVIOUS
  <2>4. r \in Tested(cs)
    <3>1. PICK w : /\ r = w[Len(es)]
                   /\ Folded(cs, w, [i \in 1 .. Len(es) |-> Shallow(w[i - 1].code, es[i])],
                             Len(es), inv)
      BY <2>2, <2>3, <1>1, ShallowFold
    <3>2. Len(es) \in Nat
      BY <2>2
    <3>3. Len(es) = 0 \/ Len(es) \in 1 .. Len(es)
      BY <3>2
    <3> QED BY <3>1, <3>3 DEF Folded
  <2>5. PICK bs, t : r = [code |-> bs, t |-> t]
    BY <2>4 DEF Tested
  <2>6. AllTested(cs, e.es, e.op = "and", Shallow) = r
    BY <2>1, <2>3
  <2>7. r.code = bs /\ r.t = t
    BY <2>5
  <2>8. Combined(cs, e, Shallow) = [code |-> bs, v |-> Value("jmp", "", inv, t)]
    BY <2>1, <2>2, <2>6, <2>7 DEF Combined
  <2>9. gexpr(cs, e) = Combined(cs, e, Shallow)
    BY <2>2 DEF gexpr, IsLeaf
  <2> QED BY <2>2, <2>4, <2>5, <2>8, <2>9, CombinedFresh
<1>4. CASE e \in [op : {"not"}, es : [{1} -> S]]
  <2>1. PICK d : d = e.es[1]
    OBVIOUS
  <2>2. d \in S
    BY <2>1, <1>4
  <2>3. Fresh(cs, Shallow(cs, d))
    BY <2>2, <1>1, ShallowFresh
  <2>4. gexpr(cs, e) = not(Shallow(cs, d))
    BY <2>1, <1>4 DEF gexpr, IsLeaf, Combined
  <2> QED BY <2>3, <2>4, NotFresh
<1> QED BY <1>1, <1>2, <1>3, <1>4 DEF Applied

(* The test of a condition: jumps of a chain for the label l.              *)
LEMMA TestNew ==
    ASSUME NEW cs \in Seq(Instruction), NEW e \in Condition, NEW inv \in BOOLEAN, NEW l \in Nat
    PROVE  LET r == Test(cs, e, inv, l) IN NewJumps(cs, r.code, r.t, l)
<1>1. e \in Simple \union Applied(Simple \union Applied(Simple))
  BY DEF Condition
<1>2. PICK g : g = gexpr(cs, e)
  OBVIOUS
<1>3. PICK ds, v : g = [code |-> ds, v |-> v] /\ IsValue(v) /\ NewJumps(cs, ds, v.t, 0)
  <2>1. Fresh(cs, g)
    BY <1>1, <1>2, gexprFresh
  <2> QED BY <2>1 DEF Fresh
<1>4. NewJumps(cs, cs, 0, l)
  BY NewNone
<1>5. Test(cs, e, inv, l) = gtst(ds, v, inv, 0, l)
  BY <1>2, <1>3 DEF Test
<1> QED BY <1>3, <1>4, <1>5, NewTest

-----------------------------------------------------------------------------
(* What the code of a condition does.  From address a on, an instruction   *)
(* that has arrived goes on behind itself.                                 *)
Onward(cs, a) ==
    \A i \in a .. Len(cs) : cs[i].writes = 1 => cs[i].next \in i + 1 .. Len(cs) + 1

(* Whether a jump is taken.                                                *)
Taken(i, given) == i.op = "jmp" \/ (i.x \in given) # i.inv

(* L: the addresses, from a on, from which the code leaves by chain t.     *)
Leaving(cs, t, given, a, L) ==
    /\ L \subseteq a .. Len(cs)
    /\ \A i \in a .. Len(cs) :
          i \in L <=> IF Taken(cs[i], given)
                      THEN i \in Chain(cs, t) \/ (cs[i].writes = 1 /\ cs[i].next \in L)
                      ELSE i + 1 \in L

(* One step of Leaves, where f says what the addresses behind i do.        *)
RunStep(cs, on, given, f, i) ==
    IF i = ind(cs) THEN FALSE
    ELSE IF cs[i].op = "jmp" \/ (cs[i].x \in given) # cs[i].inv
         THEN i \in on \/ (cs[i].writes = 1 /\ f[cs[i].next])
         ELSE f[i + 1]

(* It asks for addresses behind i only.                                    *)
LEMMA RunSame ==
    ASSUME NEW cs \in Seq(Instruction), NEW a \in 1 .. Len(cs) + 1, Onward(cs, a),
           NEW i \in a .. Len(cs) + 1, NEW on, NEW given, NEW f, NEW g,
           \A j \in i + 1 .. Len(cs) + 1 : f[j] = g[j]
    PROVE  RunStep(cs, on, given, f, i) = RunStep(cs, on, given, g, i)
<1>1. Len(cs) \in Nat /\ ind(cs) = Len(cs) + 1
  BY CodeType
<1>2. CASE i = ind(cs)
  BY <1>2 DEF RunStep
<1>3. CASE i # ind(cs)
  <2>1. i \in a .. Len(cs) /\ i + 1 \in i + 1 .. Len(cs) + 1
    BY <1>1, <1>3
  <2>2. f[i + 1] = g[i + 1]
    BY <2>1
  <2>3. cs[i].writes = 1 => f[cs[i].next] = g[cs[i].next]
    BY <2>1 DEF Onward
  <2> QED BY <1>3, <2>2, <2>3, Zenon DEF RunStep
<1> QED BY <1>2, <1>3

(* Leaves is what any such set says.                                       *)
LEMMA LeavesIs ==
    ASSUME NEW cs \in Seq(Instruction), NEW a \in 1 .. Len(cs) + 1, Onward(cs, a),
           NEW t, NEW given, NEW L, Leaving(cs, t, given, a, L)
    PROVE  Leaves(cs, a, t, given) = IF a \in L THEN TRUE ELSE FALSE
<1>1. Len(cs) \in Nat /\ ind(cs) = Len(cs) + 1 /\ a \in Nat
  BY CodeType
<1>2. PICK D, N, on : D = a .. Len(cs) + 1 /\ N = Len(cs) + 1 /\ on = Chain(cs, t)
  OBVIOUS
<1> DEFINE W(run) == run = [i \in D |-> RunStep(cs, on, given, run, i)]
<1>3. Leaves(cs, a, t, given) = (CHOOSE run : W(run))[a]
  BY <1>1, <1>2 DEF Leaves, RunStep
<1> HIDE DEF W
<1>4. PICK f : f = [i \in D |-> IF i \in L THEN TRUE ELSE FALSE]
  OBVIOUS
<1>a. \A i \in D : (i \in L => f[i] = TRUE) /\ (i \notin L => f[i] = FALSE)
  BY <1>4
<1>5. ASSUME NEW i \in D PROVE f[i] = RunStep(cs, on, given, f, i)
  <2>1. CASE i = N
    <3>1. i \notin L
      BY <2>1, <1>1, <1>2 DEF Leaving
    <3>2. f[i] = FALSE
      BY <3>1, <1>a
    <3> QED BY <3>2, <2>1, <1>1, <1>2 DEF RunStep
  <2>2. CASE i # N
    <3>1. i \in a .. Len(cs) /\ i # ind(cs) /\ i + 1 \in D
      BY <2>2, <1>1, <1>2
    <3>2. i \in L <=> IF Taken(cs[i], given)
                      THEN i \in on \/ (cs[i].writes = 1 /\ cs[i].next \in L)
                      ELSE i + 1 \in L
      BY <3>1, <1>2 DEF Leaving
    <3>3. cs[i].writes = 1 => cs[i].next \in D
      BY <3>1, <1>1, <1>2 DEF Onward
    <3>4. CASE Taken(cs[i], given)
      <4>1. RunStep(cs, on, given, f, i) = (i \in on \/ (cs[i].writes = 1 /\ f[cs[i].next]))
        BY <3>1, <3>4 DEF RunStep, Taken
      <4>2. i \in L <=> i \in on \/ (cs[i].writes = 1 /\ cs[i].next \in L)
        BY <3>2, <3>4
      <4>3. CASE i \in L
        <5>1. i \in on \/ (cs[i].writes = 1 /\ f[cs[i].next] = TRUE)
          BY <4>2, <4>3, <3>3, <1>a
        <5>2. RunStep(cs, on, given, f, i) = TRUE
          BY <4>1, <5>1, Zenon
        <5> QED BY <5>2, <4>3, <3>1, <1>a
      <4>4. CASE i \notin L
        <5>1. i \notin on /\ (cs[i].writes = 1 => f[cs[i].next] = FALSE)
          BY <4>2, <4>4, <3>3, <1>a
        <5>2. RunStep(cs, on, given, f, i) = FALSE
          BY <4>1, <5>1, Zenon
        <5> QED BY <5>2, <4>4, <3>1, <1>a
      <4> QED BY <4>3, <4>4
    <3>5. CASE ~Taken(cs[i], given)
      <4>1. RunStep(cs, on, given, f, i) = f[i + 1]
        BY <3>1, <3>5 DEF RunStep, Taken
      <4>2. i \in L <=> i + 1 \in L
        BY <3>2, <3>5
      <4> QED BY <4>1, <4>2, <3>1, <1>a
    <3> QED BY <3>4, <3>5
  <2> QED BY <2>1, <2>2
<1>6. W(f)
  <2>1. f = [i \in D |-> f[i]]
    BY <1>4, Zenon
  <2> QED BY <2>1, <1>5, Zenon DEF W
<1>7. PICK run : run = CHOOSE r : W(r)
  OBVIOUS
<1>8. W(run)
  BY <1>6, <1>7, Zenon
<1>9. \A i \in D : run[i] = RunStep(cs, on, given, run, i)
  BY <1>8, Zenon DEF W
<1> DEFINE I == {k \in 0 .. N : N - k \in D /\ run[N - k] # f[N - k]}
<1>10. ASSUME I # {} PROVE FALSE
  <2>0. I \subseteq Nat
    OBVIOUS
  <2> HIDE DEF I
  <2>1. PICK k \in I : \A j \in I : k <= j
    BY <2>0, <1>10, LeastNat
  <2>2. PICK i : i = N - k
    OBVIOUS
  <2>3. k \in 0 .. N /\ i \in D /\ run[i] # f[i]
    BY <2>2 DEF I
  <2>4. ASSUME NEW j \in i + 1 .. Len(cs) + 1 PROVE run[j] = f[j]
    <3>1. PICK h : h = N - j
      OBVIOUS
    <3>2. h \in 0 .. N /\ h < k /\ N - h = j /\ j \in D
      BY <3>1, <2>2, <2>3, <2>4, <1>1, <1>2
    <3>3. h \notin I
      BY <3>2, <2>1, <2>3
    <3> QED BY <3>2, <3>3 DEF I
  <2>5. i \in a .. Len(cs) + 1
    BY <2>3, <1>2
  <2>6. RunStep(cs, on, given, run, i) = RunStep(cs, on, given, f, i)
    BY <2>4, <2>5, RunSame
  <2> QED BY <2>3, <2>6, <1>5, <1>9
<1>11. run[a] = f[a]
  <2>1. a \in D /\ N - a \in 0 .. N /\ N - (N - a) = a
    BY <1>1, <1>2
  <2>2. N - a \notin I
    BY <1>10
  <2> QED BY <2>1, <2>2
<1>12. Leaves(cs, a, t, given) = f[a] /\ a \in D
  <2>1. Leaves(cs, a, t, given) = run[a]
    BY <1>3, <1>7, Zenon
  <2> QED BY <2>1, <1>1, <1>2, <1>11
<1> QED BY <1>12, <1>a

(* ds: cs and jumps of chain t, which is taken just when b holds.          *)
Decides(cs, ds, t, m, given, b) ==
    /\ NewJumps(cs, ds, t, m) /\ Onward(ds, Len(cs) + 1)
    /\ \E L : Leaving(ds, t, given, Len(cs) + 1, L) /\ (Len(cs) + 1 \in L <=> b)

(* What es adds to bs: it leaves by chain u just when c holds.             *)
GoesOn(bs, es, t, u, given, c) ==
    /\ es \in Seq(Instruction) /\ Len(bs) <= Len(es)
    /\ \A i \in 1 .. Len(bs) : es[i] = bs[i] /\ (i \in Chain(es, u) <=> i \in Chain(bs, t))
    /\ Onward(es, Len(bs) + 1)
    /\ \E M : Leaving(es, u, given, Len(bs) + 1, M) /\ (Len(bs) + 1 \in M <=> c)

(* One test and then another: either one leaves.                           *)
LEMMA Composed ==
    ASSUME NEW cs, NEW bs, NEW es, NEW t, NEW u, NEW m, NEW given, NEW b, NEW c,
           Decides(cs, bs, t, m, given, b), GoesOn(bs, es, t, u, given, c),
           NewJumps(cs, es, u, m), NEW k, k <=> b \/ c
    PROVE  Decides(cs, es, u, m, given, k)
<1>1. /\ Len(cs) \in Nat /\ Len(bs) \in Nat /\ Len(es) \in Nat
      /\ Len(cs) <= Len(bs) /\ Len(bs) <= Len(es)
  <2>1. /\ cs \in Seq(Instruction) /\ bs \in Seq(Instruction) /\ es \in Seq(Instruction)
        /\ Len(cs) <= Len(bs) /\ Len(bs) <= Len(es)
    BY DEF Decides, NewJumps, GoesOn
  <2> QED BY <2>1, CodeType
<1>2. PICK L : Leaving(bs, t, given, Len(cs) + 1, L) /\ (Len(cs) + 1 \in L <=> b)
  BY DEF Decides
<1>3. PICK M : Leaving(es, u, given, Len(bs) + 1, M) /\ (Len(bs) + 1 \in M <=> c)
  BY DEF GoesOn
<1>4. PICK a, z : a = Len(cs) + 1 /\ z = Len(bs) + 1
  OBVIOUS
<1>5. /\ a \in Nat /\ z \in Nat /\ a <= z /\ z <= Len(es) + 1
      /\ L \subseteq a .. Len(bs) /\ M \subseteq z .. Len(es)
      /\ z \in M <=> c
  BY <1>1, <1>2, <1>3, <1>4 DEF Leaving
<1>6. PICK K : K = {i \in a .. Len(bs) : i \in L \/ c} \union M
  OBVIOUS
<1>7. /\ K \subseteq a .. Len(es)
      /\ \A i \in a .. Len(bs) : i \in K <=> i \in L \/ c
      /\ \A i \in z .. Len(es) + 1 : i \in K <=> i \in M
  <2>1. \A i \in a .. Len(bs) : i \notin M
    BY <1>1, <1>4, <1>5
  <2>2. \A i \in z .. Len(es) + 1 : i \notin a .. Len(bs)
    BY <1>1, <1>4
  <2>3. a .. Len(bs) \subseteq a .. Len(es) /\ z .. Len(es) \subseteq a .. Len(es)
    BY <1>1, <1>4
  <2> QED BY <2>1, <2>2, <2>3, <1>5, <1>6
<1>8. \A i \in a .. z : i \in K <=> i \in L \/ c
  BY <1>1, <1>4, <1>5, <1>7
<1>9. \A i \in a .. Len(bs) :
         /\ bs[i].writes = 1 => bs[i].next \in i + 1 .. z
         /\ es[i] = bs[i] /\ (i \in Chain(es, u) <=> i \in Chain(bs, t))
         /\ i \in Chain(bs, t) \/ bs[i].writes = 1
  <2>1. Onward(bs, a) /\ NewJumps(cs, bs, t, m)
    BY <1>4 DEF Decides
  <2> TAKE i \in a .. Len(bs)
  <2>2. i \in 1 .. Len(bs)
    BY <1>1, <1>4
  <2>3. bs[i].writes = 1 => bs[i].next \in i + 1 .. z
    BY <2>1, <1>4 DEF Onward
  <2>4. es[i] = bs[i] /\ (i \in Chain(es, u) <=> i \in Chain(bs, t))
    BY <2>2 DEF GoesOn
  <2>5. i \in Chain(bs, t) \/ bs[i].writes = 1
    BY <2>1, <1>4 DEF NewJumps
  <2> QED BY <2>3, <2>4, <2>5
<1>10. ASSUME NEW i \in a .. Len(es)
       PROVE  i \in K <=> IF Taken(es[i], given)
                          THEN i \in Chain(es, u) \/ (es[i].writes = 1 /\ es[i].next \in K)
                          ELSE i + 1 \in K
  <2>1. CASE i <= Len(bs)
    <3>1. i \in a .. Len(bs) /\ i + 1 \in a .. z
      BY <2>1, <1>1, <1>4
    <3>2. i \in L <=> IF Taken(bs[i], given)
                      THEN i \in Chain(bs, t) \/ (bs[i].writes = 1 /\ bs[i].next \in L)
                      ELSE i + 1 \in L
      BY <3>1, <1>2, <1>4 DEF Leaving
    <3>3. bs[i].writes = 1 => bs[i].next \in a .. z
      BY <3>1, <1>1, <1>4, <1>9
    <3>4. bs[i].writes = 1 => (bs[i].next \in K <=> bs[i].next \in L \/ c)
      BY <3>3, <1>8
    <3>5. (i \in K <=> i \in L \/ c) /\ (i + 1 \in K <=> i + 1 \in L \/ c)
      BY <3>1, <1>7, <1>8
    <3>6. /\ es[i] = bs[i] /\ (i \in Chain(es, u) <=> i \in Chain(bs, t))
          /\ i \in Chain(bs, t) \/ bs[i].writes = 1
      BY <3>1, <1>9
    <3> QED BY <3>2, <3>4, <3>5, <3>6
  <2>2. CASE ~(i <= Len(bs))
    <3>1. i \in z .. Len(es) /\ i \in z .. Len(es) + 1 /\ i + 1 \in z .. Len(es) + 1
      BY <2>2, <1>1, <1>4
    <3>2. i \in M <=> IF Taken(es[i], given)
                      THEN i \in Chain(es, u) \/ (es[i].writes = 1 /\ es[i].next \in M)
                      ELSE i + 1 \in M
      BY <3>1, <1>3, <1>4 DEF Leaving
    <3>3. es[i].writes = 1 => es[i].next \in z .. Len(es) + 1
      <4>1. es[i].writes = 1 => es[i].next \in i + 1 .. Len(es) + 1
        BY <3>1, <1>4 DEF GoesOn, Onward
      <4> QED BY <4>1, <3>1, <1>5
    <3> QED BY <3>1, <3>2, <3>3, <1>7
  <2> QED BY <2>1, <2>2
<1>11. Leaving(es, u, given, a, K)
  BY <1>7, <1>10 DEF Leaving
<1>12. a \in K <=> b \/ c
  <2>1. a \in a .. z
    BY <1>5
  <2> QED BY <2>1, <1>2, <1>4, <1>8
<1>13. Onward(es, a)
  <2> SUFFICES ASSUME NEW i \in a .. Len(es), es[i].writes = 1
               PROVE  es[i].next \in i + 1 .. Len(es) + 1
    BY DEF Onward
  <2>1. CASE i <= Len(bs)
    <3>1. i \in a .. Len(bs) /\ es[i].next \in i + 1 .. z
      BY <2>1, <1>1, <1>4, <1>9
    <3> QED BY <3>1, <1>5
  <2>2. CASE ~(i <= Len(bs))
    <3>1. i \in z .. Len(es)
      BY <2>2, <1>1, <1>4
    <3> QED BY <3>1, <1>4 DEF GoesOn, Onward
  <2> QED BY <2>1, <2>2
<1>14. \E S : Leaving(es, u, given, a, S) /\ (a \in S <=> k)
  BY <1>11, <1>12
<1> QED BY <1>4, <1>13, <1>14 DEF Decides

(* Jumps put in front of the chain leave when they did.                    *)
LEMMA SplicedGoesOn ==
    ASSUME NEW bs \in Seq(Instruction), NEW ds, NEW t \in 0 .. Len(bs), NEW u, NEW m,
           NEW given, NEW h, Decides(bs, ds, u, 0, given, h),
           NEW es, NEW n, InFront(ds, u, bs, t, m, es, n)
    PROVE  GoesOn(bs, es, t, n, given, h)
<1>1. /\ NewJumps(bs, ds, u, 0) /\ Onward(ds, Len(bs) + 1)
      /\ ds \in Seq(Instruction) /\ u \in 0 .. Len(ds)
      /\ Len(bs) \in Nat /\ Len(ds) \in Nat /\ Len(bs) <= Len(ds)
  <2>1. NewJumps(bs, ds, u, 0) /\ Onward(ds, Len(bs) + 1)
    BY DEF Decides
  <2>2. ds \in Seq(Instruction) /\ u \in 0 .. Len(ds) /\ Len(bs) <= Len(ds)
    BY <2>1 DEF NewJumps
  <2> QED BY <2>1, <2>2, CodeType
<1>2. PICK z : z = Len(bs) + 1
  OBVIOUS
<1>3. PICK L : Leaving(ds, u, given, z, L) /\ (z \in L <=> h)
  BY <1>2 DEF Decides
<1>4. PICK S : S = Chain(ds, u)
  OBVIOUS
<1>5. /\ es \in Seq(Instruction) /\ Len(es) = Len(ds) /\ Chain(es, n) = S \union Chain(bs, t)
      /\ \A i \in 1 .. Len(ds) :
            /\ es[i].op = ds[i].op /\ es[i].x = ds[i].x /\ es[i].inv = ds[i].inv
            /\ es[i].writes = ds[i].writes
            /\ i \notin S => es[i] = ds[i]
  BY <1>4 DEF InFront
<1>6. /\ \A i \in 1 .. Len(bs) : ds[i] = bs[i]
      /\ \A i \in S : i > Len(bs) /\ ds[i].writes = 0
  BY <1>1, <1>4 DEF NewJumps, WaitsFor
<1>7. Chain(bs, t) \subseteq 1 .. Len(bs)
  BY <1>1, ChainBelow
<1>8. \A i \in 1 .. Len(bs) : es[i] = bs[i] /\ (i \in Chain(es, n) <=> i \in Chain(bs, t))
  <2> TAKE i \in 1 .. Len(bs)
  <2>1. i \in 1 .. Len(ds) /\ i \notin S
    BY <1>1, <1>6
  <2> QED BY <2>1, <1>5, <1>6
<1>9. ASSUME NEW i \in z .. Len(es)
      PROVE  /\ Taken(es[i], given) <=> Taken(ds[i], given)
             /\ i \in Chain(es, n) <=> i \in S
             /\ es[i].writes = ds[i].writes
             /\ ds[i].writes = 1 => es[i].next = ds[i].next
             /\ i \in z .. Len(ds)
  <2>1. i \in 1 .. Len(ds) /\ i \notin Chain(bs, t) /\ i \in z .. Len(ds)
    BY <1>1, <1>2, <1>5, <1>7
  <2>2. Taken(es[i], given) <=> Taken(ds[i], given)
    BY <2>1, <1>5, Zenon DEF Taken
  <2>3. ds[i].writes = 1 => es[i].next = ds[i].next
    BY <2>1, <1>5, <1>6
  <2> QED BY <2>1, <2>2, <2>3, <1>5
<1>10. Onward(es, z)
  <2> SUFFICES ASSUME NEW i \in z .. Len(es), es[i].writes = 1
               PROVE  es[i].next \in i + 1 .. Len(es) + 1
    BY DEF Onward
  <2>1. ds[i].next \in i + 1 .. Len(ds) + 1 /\ es[i].next = ds[i].next
    BY <1>1, <1>2, <1>9 DEF Onward
  <2> QED BY <2>1, <1>5
<1>11. Leaving(es, n, given, z, L)
  <2>1. L \subseteq z .. Len(es)
    BY <1>3, <1>5 DEF Leaving
  <2>2. ASSUME NEW i \in z .. Len(es)
        PROVE  i \in L <=> IF Taken(es[i], given)
                           THEN i \in Chain(es, n) \/ (es[i].writes = 1 /\ es[i].next \in L)
                           ELSE i + 1 \in L
    <3>1. i \in L <=> IF Taken(ds[i], given)
                      THEN i \in S \/ (ds[i].writes = 1 /\ ds[i].next \in L)
                      ELSE i + 1 \in L
      BY <1>3, <1>4, <1>9 DEF Leaving
    <3> QED BY <3>1, <1>9
  <2> QED BY <2>1, <2>2 DEF Leaving
<1>12. \E M : Leaving(es, n, given, z, M) /\ (z \in M <=> h)
  BY <1>3, <1>11
<1> QED BY <1>1, <1>2, <1>5, <1>8, <1>10, <1>12 DEF GoesOn

(* Behind jumps the other way, a jump leaves when they did not.            *)
LEMMA OverGoesOn ==
    ASSUME NEW bs \in Seq(Instruction), NEW ds, NEW t \in 0 .. Len(bs), NEW u, NEW m,
           NEW given, NEW h, Decides(bs, ds, u, 0, given, h),
           NEW es, GoneOver(ds, u, bs, t, m, es)
    PROVE  GoesOn(bs, es, t, Len(ds) + 1, given, ~h)
<1>1. /\ NewJumps(bs, ds, u, 0) /\ Onward(ds, Len(bs) + 1)
      /\ ds \in Seq(Instruction) /\ u \in 0 .. Len(ds)
      /\ Len(bs) \in Nat /\ Len(ds) \in Nat /\ Len(bs) <= Len(ds)
  <2>1. NewJumps(bs, ds, u, 0) /\ Onward(ds, Len(bs) + 1)
    BY DEF Decides
  <2>2. ds \in Seq(Instruction) /\ u \in 0 .. Len(ds) /\ Len(bs) <= Len(ds)
    BY <2>1 DEF NewJumps
  <2> QED BY <2>1, <2>2, CodeType
<1>2. PICK z, n : z = Len(bs) + 1 /\ n = Len(ds) + 1
  OBVIOUS
<1>3. PICK L : Leaving(ds, u, given, z, L) /\ (z \in L <=> h)
  BY <1>2 DEF Decides
<1>4. PICK S : S = Chain(ds, u)
  OBVIOUS
<1>5. /\ es \in Seq(Instruction) /\ Len(es) = n /\ Chain(es, n) = {n} \union Chain(bs, t)
      /\ es[n].op = "jmp" /\ es[n].writes = 0
      /\ \A i \in 1 .. Len(ds) :
            /\ es[i].op = ds[i].op /\ es[i].x = ds[i].x /\ es[i].inv = ds[i].inv
            /\ i \notin S => es[i] = ds[i]
            /\ i \in S => es[i].next = n + 1 /\ es[i].writes = ds[i].writes + 1
  <2>1. n + 1 = Len(ds) + 2
    BY <1>1, <1>2
  <2> QED BY <2>1, <1>2, <1>4 DEF GoneOver, WaitsFor
<1>6. /\ \A i \in 1 .. Len(bs) : ds[i] = bs[i]
      /\ \A i \in S : i > Len(bs) /\ ds[i].writes = 0
      /\ \A i \in z .. Len(ds) : i \in S \/ ds[i].writes = 1
  BY <1>1, <1>2, <1>4 DEF NewJumps, WaitsFor
<1>7. Chain(bs, t) \subseteq 1 .. Len(bs)
  BY <1>1, ChainBelow
<1>8. \A i \in 1 .. Len(bs) : es[i] = bs[i] /\ (i \in Chain(es, n) <=> i \in Chain(bs, t))
  <2> TAKE i \in 1 .. Len(bs)
  <2>1. i \in 1 .. Len(ds) /\ i \notin S /\ i # n
    BY <1>1, <1>2, <1>6
  <2> QED BY <2>1, <1>5, <1>6
<1>9. /\ z \in Nat /\ n \in Nat /\ z <= n /\ L \subseteq z .. Len(ds)
      /\ \A i \in z .. n : i = n \/ i \in z .. Len(ds)
      /\ \A i \in z .. Len(ds) : i \in 1 .. Len(ds) /\ i \in z .. n /\ i # n /\ i + 1 \in z .. n
      /\ n \notin L
  <2>1. L \subseteq z .. Len(ds)
    BY <1>3 DEF Leaving
  <2> QED BY <2>1, <1>1, <1>2
<1>10. ASSUME NEW i \in z .. Len(ds)
       PROVE  /\ Taken(es[i], given) <=> Taken(ds[i], given)
              /\ i \notin Chain(es, n) /\ es[i].writes = 1
              /\ i \in S => es[i].next = n + 1
              /\ i \notin S => es[i].next = ds[i].next /\ ds[i].writes = 1
                               /\ ds[i].next \in i + 1 .. n
  <2>1. i \in 1 .. Len(ds) /\ i # n /\ i \notin Chain(bs, t)
    BY <1>1, <1>2, <1>7, <1>9
  <2>2. Taken(es[i], given) <=> Taken(ds[i], given)
    BY <2>1, <1>5, Zenon DEF Taken
  <2>3. i \in S => es[i].next = n + 1 /\ es[i].writes = 1
    BY <2>1, <1>5, <1>6
  <2>4. i \notin S => es[i] = ds[i] /\ ds[i].writes = 1 /\ ds[i].next \in i + 1 .. n
    BY <2>1, <1>1, <1>2, <1>5, <1>6 DEF Onward
  <2> QED BY <2>1, <2>2, <2>3, <2>4, <1>5
<1>11. Onward(es, z)
  <2> SUFFICES ASSUME NEW i \in z .. n, es[i].writes = 1 PROVE es[i].next \in i + 1 .. n + 1
    BY <1>5 DEF Onward
  <2>1. i \in z .. Len(ds)
    BY <1>5, <1>9
  <2>2. es[i].next = n + 1 \/ es[i].next \in i + 1 .. n
    BY <2>1, <1>10
  <2> QED BY <2>1, <2>2, <1>9
<1>12. PICK M : M = {i \in z .. n : i \notin L}
  OBVIOUS
<1>13. ASSUME NEW i \in z .. n
       PROVE  i \in M <=> IF Taken(es[i], given)
                          THEN i \in Chain(es, n) \/ (es[i].writes = 1 /\ es[i].next \in M)
                          ELSE i + 1 \in M
  <2>1. CASE i = n
    <3>1. Taken(es[n], given) /\ n \in Chain(es, n)
      BY <1>5 DEF Taken
    <3>2. n \in M
      BY <1>9, <1>12
    <3> QED BY <3>1, <3>2, <2>1
  <2>2. CASE i \in z .. Len(ds)
    <3>1. i \in L <=> IF Taken(ds[i], given)
                      THEN i \in S \/ (ds[i].writes = 1 /\ ds[i].next \in L)
                      ELSE i + 1 \in L
      BY <2>2, <1>3, <1>4 DEF Leaving
    <3>2. (i \in M <=> i \notin L) /\ (i + 1 \in M <=> i + 1 \notin L) /\ n + 1 \notin M
      BY <2>2, <1>9, <1>12
    <3>3. i \notin S => (es[i].next \in M <=> ds[i].next \notin L)
      <4> SUFFICES ASSUME i \notin S PROVE es[i].next \in M <=> ds[i].next \notin L
        OBVIOUS
      <4>1. es[i].next = ds[i].next /\ ds[i].next \in i + 1 .. n
        BY <2>2, <1>10
      <4>2. ds[i].next \in z .. n
        BY <4>1, <2>2, <1>9
      <4> QED BY <4>1, <4>2, <1>12
    <3> QED BY <3>1, <3>2, <3>3, <2>2, <1>10
  <2> QED BY <2>1, <2>2, <1>9
<1>14. Leaving(es, n, given, z, M)
  BY <1>5, <1>12, <1>13 DEF Leaving
<1>15. z \in M <=> ~h
  BY <1>3, <1>9, <1>12
<1>16. \E K : Leaving(es, n, given, z, K) /\ (z \in K <=> ~h)
  BY <1>14, <1>15
<1>17. Len(bs) <= Len(es)
  BY <1>1, <1>2, <1>5
<1> QED BY <1>2, <1>5, <1>8, <1>11, <1>16, <1>17 DEF GoesOn

(* A jump that is taken leaves; no jump at all does not.                   *)
LEMMA JumpGoesOn ==
    ASSUME NEW bs \in Seq(Instruction), NEW t \in 0 .. Len(bs), NEW m, NEW given,
           NEW d, IsJump(d, t, m), NEW es, es = Append(bs, d)
    PROVE  GoesOn(bs, es, t, Len(bs) + 1, given, Taken(d, given))
<1>1. Len(bs) \in Nat
  BY CodeType
<1>2. PICK z : z = Len(bs) + 1
  OBVIOUS
<1>3. /\ es \in Seq(Instruction) /\ Len(es) = z /\ \A i \in 1 .. Len(bs) : es[i] = bs[i]
      /\ es[z] = d /\ WaitsFor(es, z, m) /\ Chain(es, z) = {z} \union Chain(bs, t)
  BY <1>2, AppendedJump
<1>4. \A i \in z .. Len(es) : i = z
  BY <1>1, <1>2, <1>3
<1>5. \A i \in 1 .. Len(bs) : i # z
  BY <1>1, <1>2
<1>6. es[z].writes = 0
  BY <1>3 DEF WaitsFor
<1>7. Onward(es, z)
  BY <1>4, <1>6 DEF Onward
<1>8. PICK M : M = {i \in {z} : Taken(d, given)}
  OBVIOUS
<1>9. Leaving(es, z, given, z, M)
  <2>1. M \subseteq z .. Len(es) /\ z + 1 \notin M
    BY <1>1, <1>2, <1>3, <1>8
  <2>2. z \in M <=> IF Taken(es[z], given)
                    THEN z \in Chain(es, z) \/ (es[z].writes = 1 /\ es[z].next \in M)
                    ELSE z + 1 \in M
    BY <2>1, <1>3, <1>8
  <2> QED BY <2>1, <2>2, <1>4 DEF Leaving
<1>10. \E K : Leaving(es, z, given, z, K) /\ (z \in K <=> Taken(d, given))
  BY <1>8, <1>9
<1>11. Len(bs) <= Len(es)
  BY <1>1, <1>2, <1>3
<1> QED BY <1>2, <1>3, <1>5, <1>7, <1>10, <1>11 DEF GoesOn

(* Code to which nothing is added does not leave.                         *)
LEMMA NoneGoesOn ==
    ASSUME NEW bs \in Seq(Instruction), NEW t, NEW given
    PROVE  GoesOn(bs, bs, t, t, given, FALSE)
<1>1. Len(bs) \in Nat /\ \A i \in Len(bs) + 1 .. Len(bs) : FALSE
  BY CodeType
<1>2. Onward(bs, Len(bs) + 1) /\ Leaving(bs, t, given, Len(bs) + 1, {})
  BY <1>1 DEF Onward, Leaving
<1>3. \E M : Leaving(bs, t, given, Len(bs) + 1, M) /\ (Len(bs) + 1 \in M <=> FALSE)
  BY <1>2
<1> QED BY <1>1, <1>2, <1>3 DEF GoesOn

(* p, generated behind cs, stands for the truth value h.                   *)
Means(cs, p, given, h) ==
    /\ Fresh(cs, p) /\ h \in BOOLEAN
    /\ p.v.r = "jmp" => Decides(cs, p.code, p.v.t, 0, given, h # p.v.inv)
    /\ p.v.r = "const" => (p.v.x <=> h)
    /\ p.v.r \in {"cmp", "operand"} => (((p.v.x \in given) # p.v.inv) <=> h)

(* Code that tests nothing does not leave.                                 *)
LEMMA NoneDecides ==
    ASSUME NEW cs \in Seq(Instruction), NEW m, NEW given
    PROVE  Decides(cs, cs, 0, m, given, FALSE)
<1>1. GoesOn(cs, cs, 0, 0, given, FALSE)
  BY NoneGoesOn
<1> QED BY <1>1, NewNone DEF GoesOn, Decides

(* gtst: the code leaves where it did, and if the value is not inv.        *)
LEMMA TestDecides ==
    ASSUME NEW cs, NEW bs, NEW t, NEW m \in Nat, NEW given, NEW b,
           Decides(cs, bs, t, m, given, b),
           NEW p, NEW h, Means(bs, p, given, h), NEW inv \in BOOLEAN,
           NEW k, k <=> b \/ h # inv
    PROVE  LET r == gtst(p.code, p.v, inv, t, m)
           IN  Decides(cs, r.code, r.t, m, given, k)
<1>1. /\ bs \in Seq(Instruction) /\ t \in 0 .. Len(bs) /\ t \in Nat
  <2>1. bs \in Seq(Instruction) /\ t \in 0 .. Len(bs)
    BY DEF Decides, NewJumps
  <2> QED BY <2>1, CodeType
<1>2. PICK ds, v : ds = p.code /\ v = p.v
  OBVIOUS
<1>3. PICK u, x, i : u = v.t /\ x = v.x /\ i = v.inv
  OBVIOUS
<1>4. /\ IsValue(v) /\ NewJumps(bs, ds, u, 0) /\ h \in BOOLEAN /\ i \in BOOLEAN
      /\ v.r \in {"jmp", "const", "cmp", "operand"}
      /\ v.r # "jmp" => ds = bs
  BY <1>2, <1>3 DEF Means, Fresh, IsValue, Values
<1>5. PICK r : r = gtst(ds, v, inv, t, m)
  OBVIOUS
<1>6. PICK es, n : es = r.code /\ n = r.t
  OBVIOUS
<1>7. NewJumps(cs, es, n, m)
  <2>1. NewJumps(cs, bs, t, m) /\ NewJumps(bs, ds, v.t, 0)
    BY <1>3, <1>4 DEF Decides
  <2> QED BY <2>1, <1>4, <1>5, <1>6, NewTest
<1>8. GoesOn(bs, es, t, n, given, h # inv)
  <2>1. CASE v.r = "jmp" /\ i = inv
    <3>1. Decides(bs, ds, u, 0, given, h # inv)
      BY <2>1, <1>2, <1>3 DEF Means
    <3>2. r = splice(ds, v, t, m)
      BY <2>1, <1>3, <1>5 DEF gtst
    <3>3. InFront(ds, u, bs, t, m, es, n)
      BY <3>2, <1>1, <1>3, <1>4, <1>6, SpliceIs
    <3> QED BY <3>1, <3>3, <1>1, SplicedGoesOn
  <2>2. CASE v.r = "jmp" /\ i # inv
    <3>1. Decides(bs, ds, u, 0, given, h # i)
      BY <2>2, <1>2, <1>3 DEF Means
    <3>2. r = [code |-> gsym(gjmp(ds, t, m), u), t |-> Len(ds) + 1]
      BY <2>2, <1>3, <1>5 DEF gtst, ind
    <3>3. es = gsym(gjmp(ds, t, m), u) /\ n = Len(ds) + 1
      BY <3>2, <1>6
    <3>4. GoneOver(ds, u, bs, t, m, es)
      BY <3>3, <1>1, <1>4, OverIs
    <3>5. GoesOn(bs, es, t, n, given, ~(h # i))
      BY <3>1, <3>3, <3>4, <1>1, OverGoesOn
    <3>6. ~(h # i) <=> (h # inv)
      BY <2>2, <1>4
    <3> QED BY <3>5, <3>6 DEF GoesOn
  <2>3. CASE v.r = "const"
    <3>1. ds = bs /\ (x <=> h) /\ x \in BOOLEAN
      BY <2>3, <1>2, <1>3, <1>4 DEF Means, IsValue
    <3>2. CASE x = inv
      <4>1. es = bs /\ n = t
        BY <2>3, <3>1, <3>2, <1>3, <1>5, <1>6 DEF gtst
      <4>2. ~(h # inv)
        BY <3>1, <3>2, <1>4
      <4>3. GoesOn(bs, es, t, n, given, FALSE)
        BY <4>1, <1>1, NoneGoesOn
      <4> QED BY <4>2, <4>3 DEF GoesOn
    <3>3. CASE x # inv
      <4>1. PICK d : d = Instr("jmp", "", FALSE, t, m)
        OBVIOUS
      <4>2. r = [code |-> Append(bs, d), t |-> Len(bs) + 1]
        BY <2>3, <3>1, <3>3, <4>1, <1>3, <1>5 DEF gtst, Jump, gjmp, ind
      <4>3. es = Append(bs, d) /\ n = Len(bs) + 1
        BY <4>2, <1>6
      <4>4. IsJump(d, t, m) /\ d.op = "jmp"
        BY <4>1, <1>1, JumpMade DEF Instr
      <4>5. GoesOn(bs, es, t, n, given, Taken(d, given))
        BY <4>3, <4>4, <1>1, JumpGoesOn
      <4>6. Taken(d, given) <=> (h # inv)
        BY <3>1, <3>3, <4>4, <1>4 DEF Taken
      <4> QED BY <4>5, <4>6 DEF GoesOn
    <3> QED BY <3>2, <3>3
  <2>4. CASE v.r \in {"cmp", "operand"}
    <3>1. ds = bs /\ (((x \in given) # i) <=> h) /\ x \in Registers
      BY <2>4, <1>2, <1>3, <1>4 DEF Means, IsValue
    <3>2. PICK j : j = (i # inv)
      OBVIOUS
    <3>3. PICK d : d = Instr("jcc", x, j, t, m)
      OBVIOUS
    <3>4. r = [code |-> Append(bs, d), t |-> Len(bs) + 1]
      BY <2>4, <3>1, <3>2, <3>3, <1>3, <1>5 DEF gtst, ind
    <3>5. es = Append(bs, d) /\ n = Len(bs) + 1
      BY <3>4, <1>6
    <3>6. j \in BOOLEAN
      BY <3>2
    <3>7. IsJump(d, t, m) /\ d.op = "jcc" /\ d.x = x /\ d.inv = j
      BY <3>1, <3>3, <3>6, <1>1, JumpMade DEF Instr
    <3>8. GoesOn(bs, es, t, n, given, Taken(d, given))
      BY <3>5, <3>7, <1>1, JumpGoesOn
    <3>9. Taken(d, given) <=> ((x \in given) # j)
      BY <3>7 DEF Taken
    <3>10. ((x \in given) # j) <=> (h # inv)
      BY <3>1, <3>2, <1>4
    <3> QED BY <3>8, <3>9, <3>10 DEF GoesOn
  <2> QED BY <2>1, <2>2, <2>3, <2>4, <1>4
<1>9. Decides(cs, es, n, m, given, k)
  <2>1. PICK c : c = (h # inv)
    OBVIOUS
  <2>2. GoesOn(bs, es, t, n, given, c)
    BY <2>1, <1>8
  <2>3. k <=> b \/ c
    BY <2>1
  <2> QED BY <2>2, <2>3, <1>7, Composed
<1> QED BY <1>2, <1>5, <1>6, <1>9

(* "!" stands for the other truth value.                                   *)
LEMMA NotMeans ==
    ASSUME NEW cs \in Seq(Instruction), NEW p, NEW given, NEW h, Means(cs, p, given, h),
           NEW k \in BOOLEAN, k <=> ~h
    PROVE  Means(cs, not(p), given, k)
<1>1. PICK ds, v : p = [code |-> ds, v |-> v]
  BY DEF Means, Fresh
<1>2. /\ v \in Values /\ h \in BOOLEAN /\ v.r \in {"jmp", "const", "cmp", "operand"}
      /\ IsValue(v) /\ v.x \in Registers \union BOOLEAN /\ v.inv \in BOOLEAN
  BY <1>1 DEF Means, Fresh, Values
<1>3. PICK q : q = not(p)
  OBVIOUS
<1>4. Fresh(cs, q)
  BY <1>3, NotFresh DEF Means
<1>5. CASE v.r = "const"
  <2>1. (v.x <=> h) /\ v.x \in BOOLEAN
    BY <1>1, <1>2, <1>5 DEF Means, IsValue
  <2>2. q = [p EXCEPT !.v.x = ~@]
    BY <1>1, <1>3, <1>5 DEF not
  <2>3. q.v = [v EXCEPT !.x = ~@]
    BY <2>2, <1>1
  <2>4. q.v.r = "const" /\ q.v.x = ~v.x
    BY <2>3, <1>2, <1>5 DEF Values
  <2>5. q.v.x <=> k
    BY <2>1, <2>4
  <2> QED BY <2>4, <2>5, <1>3, <1>4 DEF Means
<1>6. CASE v.r = "cmp"
  <2>1. ((v.x \in given) # v.inv) <=> h
    BY <1>1, <1>6 DEF Means
  <2>2. q = [p EXCEPT !.v.inv = ~@]
    BY <1>1, <1>3, <1>6 DEF not
  <2>3. q.v = [v EXCEPT !.inv = ~@]
    BY <2>2, <1>1
  <2>4. q.v.r = "cmp" /\ q.v.x = v.x /\ q.v.inv = ~v.inv
    BY <2>3, <1>2, <1>6 DEF Values
  <2>5. ((q.v.x \in given) # q.v.inv) <=> k
    BY <2>1, <2>4, <1>2
  <2> QED BY <2>4, <2>5, <1>3, <1>4 DEF Means
<1>7. CASE v.r \notin {"const", "cmp"}
  <2>0. PICK i \in BOOLEAN : i = TRUE
    OBVIOUS
  <2>1. PICK r : r = gtst(p.code, p.v, i, 0, 0)
    OBVIOUS
  <2>2. q = [code |-> r.code, v |-> Value("jmp", "", FALSE, r.t)]
    BY <2>0, <2>1, <1>1, <1>3, <1>7 DEF not
  <2>3. q.v.r = "jmp" /\ q.v.t = r.t /\ q.v.inv = FALSE /\ q.code = r.code
    BY <2>2 DEF Value
  <2>4. PICK b : b = FALSE
    OBVIOUS
  <2>5. Decides(cs, cs, 0, 0, given, b)
    BY <2>4, NoneDecides
  <2>6. k <=> b \/ h # i
    BY <2>0, <2>4, <1>2
  <2>7. Decides(cs, r.code, r.t, 0, given, k)
    BY <2>1, <2>5, <2>6, TestDecides
  <2>8. PICK j : j = (k # q.v.inv)
    OBVIOUS
  <2>9. j = k
    BY <2>3, <2>8
  <2>10. Decides(cs, q.code, q.v.t, 0, given, k # q.v.inv)
    BY <2>3, <2>7, <2>8, <2>9
  <2> QED BY <2>3, <2>10, <1>3, <1>4 DEF Means
<1> QED BY <1>2, <1>5, <1>6, <1>7

(* Whether one of the first n operands is not inv.                         *)
OneIsNot(H, n, inv) == \E i \in 1 .. n : H[i] # inv

(* The operands g stand for the truth values H.                            *)
AllMean(w, g, n, given, H) == \A i \in 1 .. n : Means(w[i - 1].code, g[i], given, H[i])

(* expr_land leaves if an operand is false, expr_lor if one is true.       *)
LEMMA FoldDecides ==
    ASSUME NEW cs \in Seq(Instruction), NEW w, NEW g, NEW n \in Nat, NEW inv \in BOOLEAN,
           Folded(cs, w, g, n, inv), NEW given, NEW H, AllMean(w, g, n, given, H)
    PROVE  Decides(cs, w[n].code, w[n].t, 0, given, OneIsNot(H, n, inv))
<1> DEFINE I == {k \in 0 .. n :
                    ~Decides(cs, w[k].code, w[k].t, 0, given, OneIsNot(H, k, inv))}
<1>1. ASSUME I # {} PROVE FALSE
  <2>0. I \subseteq Nat
    OBVIOUS
  <2> HIDE DEF I
  <2>1. PICK k \in I : \A j \in I : k <= j
    BY <2>0, <1>1, LeastNat
  <2>2. k \in 0 .. n /\ ~Decides(cs, w[k].code, w[k].t, 0, given, OneIsNot(H, k, inv))
    BY DEF I
  <2>3. CASE k = 0
    <3>1. w[0].code = cs /\ w[0].t = 0
      BY DEF Folded
    <3>2. PICK b : b = OneIsNot(H, 0, inv)
      OBVIOUS
    <3>3. b = FALSE
      BY <3>2 DEF OneIsNot
    <3>4. Decides(cs, cs, 0, 0, given, b)
      BY <3>3, NoneDecides
    <3> QED BY <3>1, <3>2, <3>4, <2>2, <2>3
  <2>4. CASE k # 0
    <3>1. PICK j : j = k - 1
      OBVIOUS
    <3>2. j \in 0 .. n /\ k \in 1 .. n /\ ~(k <= j) /\ j = k - 1 /\ j \in Nat /\ k = j + 1
      BY <3>1, <2>2, <2>4
    <3>3. PICK b, c : b = OneIsNot(H, j, inv) /\ c = OneIsNot(H, k, inv)
      OBVIOUS
    <3>4. Decides(cs, w[j].code, w[j].t, 0, given, b)
      BY <3>2, <3>3, <2>1 DEF I
    <3>5. PICK s, p, h : s = w[j] /\ p = g[k] /\ h = H[k]
      OBVIOUS
    <3>6. Means(s.code, p, given, h)
      BY <3>2, <3>5 DEF AllMean
    <3>7. c <=> b \/ h # inv
      <4>1. \A i \in 1 .. k : i = k \/ i \in 1 .. j
        BY <3>2
      <4>2. k \in 1 .. k /\ \A i \in 1 .. j : i \in 1 .. k
        BY <3>2
      <4> QED BY <4>1, <4>2, <3>3, <3>5 DEF OneIsNot
    <3>8. w[k] = gtst(p.code, p.v, inv, s.t, 0)
      BY <3>2, <3>5 DEF Folded, expr_land_lor
    <3>9. PICK r : r = gtst(p.code, p.v, inv, s.t, 0)
      OBVIOUS
    <3>10. Decides(cs, r.code, r.t, 0, given, c)
      BY <3>4, <3>5, <3>6, <3>7, <3>9, TestDecides
    <3> QED BY <3>3, <3>8, <3>9, <3>10, <2>2
  <2> QED BY <2>3, <2>4
<1>2. n \in 0 .. n /\ n \notin I
  BY <1>1
<1> QED BY <1>2

(* An operand or a constant stands for what C says of it.                  *)
LEMMA LeafMeans ==
    ASSUME NEW cs \in Seq(Instruction), NEW e \in Simple, NEW given
    PROVE  Means(cs, Leaf(cs, e), given, LeafHolds(e, given))
<1>1. /\ e.op \in {"operand", "cmp", "const"}
      /\ e.op = "const" => e.x \in BOOLEAN
  BY DEF Simple
<1>2. PICK p : p = Leaf(cs, e)
  OBVIOUS
<1>3. p.v.r = e.op /\ p.v.x = e.x /\ p.v.inv = FALSE
  BY <1>2 DEF Leaf, Value
<1>4. Fresh(cs, p)
  BY <1>2, LeafFresh
<1>5. PICK h : h = LeafHolds(e, given)
  OBVIOUS
<1>6. CASE e.op = "const"
  <2>1. h \in BOOLEAN /\ (p.v.x <=> h)
    BY <1>1, <1>3, <1>5, <1>6 DEF LeafHolds
  <2> QED BY <2>1, <1>2, <1>3, <1>4, <1>5, <1>6 DEF Means
<1>7. CASE e.op # "const"
  <2>1. h = (e.x \in given)
    BY <1>5, <1>7 DEF LeafHolds
  <2>2. PICK b : b = (e.x \in given)
    OBVIOUS
  <2>3. b \in BOOLEAN /\ h = b
    BY <2>1, <2>2
  <2>4. ((p.v.x \in given) # p.v.inv) <=> b
    <3>1. CASE b = TRUE
      <4>1. e.x \in given
        BY <3>1, <2>2
      <4> QED BY <4>1, <3>1, <1>3
    <3>2. CASE b = FALSE
      <4>1. e.x \notin given
        BY <3>2, <2>2
      <4>2. p.v.x \notin given /\ ~p.v.inv /\ p.v.inv \in BOOLEAN
        BY <4>1, <1>3
      <4> QED BY <4>2, <3>2
    <3> QED BY <3>1, <3>2, <2>3
  <2>5. h \in BOOLEAN /\ (((p.v.x \in given) # p.v.inv) <=> h)
    BY <2>3, <2>4
  <2> QED BY <2>5, <1>1, <1>2, <1>3, <1>4, <1>5, <1>7 DEF Means
<1> QED BY <1>6, <1>7

(* The value of && or || stands for h, which is false for && and true for  *)
(* || as soon as one operand leaves.                                       *)
LEMMA FoldMeans ==
    ASSUME NEW cs \in Seq(Instruction), NEW w, NEW g, NEW n \in Nat, NEW inv \in BOOLEAN,
           Folded(cs, w, g, n, inv), NEW given, NEW H, AllMean(w, g, n, given, H),
           NEW h \in BOOLEAN, (h # inv) <=> OneIsNot(H, n, inv)
    PROVE  Means(cs, [code |-> w[n].code, v |-> Value("jmp", "", inv, w[n].t)], given, h)
<1>1. PICK bs, t : bs = w[n].code /\ t = w[n].t
  OBVIOUS
<1>2. w[n] = [code |-> bs, t |-> t] /\ w[n] \in Tested(cs)
  <2>1. n = 0 \/ n \in 1 .. n
    OBVIOUS
  <2>2. w[n] \in Tested(cs)
    BY <2>1 DEF Folded
  <2> QED BY <2>2, <1>1 DEF Tested
<1>3. PICK p : p = [code |-> bs, v |-> Value("jmp", "", inv, t)]
  OBVIOUS
<1>4. Fresh(cs, p)
  BY <1>2, <1>3, CombinedFresh
<1>5. p.code = bs /\ p.v.r = "jmp" /\ p.v.t = t /\ p.v.inv = inv
  BY <1>3 DEF Value
<1>6. PICK b : b = OneIsNot(H, n, inv)
  OBVIOUS
<1>7. Decides(cs, bs, t, 0, given, b)
  BY <1>1, <1>6, FoldDecides
<1>8. Decides(cs, p.code, p.v.t, 0, given, h # p.v.inv)
  <2>1. b <=> (h # inv)
    BY <1>6
  <2> QED BY <2>1, <1>5, <1>7 DEF Decides
<1> QED BY <1>1, <1>3, <1>4, <1>5, <1>8 DEF Means

(* A condition of at most one operator.                                    *)
LEMMA ShallowMeans ==
    ASSUME NEW cs \in Seq(Instruction), NEW e \in Simple \union Applied(Simple), NEW given
    PROVE  Means(cs, Shallow(cs, e), given, HoldsShallow(e, given))
<1>1. PICK S : S = Simple
  OBVIOUS
<1>2. CASE e \in Simple
  <2>1. Shallow(cs, e) = Leaf(cs, e) /\ HoldsShallow(e, given) = LeafHolds(e, given)
    BY <1>2 DEF Shallow, HoldsShallow, IsLeaf, Simple
  <2> QED BY <2>1, <1>2, LeafMeans
<1>3. CASE e \in [op : {"and", "or"}, es : Seq(S)]
  <2>1. PICK es, inv, n : es = e.es /\ inv = (e.op = "and") /\ n = Len(es)
    OBVIOUS
  <2>2. /\ es \in Seq(S) /\ inv \in BOOLEAN /\ e.op # "not" /\ e.op \in {"and", "or"}
        /\ n \in Nat /\ DOMAIN es = 1 .. n /\ \A i \in 1 .. n : es[i] \in S
    BY <2>1, <1>3
  <2>3. PICK r : r = AllTested(cs, es, inv, Leaf)
    OBVIOUS
  <2>4. PICK w : /\ r = w[Len(es)]
                 /\ Folded(cs, w, [i \in 1 .. Len(es) |-> Leaf(w[i - 1].code, es[i])],
                           Len(es), inv)
    BY <2>2, <2>3, <1>1, LeafFold
  <2>5. PICK g : g = [i \in 1 .. Len(es) |-> Leaf(w[i - 1].code, es[i])]
    OBVIOUS
  <2>6. PICK H : H = [i \in 1 .. n |-> LeafHolds(es[i], given)]
    OBVIOUS
  <2>7. Folded(cs, w, g, n, inv) /\ r = w[n]
    BY <2>1, <2>4, <2>5
  <2>8. AllMean(w, g, n, given, H)
    <3>1. ASSUME NEW i \in 1 .. n PROVE Means(w[i - 1].code, g[i], given, H[i])
      <4>1. PICK bs, d : bs = w[i - 1].code /\ d = es[i]
        OBVIOUS
      <4>2. w[i - 1] \in Tested(cs)
        <5>1. i - 1 = 0 \/ i - 1 \in 1 .. n
          BY <2>2
        <5> QED BY <5>1, <2>7 DEF Folded
      <4>3. bs \in Seq(Instruction) /\ d \in Simple
        BY <4>1, <4>2, <2>2, <1>1 DEF Tested
      <4>4. g[i] = Leaf(bs, d) /\ H[i] = LeafHolds(d, given)
        BY <4>1, <2>1, <2>5, <2>6
      <4> QED BY <4>1, <4>3, <4>4, LeafMeans
    <3> QED BY <3>1 DEF AllMean
  <2>9. PICK h : h = HoldsShallow(e, given)
    OBVIOUS
  <2>10. h \in BOOLEAN /\ ((h # inv) <=> OneIsNot(H, n, inv))
    <3>1. \A i \in 1 .. n : H[i] \in BOOLEAN /\ H[i] = LeafHolds(es[i], given)
      <4> TAKE i \in 1 .. n
      <4>1. Means(w[i - 1].code, g[i], given, H[i])
        BY <2>8 DEF AllMean
      <4> QED BY <4>1, <2>6 DEF Means
    <3>2. h = HoldsOf(e, given, LeafHolds)
      BY <2>2, <2>9 DEF HoldsShallow, IsLeaf
    <3>3. CASE e.op = "and"
      <4>1. h = \A i \in 1 .. n : LeafHolds(es[i], given)
        BY <3>2, <3>3, <2>1, <2>2 DEF HoldsOf
      <4>2. inv = TRUE
        BY <3>3, <2>1
      <4> QED BY <4>1, <4>2, <3>1 DEF OneIsNot
    <3>4. CASE e.op = "or"
      <4>1. h = \E i \in 1 .. n : LeafHolds(es[i], given)
        BY <3>2, <3>4, <2>1, <2>2 DEF HoldsOf
      <4>2. inv = FALSE
        BY <3>4, <2>1
      <4> QED BY <4>1, <4>2, <3>1 DEF OneIsNot
    <3> QED BY <3>3, <3>4, <2>2
  <2>11. PICK p : p = [code |-> w[n].code, v |-> Value("jmp", "", inv, w[n].t)]
    OBVIOUS
  <2>12. Means(cs, p, given, h)
    BY <2>2, <2>7, <2>8, <2>10, <2>11, FoldMeans
  <2>13. AllTested(cs, e.es, e.op = "and", Leaf) = r
    BY <2>1, <2>3
  <2>14. Combined(cs, e, Leaf) = p
    BY <2>1, <2>2, <2>7, <2>11, <2>13 DEF Combined
  <2>15. Shallow(cs, e) = p
    BY <2>2, <2>14 DEF Shallow, IsLeaf
  <2> QED BY <2>9, <2>12, <2>15
<1>4. CASE e \in [op : {"not"}, es : [{1} -> S]]
  <2>1. PICK d : d = e.es[1]
    OBVIOUS
  <2>2. d \in Simple /\ e.op = "not"
    BY <2>1, <1>1, <1>4
  <2>3. PICK p, h : p = Leaf(cs, d) /\ h = LeafHolds(d, given)
    OBVIOUS
  <2>4. Means(cs, p, given, h)
    BY <2>2, <2>3, LeafMeans
  <2>5. PICK k : k = ~h
    OBVIOUS
  <2>6. Shallow(cs, e) = not(p)
    BY <2>1, <2>2, <2>3 DEF Shallow, IsLeaf, Combined
  <2>7. HoldsShallow(e, given) = k
    BY <2>1, <2>2, <2>3, <2>5 DEF HoldsShallow, HoldsOf, IsLeaf
  <2>8. k \in BOOLEAN /\ (k <=> ~h)
    BY <2>5
  <2> QED BY <2>4, <2>6, <2>7, <2>8, NotMeans
<1> QED BY <1>1, <1>2, <1>3, <1>4 DEF Applied

(* Any condition.                                                          *)
LEMMA gexprMeans ==
    ASSUME NEW cs \in Seq(Instruction), NEW given,
           NEW e \in Simple \union Applied(Simple \union Applied(Simple))
    PROVE  Means(cs, gexpr(cs, e), given, True(e, given))
<1>1. PICK S : S = Simple \union Applied(Simple)
  OBVIOUS
<1>2. CASE e \in Simple
  <2>1. gexpr(cs, e) = Leaf(cs, e) /\ True(e, given) = LeafHolds(e, given)
    BY <1>2 DEF gexpr, True, IsLeaf, Simple
  <2> QED BY <2>1, <1>2, LeafMeans
<1>3. CASE e \in [op : {"and", "or"}, es : Seq(S)]
  <2>1. PICK es, inv, n : es = e.es /\ inv = (e.op = "and") /\ n = Len(es)
    OBVIOUS
  <2>2. /\ es \in Seq(S) /\ inv \in BOOLEAN /\ e.op # "not" /\ e.op \in {"and", "or"}
        /\ n \in Nat /\ DOMAIN es = 1 .. n /\ \A i \in 1 .. n : es[i] \in S
    BY <2>1, <1>3
  <2>3. PICK r : r = AllTested(cs, es, inv, Shallow)
    OBVIOUS
  <2>4. PICK w : /\ r = w[Len(es)]
                 /\ Folded(cs, w, [i \in 1 .. Len(es) |-> Shallow(w[i - 1].code, es[i])],
                           Len(es), inv)
    BY <2>2, <2>3, <1>1, ShallowFold
  <2>5. PICK g : g = [i \in 1 .. Len(es) |-> Shallow(w[i - 1].code, es[i])]
    OBVIOUS
  <2>6. PICK H : H = [i \in 1 .. n |-> HoldsShallow(es[i], given)]
    OBVIOUS
  <2>7. Folded(cs, w, g, n, inv) /\ r = w[n]
    BY <2>1, <2>4, <2>5
  <2>8. AllMean(w, g, n, given, H)
    <3>1. ASSUME NEW i \in 1 .. n PROVE Means(w[i - 1].code, g[i], given, H[i])
      <4>1. PICK bs, d : bs = w[i - 1].code /\ d = es[i]
        OBVIOUS
      <4>2. w[i - 1] \in Tested(cs)
        <5>1. i - 1 = 0 \/ i - 1 \in 1 .. n
          BY <2>2
        <5> QED BY <5>1, <2>7 DEF Folded
      <4>3. bs \in Seq(Instruction) /\ d \in Simple \union Applied(Simple)
        BY <4>1, <4>2, <2>2, <1>1 DEF Tested
      <4>4. g[i] = Shallow(bs, d) /\ H[i] = HoldsShallow(d, given)
        BY <4>1, <2>1, <2>5, <2>6
      <4> QED BY <4>1, <4>3, <4>4, ShallowMeans
    <3> QED BY <3>1 DEF AllMean
  <2>9. PICK h : h = True(e, given)
    OBVIOUS
  <2>10. h \in BOOLEAN /\ ((h # inv) <=> OneIsNot(H, n, inv))
    <3>1. \A i \in 1 .. n : H[i] \in BOOLEAN /\ H[i] = HoldsShallow(es[i], given)
      <4> TAKE i \in 1 .. n
      <4>1. Means(w[i - 1].code, g[i], given, H[i])
        BY <2>8 DEF AllMean
      <4> QED BY <4>1, <2>6 DEF Means
    <3>2. h = HoldsOf(e, given, HoldsShallow)
      BY <2>2, <2>9 DEF True, IsLeaf
    <3>3. CASE e.op = "and"
      <4>1. h = \A i \in 1 .. n : HoldsShallow(es[i], given)
        BY <3>2, <3>3, <2>1, <2>2 DEF HoldsOf
      <4>2. inv = TRUE
        BY <3>3, <2>1
      <4> QED BY <4>1, <4>2, <3>1 DEF OneIsNot
    <3>4. CASE e.op = "or"
      <4>1. h = \E i \in 1 .. n : HoldsShallow(es[i], given)
        BY <3>2, <3>4, <2>1, <2>2 DEF HoldsOf
      <4>2. inv = FALSE
        BY <3>4, <2>1
      <4> QED BY <4>1, <4>2, <3>1 DEF OneIsNot
    <3> QED BY <3>3, <3>4, <2>2
  <2>11. PICK p : p = [code |-> w[n].code, v |-> Value("jmp", "", inv, w[n].t)]
    OBVIOUS
  <2>12. Means(cs, p, given, h)
    BY <2>2, <2>7, <2>8, <2>10, <2>11, FoldMeans
  <2>13. AllTested(cs, e.es, e.op = "and", Shallow) = r
    BY <2>1, <2>3
  <2>14. Combined(cs, e, Shallow) = p
    BY <2>1, <2>2, <2>7, <2>11, <2>13 DEF Combined
  <2>15. gexpr(cs, e) = p
    BY <2>2, <2>14 DEF gexpr, IsLeaf
  <2> QED BY <2>9, <2>12, <2>15
<1>4. CASE e \in [op : {"not"}, es : [{1} -> S]]
  <2>1. PICK d : d = e.es[1]
    OBVIOUS
  <2>2. d \in Simple \union Applied(Simple) /\ e.op = "not"
    BY <2>1, <1>1, <1>4
  <2>3. PICK p, h : p = Shallow(cs, d) /\ h = HoldsShallow(d, given)
    OBVIOUS
  <2>4. Means(cs, p, given, h)
    BY <2>2, <2>3, ShallowMeans
  <2>5. PICK k : k = ~h
    OBVIOUS
  <2>6. gexpr(cs, e) = not(p)
    BY <2>1, <2>2, <2>3 DEF gexpr, IsLeaf, Combined
  <2>7. True(e, given) = k
    BY <2>1, <2>2, <2>3, <2>5 DEF True, HoldsOf, IsLeaf
  <2>8. k \in BOOLEAN /\ (k <=> ~h)
    BY <2>5
  <2> QED BY <2>4, <2>6, <2>7, <2>8, NotMeans
<1> QED BY <1>1, <1>2, <1>3, <1>4 DEF Applied

(* The test of a condition leaves by its chain just for those operands for *)
(* which C says that it does, whatever code it is generated behind.        *)
LEMMA TestIs ==
    ASSUME NEW cs \in Seq(Instruction), NEW e \in Condition, NEW inv \in BOOLEAN, NEW l \in Nat,
           NEW given
    PROVE  LET r == Test(cs, e, inv, l)
           IN  Leaves(r.code, ind(cs), r.t, given) = (True(e, given) # inv)
<1>1. e \in Simple \union Applied(Simple \union Applied(Simple))
  BY DEF Condition
<1>2. PICK g, h : g = gexpr(cs, e) /\ h = True(e, given)
  OBVIOUS
<1>3. Means(cs, g, given, h)
  BY <1>1, <1>2, gexprMeans
<1>4. PICK r : r = gtst(g.code, g.v, inv, 0, l)
  OBVIOUS
<1>5. Test(cs, e, inv, l) = r
  BY <1>2, <1>4 DEF Test
<1>6. PICK b, k : b = FALSE /\ k = (h # inv)
  OBVIOUS
<1>7. Decides(cs, r.code, r.t, l, given, k)
  <2>1. Decides(cs, cs, 0, l, given, b)
    BY <1>6, NoneDecides
  <2>2. k <=> b \/ h # inv
    BY <1>6
  <2> QED BY <2>1, <2>2, <1>3, <1>4, TestDecides
<1>8. PICK ds, t, a : ds = r.code /\ t = r.t /\ a = Len(cs) + 1
  OBVIOUS
<1>9. PICK L : Leaving(ds, t, given, a, L) /\ (a \in L <=> k)
  BY <1>7, <1>8 DEF Decides
<1>10. ds \in Seq(Instruction) /\ a \in 1 .. Len(ds) + 1 /\ Onward(ds, a)
  <2>1. ds \in Seq(Instruction) /\ Len(cs) <= Len(ds) /\ Onward(ds, a)
    BY <1>7, <1>8 DEF Decides, NewJumps
  <2>2. Len(cs) \in Nat /\ Len(ds) \in Nat
    BY <2>1, CodeType
  <2> QED BY <2>1, <2>2, <1>8
<1>11. Leaves(ds, a, t, given) = IF a \in L THEN TRUE ELSE FALSE
  BY <1>9, <1>10, LeavesIs
<1>12. Leaves(ds, a, t, given) = k
  <2>1. k \in BOOLEAN
    BY <1>6
  <2> QED BY <2>1, <1>9, <1>11
<1>13. ind(cs) = a
  BY <1>8 DEF ind
<1> QED BY <1>2, <1>5, <1>6, <1>8, <1>12, <1>13

-----------------------------------------------------------------------------
(* What the operations do to code that is threaded.                        *)
LEMMA ThreadsParts ==
    ASSUME NEW cs, NEW W, NEW p, Threads(cs, W, p)
    PROVE  /\ cs \in Seq(Instruction) /\ Len(cs) \in Nat
           /\ \A t, l : <<t, l>> \in W =>
                 /\ t \in 0 .. Len(cs) /\ l \in Nat
                 /\ \A i \in Chain(cs, t) : i \in 1 .. Len(cs) /\ WaitsFor(cs, i, l)
<1>1. cs \in Seq(Instruction)
  BY DEF Threads
<1>2. Len(cs) \in Nat
  BY <1>1, CodeType
<1>3. ASSUME NEW t, NEW l, <<t, l>> \in W
      PROVE  /\ t \in 0 .. Len(cs) /\ l \in Nat
             /\ \A i \in Chain(cs, t) : i \in 1 .. Len(cs) /\ WaitsFor(cs, i, l)
  <2>1. t \in 0 .. Len(cs) /\ l \in Nat /\ \A i \in Chain(cs, t) : WaitsFor(cs, i, l)
    BY <1>3 DEF Threads
  <2>2. Chain(cs, t) \subseteq 1 .. Len(cs)
    BY <2>1, <1>1, <1>2, ChainBelow
  <2> QED BY <2>1, <2>2
<1> QED BY <1>1, <1>2, <1>3

(* Instruction i is on a chain of W, or is not a jump that waits.          *)
Covered(cs, W, p, i) ==
    \/ cs[i] = Other
    \/ Arrived(cs[i], p)
    \/ \E t, l : <<t, l>> \in W /\ i \in Chain(cs, t)

(* Threads from its two parts.                                             *)
LEMMA ThreadsIf ==
    ASSUME NEW cs \in Seq(Instruction), NEW W, NEW p,
           \A t, l : <<t, l>> \in W =>
              t \in 0 .. Len(cs) /\ l \in Nat /\ \A i \in Chain(cs, t) : WaitsFor(cs, i, l),
           \A i \in 1 .. Len(cs) : Covered(cs, W, p, i)
    PROVE  Threads(cs, W, p)
BY DEF Threads, Covered

(* Threads, said of each instruction.                                      *)
LEMMA ThreadsCovers ==
    ASSUME NEW cs, NEW W, NEW p, Threads(cs, W, p)
    PROVE  \A i \in 1 .. Len(cs) : Covered(cs, W, p, i)
BY DEF Threads, Covered

(* A chain without jumps may come and go.                                  *)
LEMMA ThreadsZero ==
    ASSUME NEW cs, NEW R, NEW p, NEW l \in Nat
    PROVE  Threads(cs, R \union {<<0, l>>}, p) <=> Threads(cs, R, p)
<1> DEFINE W == R \union {<<0, l>>}
<1>1. ASSUME Threads(cs, R, p) PROVE Threads(cs, W, p)
  <2>1. cs \in Seq(Instruction) /\ 0 \in 0 .. Len(cs) /\ Chain(cs, 0) = {}
    BY <1>1, ThreadsParts, ChainIs
  <2>2. ASSUME NEW t, NEW k, <<t, k>> \in W
        PROVE  t \in 0 .. Len(cs) /\ k \in Nat /\ \A i \in Chain(cs, t) : WaitsFor(cs, i, k)
    <3>1. CASE <<t, k>> \in R
      BY <3>1, <1>1, ThreadsParts
    <3>2. CASE <<t, k>> = <<0, l>>
      BY <3>2, <2>1
    <3> QED BY <3>1, <3>2, <2>2
  <2>3. \A i \in 1 .. Len(cs) : Covered(cs, W, p, i)
    BY <1>1, ThreadsCovers DEF Covered
  <2> HIDE DEF W
  <2> QED BY <2>1, <2>2, <2>3, ThreadsIf
<1>2. ASSUME Threads(cs, W, p) PROVE Threads(cs, R, p)
  <2>1. cs \in Seq(Instruction) /\ Chain(cs, 0) = {}
    BY <1>2, ThreadsParts, ChainIs
  <2>2. \A t, k : <<t, k>> \in R =>
           t \in 0 .. Len(cs) /\ k \in Nat /\ \A i \in Chain(cs, t) : WaitsFor(cs, i, k)
    BY <1>2, ThreadsParts
  <2>3. \A i \in 1 .. Len(cs) : Covered(cs, R, p, i)
    <3> TAKE i \in 1 .. Len(cs)
    <3>1. Covered(cs, W, p, i)
      BY <1>2, ThreadsCovers
    <3>2. ASSUME NEW t, NEW k, <<t, k>> \in W, i \in Chain(cs, t) PROVE <<t, k>> \in R
      BY <3>2, <2>1
    <3> QED BY <3>1, <3>2 DEF Covered
  <2> QED BY <2>1, <2>2, <2>3, ThreadsIf
<1> QED BY <1>1, <1>2

(* A jump is put in front of its chain (gjmp, and gtst of an operand).     *)
LEMMA ThreadsJump ==
    ASSUME NEW cs, NEW R, NEW p, NEW t, NEW l, Threads(cs, R \union {<<t, l>>}, p),
           NEW d, IsJump(d, t, l)
    PROVE  Threads(Append(cs, d), R \union {<<Len(cs) + 1, l>>}, p)
<1> DEFINE W == R \union {<<t, l>>}
<1>1. PICK n : n = Len(cs) + 1
  OBVIOUS
<1> DEFINE V == R \union {<<n, l>>}
<1>2. /\ cs \in Seq(Instruction) /\ Len(cs) \in Nat /\ t \in 0 .. Len(cs) /\ l \in Nat
      /\ \A i \in Chain(cs, t) : i \in 1 .. Len(cs) /\ WaitsFor(cs, i, l)
  <2>1. <<t, l>> \in W
    OBVIOUS
  <2> QED BY <2>1, ThreadsParts
<1>3. PICK ds : ds = Append(cs, d)
  OBVIOUS
<1>4. /\ ds \in Seq(Instruction) /\ Len(ds) = n
      /\ \A i \in 1 .. Len(cs) : ds[i] = cs[i]
      /\ WaitsFor(ds, n, l)
      /\ Chain(ds, n) = {n} \union Chain(cs, t)
      /\ \A u \in 0 .. Len(cs) : Chain(ds, u) = Chain(cs, u)
  BY <1>1, <1>2, <1>3, AppendedJump
<1>5. n \in Nat /\ n \in 0 .. n
  BY <1>1, <1>2
<1>6. ASSUME NEW u, NEW k, <<u, k>> \in V
      PROVE  u \in 0 .. Len(ds) /\ k \in Nat /\ \A i \in Chain(ds, u) : WaitsFor(ds, i, k)
  <2>1. CASE <<u, k>> \in R
    <3>1. /\ u \in 0 .. Len(cs) /\ k \in Nat
          /\ \A i \in Chain(cs, u) : i \in 1 .. Len(cs) /\ WaitsFor(cs, i, k)
      <4>1. <<u, k>> \in W
        BY <2>1
      <4> QED BY <4>1, ThreadsParts
    <3>2. Chain(ds, u) = Chain(cs, u)
      BY <3>1, <1>4
    <3>3. \A i \in Chain(ds, u) : WaitsFor(ds, i, k)
      BY <3>1, <3>2, <1>4 DEF WaitsFor
    <3>4. u \in 0 .. Len(ds)
      BY <3>1, <1>1, <1>2, <1>4
    <3> QED BY <3>1, <3>3, <3>4
  <2>2. CASE u = n /\ k = l
    <3>1. \A i \in Chain(cs, t) : WaitsFor(ds, i, l)
      BY <1>2, <1>4 DEF WaitsFor
    <3> QED BY <3>1, <2>2, <1>2, <1>4, <1>5
  <2> QED BY <2>1, <2>2, <1>6
<1>7. \A i \in 1 .. Len(ds) : Covered(ds, V, p, i)
  <2> TAKE i \in 1 .. Len(ds)
  <2>1. CASE i = n
    <3>1. <<n, l>> \in V /\ i \in Chain(ds, n)
      BY <2>1, <1>4
    <3> QED BY <3>1 DEF Covered
  <2>2. CASE i # n
    <3>1. i \in 1 .. Len(cs) /\ ds[i] = cs[i]
      BY <2>2, <1>1, <1>2, <1>4
    <3>2. Covered(cs, W, p, i)
      BY <3>1, ThreadsCovers
    <3>3. ASSUME NEW u, NEW k, <<u, k>> \in W, i \in Chain(cs, u)
          PROVE  \E v, h : <<v, h>> \in V /\ i \in Chain(ds, v)
      <4>1. CASE <<u, k>> \in R
        <5>1. u \in 0 .. Len(cs)
          BY <3>3, ThreadsParts
        <5>2. <<u, k>> \in V /\ i \in Chain(ds, u)
          BY <5>1, <4>1, <3>3, <1>4
        <5> QED BY <5>2
      <4>2. CASE u = t
        <5>1. <<n, l>> \in V /\ i \in Chain(ds, n)
          BY <4>2, <3>3, <1>4
        <5> QED BY <5>1
      <4> QED BY <4>1, <4>2, <3>3
    <3> HIDE DEF V, W
    <3> QED BY <3>1, <3>2, <3>3 DEF Covered
  <2> QED BY <2>1, <2>2
<1>8. Threads(ds, V, p)
  <2> HIDE DEF V
  <2> QED BY <1>4, <1>6, <1>7, ThreadsIf
<1> QED BY <1>1, <1>3, <1>8

(* Another instruction, or a jump to where it goes.                        *)
LEMMA ThreadsAppend ==
    ASSUME NEW cs, NEW W, NEW p, Threads(cs, W, p),
           NEW d \in Instruction, d = Other \/ Arrived(d, p)
    PROVE  Threads(Append(cs, d), W, p)
<1>1. PICK n : n = Len(cs) + 1
  OBVIOUS
<1>2. cs \in Seq(Instruction) /\ Len(cs) \in Nat
  BY ThreadsParts
<1>3. PICK ds : ds = Append(cs, d)
  OBVIOUS
<1>4. /\ ds \in Seq(Instruction) /\ Len(ds) = n /\ ds[n] = d
      /\ \A i \in 1 .. Len(cs) : ds[i] = cs[i]
  BY <1>1, <1>2, <1>3
<1>5. ASSUME NEW u \in 0 .. Len(cs) PROVE Chain(ds, u) = Chain(cs, u) /\ u \in 0 .. Len(ds)
  <2>1. Chain(cs, u) \subseteq 1 .. Len(cs)
    BY ChainBelow, <1>2
  <2>2. \A i \in Chain(cs, u) : ds[i].next = cs[i].next
    BY <2>1, <1>4
  <2>3. u <= Len(ds) /\ u \in 0 .. Len(ds)
    BY <1>1, <1>2, <1>4
  <2> QED BY <2>2, <2>3, <1>2, <1>4, ChainSame
<1>6. ASSUME NEW u, NEW k, <<u, k>> \in W
      PROVE  u \in 0 .. Len(ds) /\ k \in Nat /\ \A i \in Chain(ds, u) : WaitsFor(ds, i, k)
  <2>1. /\ u \in 0 .. Len(cs) /\ k \in Nat
        /\ \A i \in Chain(cs, u) : i \in 1 .. Len(cs) /\ WaitsFor(cs, i, k)
    BY <1>6, ThreadsParts
  <2>2. Chain(ds, u) = Chain(cs, u) /\ u \in 0 .. Len(ds)
    BY <2>1, <1>5
  <2>3. \A i \in Chain(ds, u) : WaitsFor(ds, i, k)
    BY <2>1, <2>2, <1>4 DEF WaitsFor
  <2> QED BY <2>1, <2>2, <2>3
<1>7. \A i \in 1 .. Len(ds) : Covered(ds, W, p, i)
  <2> TAKE i \in 1 .. Len(ds)
  <2>1. CASE i = n
    BY <2>1, <1>4 DEF Covered
  <2>2. CASE i # n
    <3>1. i \in 1 .. Len(cs) /\ ds[i] = cs[i]
      BY <2>2, <1>1, <1>2, <1>4
    <3>2. Covered(cs, W, p, i)
      BY <3>1, ThreadsCovers
    <3>3. ASSUME NEW u, NEW k, <<u, k>> \in W, i \in Chain(cs, u) PROVE i \in Chain(ds, u)
      <4>1. u \in 0 .. Len(cs)
        BY <3>3, ThreadsParts
      <4> QED BY <4>1, <3>3, <1>5
    <3> QED BY <3>1, <3>2, <3>3 DEF Covered
  <2> QED BY <2>1, <2>2
<1>8. Threads(ds, W, p)
  BY <1>4, <1>6, <1>7, ThreadsIf
<1> QED BY <1>3, <1>8

(* The jumps of a condition, which wait for l.                             *)
LEMMA ThreadsNew ==
    ASSUME NEW cs, NEW R, NEW p, Threads(cs, R, p),
           NEW ds, NEW t, NEW l \in Nat, NewJumps(cs, ds, t, l)
    PROVE  Threads(ds, R \union {<<t, l>>}, p)
<1> DEFINE V == R \union {<<t, l>>}
<1>1. cs \in Seq(Instruction) /\ Len(cs) \in Nat
  BY ThreadsParts
<1>2. /\ ds \in Seq(Instruction) /\ Len(cs) <= Len(ds) /\ t \in 0 .. Len(ds)
      /\ \A i \in 1 .. Len(cs) : ds[i] = cs[i]
      /\ \A i \in Chain(ds, t) : WaitsFor(ds, i, l)
  BY DEF NewJumps
<1>3. Len(ds) \in Nat
  BY <1>2, CodeType
<1>4. ASSUME NEW u \in 0 .. Len(cs) PROVE Chain(ds, u) = Chain(cs, u) /\ u \in 0 .. Len(ds)
  <2>1. Chain(cs, u) \subseteq 1 .. Len(cs)
    BY ChainBelow, <1>1
  <2>2. \A i \in Chain(cs, u) : ds[i].next = cs[i].next
    BY <2>1, <1>2
  <2>3. u <= Len(ds) /\ u \in 0 .. Len(ds)
    BY <1>1, <1>2, <1>3
  <2> QED BY <2>2, <2>3, <1>1, <1>2, ChainSame
<1>5. ASSUME NEW u, NEW k, <<u, k>> \in V
      PROVE  u \in 0 .. Len(ds) /\ k \in Nat /\ \A i \in Chain(ds, u) : WaitsFor(ds, i, k)
  <2>1. CASE <<u, k>> \in R
    <3>1. /\ u \in 0 .. Len(cs) /\ k \in Nat
          /\ \A i \in Chain(cs, u) : i \in 1 .. Len(cs) /\ WaitsFor(cs, i, k)
      BY <2>1, ThreadsParts
    <3>2. Chain(ds, u) = Chain(cs, u) /\ u \in 0 .. Len(ds)
      BY <3>1, <1>4
    <3>3. \A i \in Chain(ds, u) : WaitsFor(ds, i, k)
      BY <3>1, <3>2, <1>2 DEF WaitsFor
    <3> QED BY <3>1, <3>2, <3>3
  <2>2. CASE u = t /\ k = l
    BY <2>2, <1>2
  <2> QED BY <2>1, <2>2, <1>5
<1>6. \A i \in 1 .. Len(ds) : Covered(ds, V, p, i)
  <2> TAKE i \in 1 .. Len(ds)
  <2>1. CASE i \in Chain(ds, t)
    <3>1. <<t, l>> \in V
      OBVIOUS
    <3> QED BY <3>1, <2>1 DEF Covered
  <2>2. CASE i \notin Chain(ds, t) /\ ~(i <= Len(cs))
    <3>1. i \in Len(cs) + 1 .. Len(ds)
      BY <2>2, <1>1, <1>3
    <3>2. ds[i].writes = 1 /\ ds[i].meant = 0
      BY <3>1, <2>2 DEF NewJumps
    <3> QED BY <3>2 DEF Covered, Arrived
  <2>3. CASE i <= Len(cs)
    <3>1. i \in 1 .. Len(cs) /\ ds[i] = cs[i]
      BY <2>3, <1>1, <1>2
    <3>2. Covered(cs, R, p, i)
      BY <3>1, ThreadsCovers
    <3>3. ASSUME NEW u, NEW k, <<u, k>> \in R, i \in Chain(cs, u)
          PROVE  <<u, k>> \in V /\ i \in Chain(ds, u)
      <4>1. u \in 0 .. Len(cs)
        BY <3>3, ThreadsParts
      <4> QED BY <4>1, <3>3, <1>4
    <3> HIDE DEF V
    <3> QED BY <3>1, <3>2, <3>3 DEF Covered
  <2> QED BY <2>1, <2>2, <2>3
<1> HIDE DEF V
<1>7. Threads(ds, V, p)
  BY <1>2, <1>5, <1>6, ThreadsIf
<1> QED BY <1>7 DEF V

(* No chain of R waits for l.                                              *)
Avoids(R, l) == \A t, k : <<t, k>> \in R => k # l

(* The jumps of a chain arrive at their label.                             *)
LEMMA ThreadsGsym ==
    ASSUME NEW cs, NEW R, NEW p, NEW t, NEW l, Threads(cs, R \union {<<t, l>>}, p),
           Avoids(R, l), NEW a \in Nat, p[l] = a
    PROVE  Threads(gsym_addr(cs, t, a), R, p) /\ Len(gsym_addr(cs, t, a)) = Len(cs)
<1> DEFINE W == R \union {<<t, l>>}
<1>1. PICK S : S = Chain(cs, t)
  OBVIOUS
<1>2. /\ cs \in Seq(Instruction) /\ Len(cs) \in Nat /\ t \in 0 .. Len(cs) /\ l \in Nat
      /\ \A i \in S : i \in 1 .. Len(cs) /\ WaitsFor(cs, i, l)
  <2>1. <<t, l>> \in W
    OBVIOUS
  <2> QED BY <1>1, <2>1, ThreadsParts
<1>3. PICK ds : ds = gsym_addr(cs, t, a)
  OBVIOUS
<1>4. /\ ds \in Seq(Instruction) /\ Len(ds) = Len(cs)
      /\ \A i \in 1 .. Len(cs) :
            /\ i \notin S => ds[i] = cs[i]
            /\ i \in S => /\ ds[i].meant = cs[i].meant
                          /\ ds[i].next = a /\ ds[i].writes = cs[i].writes + 1
  BY <1>1, <1>2, <1>3, Patches
<1>5. ASSUME NEW u, NEW k, <<u, k>> \in R
      PROVE  /\ u \in 0 .. Len(ds) /\ k \in Nat /\ \A i \in Chain(ds, u) : WaitsFor(ds, i, k)
             /\ Chain(ds, u) = Chain(cs, u)
  <2>1. /\ u \in 0 .. Len(cs) /\ k \in Nat
        /\ \A i \in Chain(cs, u) : i \in 1 .. Len(cs) /\ WaitsFor(cs, i, k)
    <3>1. <<u, k>> \in W
      BY <1>5
    <3> QED BY <3>1, ThreadsParts
  <2>2. k # l
    BY <1>5 DEF Avoids
  <2>3. \A i \in Chain(cs, u) : ds[i] = cs[i]
    <3> TAKE i \in Chain(cs, u)
    <3>1. cs[i].meant = k
      BY <2>1 DEF WaitsFor
    <3>2. i \in S => cs[i].meant = l
      BY <1>2 DEF WaitsFor
    <3>3. i \notin S
      BY <3>1, <3>2, <2>2
    <3> QED BY <3>3, <2>1, <1>4
  <2>4. Chain(ds, u) = Chain(cs, u)
    <3>1. u <= Len(ds) /\ \A i \in Chain(cs, u) : ds[i].next = cs[i].next
      BY <2>1, <2>3, <1>2, <1>4
    <3> QED BY <3>1, <2>1, <1>2, <1>4, ChainSame
  <2>5. \A i \in Chain(ds, u) : WaitsFor(ds, i, k)
    BY <2>1, <2>3, <2>4 DEF WaitsFor
  <2> QED BY <2>1, <2>4, <2>5, <1>4
<1>6. \A i \in 1 .. Len(ds) : Covered(ds, R, p, i)
  <2> TAKE i \in 1 .. Len(ds)
  <2>0. i \in 1 .. Len(cs)
    BY <1>4
  <2>1. CASE i \in S
    <3>1. cs[i].writes = 0 /\ cs[i].meant = l
      BY <2>1, <1>2 DEF WaitsFor
    <3>2. ds[i].meant = cs[i].meant /\ ds[i].next = a /\ ds[i].writes = cs[i].writes + 1
      BY <2>0, <2>1, <1>4
    <3>3. ds[i].writes = 1 /\ ds[i].next = p[ds[i].meant]
      BY <3>1, <3>2
    <3> QED BY <3>3 DEF Covered, Arrived
  <2>2. CASE i \notin S
    <3>1. ds[i] = cs[i]
      BY <2>0, <2>2, <1>4
    <3>2. Covered(cs, W, p, i)
      BY <2>0, ThreadsCovers
    <3>3. ASSUME NEW u, NEW k, <<u, k>> \in W, i \in Chain(cs, u)
          PROVE  <<u, k>> \in R /\ i \in Chain(ds, u)
      <4>1. <<u, k>> \in R
        BY <3>3, <2>2, <1>1
      <4> QED BY <4>1, <3>3, <1>5
    <3> HIDE DEF W
    <3> QED BY <3>1, <3>2, <3>3 DEF Covered
  <2> QED BY <2>1, <2>2
<1>7. Threads(ds, R, p)
  <2>1. \A u, k : <<u, k>> \in R =>
           u \in 0 .. Len(ds) /\ k \in Nat /\ \A i \in Chain(ds, u) : WaitsFor(ds, i, k)
    BY <1>5
  <2> QED BY <2>1, <1>4, <1>6, ThreadsIf
<1> QED BY <1>3, <1>4, <1>7

-----------------------------------------------------------------------------
(* The chains of the statements o and of the returns, t.                   *)
WaitsOf(o, t) == {<<t, Exit>>} \union UNION {Chains(o[i]) : i \in 1 .. Len(o)}

(* Those but the ones of statement k.                                      *)
Rest(o, t, k) == {<<t, Exit>>} \union UNION {Chains(o[i]) : i \in (1 .. Len(o)) \ {k}}

(* What it is to be one of these chains.                                   *)
LEMMA InWaits ==
    ASSUME NEW o, NEW t, NEW w
    PROVE  /\ w \in WaitsOf(o, t) <=> w = <<t, Exit>> \/ \E i \in 1 .. Len(o) : w \in Chains(o[i])
           /\ \A k : w \in Rest(o, t, k) <=>
                 w = <<t, Exit>> \/ \E i \in (1 .. Len(o)) \ {k} : w \in Chains(o[i])
BY DEF WaitsOf, Rest

(* A statement is opened, closed, or changed.                              *)
LEMMA WaitsPush ==
    ASSUME NEW o \in Seq(Stmt), NEW s \in Stmt, NEW t
    PROVE  /\ Append(o, s) \in Seq(Stmt) /\ Len(Append(o, s)) = Len(o) + 1
           /\ Append(o, s)[Len(o) + 1] = s
           /\ \A i \in 1 .. Len(o) : Append(o, s)[i] = o[i]
           /\ WaitsOf(Append(o, s), t) = WaitsOf(o, t) \union Chains(s)
<1>1. PICK u : u = Append(o, s)
  OBVIOUS
<1>2. /\ Len(o) \in Nat /\ u \in Seq(Stmt) /\ Len(u) = Len(o) + 1 /\ u[Len(o) + 1] = s
      /\ \A i \in 1 .. Len(o) : u[i] = o[i]
  BY <1>1
<1>3. 1 .. Len(u) = (1 .. Len(o)) \union {Len(o) + 1}
  BY <1>2
<1>4. ASSUME NEW w PROVE w \in WaitsOf(u, t) <=> w \in WaitsOf(o, t) \/ w \in Chains(s)
  <2>1. (\E i \in 1 .. Len(u) : w \in Chains(u[i])) <=>
           (\E i \in 1 .. Len(o) : w \in Chains(o[i])) \/ w \in Chains(s)
    BY <1>2, <1>3
  <2> QED BY <2>1, InWaits
<1>5. WaitsOf(u, t) = WaitsOf(o, t) \union Chains(s)
  BY <1>4
<1> QED BY <1>1, <1>2, <1>5

(* The innermost statement ends: its chains no longer wait.                *)
LEMMA WaitsPop ==
    ASSUME NEW o \in Seq(Stmt), o # <<>>, NEW t
    PROVE  /\ Front(o) \in Seq(Stmt) /\ Len(o) \in Nat \ {0} /\ Len(Front(o)) = Len(o) - 1
           /\ Last(o) = o[Len(o)] /\ Last(o) \in Stmt
           /\ \A i \in 1 .. Len(o) - 1 : Front(o)[i] = o[i]
           /\ WaitsOf(Front(o), t) = Rest(o, t, Len(o))
           /\ WaitsOf(o, t) = WaitsOf(Front(o), t) \union Chains(Last(o))
<1>1. PICK u : u = Front(o)
  OBVIOUS
<1>2. PICK n : n = Len(o)
  OBVIOUS
<1>3. n \in Nat \ {0} /\ \A i \in 1 .. n : o[i] \in Stmt
  BY <1>2
<1>4. u = SubSeq(o, 1, n - 1)
  BY <1>1, <1>2 DEF Front
<1>5. u \in Seq(Stmt) /\ Len(u) = n - 1
  BY <1>2, <1>3, <1>4
<1>6. \A i \in 1 .. n - 1 : u[i] = o[i]
  BY <1>2, <1>3, <1>4
<1>7. Last(o) = o[n] /\ o[n] \in Stmt
  BY <1>2, <1>3 DEF Last
<1>8. 1 .. n = (1 .. n - 1) \union {n} /\ (1 .. n) \ {n} = 1 .. n - 1
  BY <1>3
<1>9. ASSUME NEW w
      PROVE  /\ w \in WaitsOf(u, t) <=> w \in Rest(o, t, n)
             /\ w \in WaitsOf(o, t) <=> w \in WaitsOf(u, t) \/ w \in Chains(o[n])
  <2>1. w \in WaitsOf(u, t) <=> w = <<t, Exit>> \/ \E i \in 1 .. n - 1 : w \in Chains(u[i])
    BY <1>5, InWaits
  <2>2. /\ w \in WaitsOf(o, t) <=> w = <<t, Exit>> \/ \E i \in 1 .. n : w \in Chains(o[i])
        /\ w \in Rest(o, t, n) <=>
              w = <<t, Exit>> \/ \E i \in (1 .. n) \ {n} : w \in Chains(o[i])
    BY <1>2, InWaits
  <2> QED BY <2>1, <2>2, <1>6, <1>8
<1>10. WaitsOf(u, t) = Rest(o, t, n) /\ WaitsOf(o, t) = WaitsOf(u, t) \union Chains(o[n])
  BY <1>9
<1> QED BY <1>1, <1>2, <1>3, <1>5, <1>6, <1>7, <1>10

(* Statement k becomes s.                                                  *)
LEMMA WaitsAt ==
    ASSUME NEW o \in Seq(Stmt), NEW k \in 1 .. Len(o), NEW s \in Stmt, NEW t
    PROVE  LET u == [o EXCEPT ![k] = s]
           IN  /\ u \in Seq(Stmt) /\ Len(u) = Len(o) /\ u[k] = s
               /\ \A i \in 1 .. Len(o) : i # k => u[i] = o[i]
               /\ WaitsOf(o, t) = Rest(o, t, k) \union Chains(o[k])
               /\ WaitsOf(u, t) = Rest(o, t, k) \union Chains(s)
<1>1. PICK u : u = [o EXCEPT ![k] = s]
  OBVIOUS
<1>2. /\ u \in Seq(Stmt) /\ Len(u) = Len(o) /\ u[k] = s
      /\ \A i \in 1 .. Len(o) : i # k => u[i] = o[i]
  BY <1>1
<1>3. ASSUME NEW w
      PROVE  /\ w \in WaitsOf(o, t) <=> w \in Rest(o, t, k) \/ w \in Chains(o[k])
             /\ w \in WaitsOf(u, t) <=> w \in Rest(o, t, k) \/ w \in Chains(s)
  <2>1. /\ w \in WaitsOf(o, t) <=> w = <<t, Exit>> \/ \E i \in 1 .. Len(o) : w \in Chains(o[i])
        /\ w \in WaitsOf(u, t) <=> w = <<t, Exit>> \/ \E i \in 1 .. Len(u) : w \in Chains(u[i])
        /\ w \in Rest(o, t, k) <=>
              w = <<t, Exit>> \/ \E i \in (1 .. Len(o)) \ {k} : w \in Chains(o[i])
    BY InWaits
  <2>2. (\E i \in 1 .. Len(u) : w \in Chains(u[i])) <=>
           (\E i \in (1 .. Len(o)) \ {k} : w \in Chains(o[i])) \/ w \in Chains(s)
    BY <1>2
  <2> QED BY <2>1, <2>2
<1>4. WaitsOf(o, t) = Rest(o, t, k) \union Chains(o[k])
  BY <1>3
<1>5. WaitsOf(u, t) = Rest(o, t, k) \union Chains(s)
  BY <1>3
<1> QED BY <1>1, <1>2, <1>4, <1>5

(* The labels that jumps wait for are those of the statements.             *)
LEMMA NestedParts ==
    ASSUME NEW o, NEW p, Nested(o, p)
    PROVE  /\ o \in Seq(Stmt) /\ Len(o) \in Nat /\ Len(p) \in Nat /\ Len(p) >= 1
           /\ \A i \in 1 .. Len(o) :
                 /\ o[i] \in Stmt /\ OwnLabels(o[i], Len(p)) /\ Fits(o[i], p)
                 /\ Labels(o[i]) \subseteq 2 .. Len(p)
           /\ \A i, j \in 1 .. Len(o) : i # j => Labels(o[i]) \intersect Labels(o[j]) = {}
<1>1. /\ o \in Seq(Stmt) /\ Len(o) \in Nat /\ Len(p) >= 1
      /\ \A i \in 1 .. Len(o) : OwnLabels(o[i], Len(p)) /\ Fits(o[i], p) /\ o[i] \in Stmt
      /\ \A i, j \in 1 .. Len(o) : i # j => Labels(o[i]) \intersect Labels(o[j]) = {}
  BY SMTT(30) DEF Nested
<1>2. Len(p) \in Nat
  BY DEF Nested
<1>3. ASSUME NEW i \in 1 .. Len(o) PROVE Labels(o[i]) \subseteq 2 .. Len(p)
  <2>1. OwnLabels(o[i], Len(p))
    BY <1>1
  <2> QED BY <2>1, <1>2 DEF OwnLabels, Labels, Exit
<1> QED BY <1>1, <1>2, <1>3

(* The chains of a statement wait for its own labels.                      *)
LEMMA ChainsLabels ==
    ASSUME NEW s \in Stmt, NEW n, OwnLabels(s, n), NEW u, NEW k, <<u, k>> \in Chains(s)
    PROVE  k \in Labels(s)
<1>1. s.kind \in {"then", "else", "switch", "expr"} \union Loops
  BY DEF Stmt, Kinds, Loops
<1>2. CASE s.kind = "then"
  BY <1>2 DEF Chains, OwnLabels, Labels
<1>3. CASE s.kind = "else"
  BY <1>3 DEF Chains, OwnLabels, Labels
<1>4. CASE s.kind = "switch"
  BY <1>4 DEF Chains, OwnLabels, Labels, Loops
<1>5. CASE s.kind = "expr"
  BY <1>5 DEF Chains, Loops
<1>6. CASE s.kind \in Loops
  BY <1>6 DEF Chains, OwnLabels, Labels, Loops
<1> QED BY <1>1, <1>2, <1>3, <1>4, <1>5, <1>6

(* A chain waits for the end of the function or for a label of its         *)
(* statement.                                                              *)
LEMMA WaitsLabels ==
    ASSUME NEW o, NEW p, Nested(o, p), NEW t, NEW u, NEW l, <<u, l>> \in WaitsOf(o, t)
    PROVE  l = Exit \/ \E i \in 1 .. Len(o) : <<u, l>> \in Chains(o[i]) /\ l \in Labels(o[i])
<1>1. CASE <<u, l>> = <<t, Exit>>
  BY <1>1
<1>2. CASE \E i \in 1 .. Len(o) : <<u, l>> \in Chains(o[i])
  BY <1>2, NestedParts, ChainsLabels
<1> QED BY <1>1, <1>2 DEF WaitsOf

(* The chains of other statements wait for other labels.                   *)
LEMMA AvoidsNew ==
    ASSUME NEW o, NEW p, Nested(o, p), NEW t, NEW l, l > Len(p), l \in Nat
    PROVE  Avoids(WaitsOf(o, t), l)
<1> SUFFICES ASSUME NEW u, NEW k, <<u, k>> \in WaitsOf(o, t) PROVE k # l
  BY DEF Avoids
<1>1. Len(p) \in Nat /\ Len(p) >= 1 /\ \A i \in 1 .. Len(o) : Labels(o[i]) \subseteq 2 .. Len(p)
  BY NestedParts
<1>2. CASE k = Exit
  BY <1>1, <1>2 DEF Exit
<1>3. CASE \E i \in 1 .. Len(o) : k \in Labels(o[i])
  BY <1>1, <1>3
<1> QED BY <1>2, <1>3, WaitsLabels

(* The chains of the other statements do not wait for a label of statement *)
(* k.                                                                      *)
LEMMA AvoidsRest ==
    ASSUME NEW o, NEW p, Nested(o, p), NEW t, NEW k \in 1 .. Len(o), NEW l \in Labels(o[k])
    PROVE  Avoids(Rest(o, t, k), l)
<1> SUFFICES ASSUME NEW u, NEW h, <<u, h>> \in Rest(o, t, k) PROVE h # l
  BY DEF Avoids
<1>1. /\ Labels(o[k]) \subseteq 2 .. Len(p)
      /\ \A i \in 1 .. Len(o) : i # k => Labels(o[i]) \intersect Labels(o[k]) = {}
      /\ \A i \in 1 .. Len(o) : o[i] \in Stmt /\ OwnLabels(o[i], Len(p))
  BY NestedParts
<1>2. CASE <<u, h>> = <<t, Exit>>
  BY <1>1, <1>2 DEF Exit
<1>3. CASE \E i \in (1 .. Len(o)) \ {k} : <<u, h>> \in Chains(o[i])
  <2>1. PICK i \in (1 .. Len(o)) \ {k} : <<u, h>> \in Chains(o[i])
    BY <1>3
  <2>2. h \in Labels(o[i])
    BY <2>1, <1>1, ChainsLabels
  <2> QED BY <2>1, <2>2, <1>1
<1> QED BY <1>2, <1>3 DEF Rest

(* Nor do those of the statements around the innermost one, for its labels.*)
LEMMA AvoidsPop ==
    ASSUME NEW o, NEW p, Nested(o, p), o # <<>>, NEW t, NEW l \in Labels(Last(o))
    PROVE  Avoids(WaitsOf(Front(o), t), l)
<1>1. o \in Seq(Stmt)
  BY NestedParts
<1>2. /\ Len(o) \in Nat \ {0} /\ Len(Front(o)) = Len(o) - 1 /\ Last(o) = o[Len(o)]
      /\ \A i \in 1 .. Len(o) - 1 : Front(o)[i] = o[i]
  BY <1>1, WaitsPop
<1>3. Avoids(Rest(o, t, Len(o)), l)
  <2>1. Len(o) \in 1 .. Len(o) /\ l \in Labels(o[Len(o)])
    BY <1>2
  <2> QED BY <2>1, AvoidsRest
<1>4. WaitsOf(Front(o), t) = Rest(o, t, Len(o))
  BY <1>1, WaitsPop
<1> QED BY <1>3, <1>4

(* The places q of the labels of o2, which is o but for statement k: other *)
(* statements keep theirs, and k has labels that are new or its own.       *)
Renests(o, p, o2, q, k) ==
    /\ o2 \in Seq(Stmt) /\ (\E S : q \in Seq(S)) /\ Len(q) >= Len(p)
    /\ \A i \in 1 .. Len(o2) : i # k =>
          i <= Len(o) /\ o2[i] = o[i] /\ \A l \in Labels(o[i]) : q[l] = p[l]
    /\ k \in 1 .. Len(o2) =>
          /\ OwnLabels(o2[k], Len(q)) /\ Fits(o2[k], q)
          /\ \A l \in Labels(o2[k]) : l > Len(p) \/ (k <= Len(o) /\ l \in Labels(o[k]))

(* The statements are nested as before.                                    *)
LEMMA NestedAgain ==
    ASSUME NEW o, NEW p, Nested(o, p), NEW o2, NEW q, NEW k, Renests(o, p, o2, q, k)
    PROVE  Nested(o2, q)
<1>1. /\ o \in Seq(Stmt) /\ Len(o) \in Nat /\ Len(p) \in Nat /\ Len(p) >= 1
      /\ \A i \in 1 .. Len(o) :
            /\ o[i] \in Stmt /\ OwnLabels(o[i], Len(p)) /\ Fits(o[i], p)
            /\ Labels(o[i]) \subseteq 2 .. Len(p)
      /\ \A i, j \in 1 .. Len(o) : i # j => Labels(o[i]) \intersect Labels(o[j]) = {}
  BY NestedParts
<1>2. /\ o2 \in Seq(Stmt) /\ (\E S : q \in Seq(S)) /\ Len(q) >= Len(p)
      /\ \A i \in 1 .. Len(o2) : i # k =>
            i <= Len(o) /\ o2[i] = o[i] /\ \A l \in Labels(o[i]) : q[l] = p[l]
      /\ k \in 1 .. Len(o2) =>
            /\ OwnLabels(o2[k], Len(q)) /\ Fits(o2[k], q)
            /\ \A l \in Labels(o2[k]) : l > Len(p) \/ (k <= Len(o) /\ l \in Labels(o[k]))
  BY DEF Renests
<1>3. Len(q) \in Nat /\ Len(q) >= 1 /\ Len(o2) \in Nat
  BY <1>1, <1>2
<1>4. ASSUME NEW i \in 1 .. Len(o2) PROVE OwnLabels(o2[i], Len(q)) /\ Fits(o2[i], q)
  <2>1. CASE i = k
    BY <2>1, <1>2
  <2>2. CASE i # k
    <3>1. i \in 1 .. Len(o) /\ o2[i] = o[i]
      BY <2>2, <1>1, <1>2
    <3>2. PICK s \in Stmt : s = o[i]
      BY <3>1, <1>1
    <3>3. OwnLabels(s, Len(p)) /\ Fits(s, p) /\ \A l \in Labels(s) : q[l] = p[l]
      BY <3>1, <3>2, <2>2, <1>1, <1>2
    <3>4. OwnLabels(s, Len(q))
      <4>1. \A l \in 0 .. Len(p) : l \in 0 .. Len(q)
        BY <1>1, <1>2, <1>3
      <4> QED BY <4>1, <3>3 DEF OwnLabels
    <3>5. /\ s.kind = "while" => s.cont \in Labels(s)
          /\ s.kind = "for" => s.cont \in Labels(s)
          /\ s.kind = "do" => s.after \in Labels(s)
      BY <3>3 DEF OwnLabels, Labels, Loops
    <3>6. Fits(s, q)
      BY <3>3, <3>5 DEF Fits
    <3> QED BY <3>1, <3>2, <3>4, <3>6
  <2> QED BY <2>1, <2>2
<1>5. ASSUME NEW i \in 1 .. Len(o2), i # k, k \in 1 .. Len(o2)
      PROVE  Labels(o2[i]) \intersect Labels(o2[k]) = {}
  <2>1. i \in 1 .. Len(o) /\ o2[i] = o[i]
    BY <1>1, <1>2, <1>5
  <2>2. Labels(o2[i]) \subseteq 2 .. Len(p)
    BY <2>1, <1>1
  <2>3. ASSUME NEW l \in Labels(o2[k]), l \in Labels(o2[i]) PROVE FALSE
    <3>1. ~(l > Len(p))
      BY <2>2, <2>3, <1>1
    <3>2. k \in 1 .. Len(o) /\ l \in Labels(o[k])
      BY <3>1, <1>1, <1>2, <1>5
    <3> QED BY <3>2, <2>1, <2>3, <1>1, <1>5
  <2> QED BY <2>3
<1>6. ASSUME NEW i \in 1 .. Len(o2), NEW j \in 1 .. Len(o2), i # j
      PROVE  Labels(o2[i]) \intersect Labels(o2[j]) = {}
  <2>1. CASE i = k
    BY <2>1, <1>5, <1>6
  <2>2. CASE j = k
    BY <2>2, <1>5, <1>6
  <2>3. CASE i # k /\ j # k
    <3>1. i \in 1 .. Len(o) /\ o2[i] = o[i] /\ j \in 1 .. Len(o) /\ o2[j] = o[j]
      BY <2>3, <1>1, <1>2
    <3> QED BY <3>1, <1>1, <1>6
  <2> QED BY <2>1, <2>2, <2>3
<1> QED BY <1>2, <1>3, <1>4, <1>6 DEF Nested

(* Places: a label is met, and labels are added.                           *)
IsPlace(p) == \E S : p \in Seq(S)

Met(p, q, x, a) == q = [p EXCEPT ![x] = a]

(* One label gets its place, and the others keep theirs.                   *)
LEMMA PlaceSet ==
    ASSUME NEW p, IsPlace(p), NEW x \in 1 .. Len(p), NEW a, NEW q, Met(p, q, x, a)
    PROVE  /\ IsPlace(q) /\ Len(q) = Len(p) /\ q[x] = a
           /\ \A l \in 1 .. Len(p) : l # x => q[l] = p[l]
<1>1. PICK S : p \in Seq(S)
  BY DEF IsPlace
<1>2. q = [p EXCEPT ![x] = a]
  BY DEF Met
<1>3. PICK T : T = S \union {a}
  OBVIOUS
<1>4. p \in Seq(T) /\ a \in T /\ Len(p) \in Nat
  BY <1>1, <1>3
<1>5. q \in Seq(T) /\ Len(q) = Len(p) /\ q[x] = a /\ \A l \in 1 .. Len(p) : l # x => q[l] = p[l]
  BY <1>2, <1>4
<1> QED BY <1>2, <1>5 DEF IsPlace

(* New labels come after the others.                                       *)
LEMMA PlaceAdd ==
    ASSUME NEW p, IsPlace(p), NEW r, IsPlace(r)
    PROVE  /\ IsPlace(p \o r) /\ Len(p) \in Nat /\ Len(r) \in Nat
           /\ Len(p \o r) = Len(p) + Len(r)
           /\ \A l \in 1 .. Len(p) : (p \o r)[l] = p[l]
           /\ \A j \in 1 .. Len(r) : (p \o r)[Len(p) + j] = r[j]
<1>1. PICK S : p \in Seq(S)
  BY DEF IsPlace
<1>2. PICK R : r \in Seq(R)
  BY DEF IsPlace
<1>3. PICK T : T = S \union R
  OBVIOUS
<1>4. p \in Seq(T) /\ r \in Seq(T)
  BY <1>1, <1>2, <1>3
<1>5. PICK q : q = p \o r
  OBVIOUS
<1>6. q \in Seq(T) /\ Len(q) = Len(p) + Len(r) /\ Len(p) \in Nat /\ Len(r) \in Nat
  BY <1>4, <1>5
<1>7. \A l \in 1 .. Len(p) : q[l] = p[l]
  BY <1>4, <1>5
<1>8. \A j \in 1 .. Len(r) : q[Len(p) + j] = r[j]
  BY <1>4, <1>5
<1> QED BY <1>5, <1>6, <1>7, <1>8 DEF IsPlace

(* One new label comes after the others.                                   *)
LEMMA PlaceAppend ==
    ASSUME NEW p, IsPlace(p), NEW a
    PROVE  /\ IsPlace(Append(p, a)) /\ Len(p) \in Nat /\ Len(Append(p, a)) = Len(p) + 1
           /\ \A l \in 1 .. Len(p) : Append(p, a)[l] = p[l]
           /\ Append(p, a)[Len(p) + 1] = a
<1>1. PICK S : p \in Seq(S)
  BY DEF IsPlace
<1>2. PICK T : T = S \union {a}
  OBVIOUS
<1>3. p \in Seq(T) /\ a \in T
  BY <1>1, <1>2
<1>4. Append(p, a) \in Seq(T) /\ Len(p) \in Nat /\ Len(Append(p, a)) = Len(p) + 1
  BY <1>3
<1>5. (\A l \in 1 .. Len(p) : Append(p, a)[l] = p[l]) /\ Append(p, a)[Len(p) + 1] = a
  BY <1>3
<1> QED BY <1>4, <1>5 DEF IsPlace

-----------------------------------------------------------------------------
(* Settle: the labels that are used get their numbers, in order.           *)
Ranked(U) ==
    /\ Cardinality(U) \in Nat /\ Cardinality(U) >= 1
    /\ Rank(U, 0) = 0 /\ Rank(U, 1) = 1
    /\ \A l \in U : Rank(U, l) \in 1 .. Cardinality(U)
    /\ \A l, k \in U : Rank(U, l) = Rank(U, k) => l = k
    /\ \A l \in U : (CHOOSE k \in U : Rank(U, k) = Rank(U, l)) = l

(* The labels of U are numbered from 1, without gaps, in their order.      *)
LEMMA RankIs ==
    ASSUME NEW m \in Nat, NEW U \in SUBSET (1 .. m), 1 \in U PROVE Ranked(U)
<1>0. \A u \in U : u \in Nat /\ u >= 1 /\ ~(u <= 0) /\ (u <= 1 => u = 1)
  OBVIOUS
<1>1. \A l : Rank(U, l) = Cardinality(Upto(U, l))
  BY DEF Rank, Upto
<1>2. /\ IsFiniteSet(U) /\ Cardinality(U) \in Nat
      /\ \A l \in U : Cardinality(Upto(U, l)) \in 1 .. Cardinality(U)
      /\ \A l, k \in U : l < k => Cardinality(Upto(U, l)) < Cardinality(Upto(U, k))
  BY CountUpto
<1>3. \A l \in U : Rank(U, l) \in 1 .. Cardinality(U)
  BY <1>1, <1>2
<1>4. \A l, k \in U : l < k => Rank(U, l) < Rank(U, k)
  BY <1>1, <1>2
<1>5. \A l, k \in U : Rank(U, l) = Rank(U, k) => l = k
  <2> TAKE l, k \in U
  <2> HAVE Rank(U, l) = Rank(U, k)
  <2>1. Rank(U, l) \in Nat /\ l \in Nat /\ k \in Nat
    BY <1>2, <1>3
  <2>2. ~(l < k) /\ ~(k < l)
    BY <2>1, <1>4
  <2> QED BY <2>1, <2>2
<1>6. \A l \in U : (CHOOSE k \in U : Rank(U, k) = Rank(U, l)) = l
  <2> TAKE l \in U
  <2>1. PICK k : k = CHOOSE h \in U : Rank(U, h) = Rank(U, l)
    OBVIOUS
  <2>2. k \in U /\ Rank(U, k) = Rank(U, l)
    BY <2>1
  <2> QED BY <2>1, <2>2, <1>5
<1>7. Rank(U, 0) = 0
  <2>1. Upto(U, 0) = {}
    BY <1>0 DEF Upto
  <2> QED BY <2>1, <1>1, FS_EmptySet
<1>8. Rank(U, 1) = 1
  <2>1. Upto(U, 1) = {1}
    BY <1>0 DEF Upto
  <2> QED BY <2>1, <1>1, FS_Singleton
<1>9. Cardinality(U) >= 1
  BY <1>2, <1>3
<1> QED BY <1>2, <1>3, <1>5, <1>6, <1>7, <1>8, <1>9 DEF Ranked

(* Every label of a statement, and every one that a chain waits for, is in *)
(* use.                                                                    *)
LEMMA UsedIs ==
    ASSUME NEW cs, NEW o, NEW t, NEW p, Threads(cs, WaitsOf(o, t), p), Nested(o, p)
    PROVE  /\ Used(cs, o, p) \in SUBSET (1 .. Len(p)) /\ 1 \in Used(cs, o, p)
           /\ \A i \in 1 .. Len(o) : Labels(o[i]) \subseteq Used(cs, o, p)
           /\ \A u, l : <<u, l>> \in WaitsOf(o, t) => l \in Used(cs, o, p)
<1>1. PICK U : U = Used(cs, o, p)
  OBVIOUS
<1>2. /\ o \in Seq(Stmt) /\ Len(p) \in Nat /\ Len(p) >= 1 /\ DOMAIN o = 1 .. Len(o)
      /\ \A i \in 1 .. Len(o) : Labels(o[i]) \subseteq 2 .. Len(p)
  BY NestedParts
<1>3. 1 \in U /\ \A i \in 1 .. Len(o) : Labels(o[i]) \subseteq U
  BY <1>1, <1>2 DEF Used, Exit
<1>4. \A u, l : <<u, l>> \in WaitsOf(o, t) => l \in U /\ l \in 1 .. Len(p)
  <2> TAKE u, l
  <2> HAVE <<u, l>> \in WaitsOf(o, t)
  <2>1. CASE l = Exit
    BY <2>1, <1>2, <1>3 DEF Exit
  <2>2. CASE \E i \in 1 .. Len(o) : l \in Labels(o[i])
    BY <2>2, <1>2, <1>3
  <2> QED BY <2>1, <2>2, WaitsLabels
<1>5. ASSUME NEW j \in DOMAIN cs, ~Arrived(cs[j], p), cs[j].meant # 0
      PROVE  cs[j].meant \in 1 .. Len(p)
  <2>1. j \in 1 .. Len(cs)
    BY CodeType, ThreadsParts
  <2>2. Covered(cs, WaitsOf(o, t), p, j)
    BY <2>1, ThreadsCovers
  <2>3. cs[j] # Other
    <3>1. Other.meant = 0
      BY DEF Other, Instr
    <3> QED BY <3>1, <1>5
  <2>4. PICK u, l : <<u, l>> \in WaitsOf(o, t) /\ j \in Chain(cs, u)
    BY <2>2, <2>3, <1>5 DEF Covered
  <2>5. WaitsFor(cs, j, l)
    BY <2>4, ThreadsParts
  <2> QED BY <2>4, <2>5, <1>4 DEF WaitsFor
<1>6. ASSUME NEW l \in U PROVE l \in 1 .. Len(p)
  <2>1. CASE l = Exit
    BY <2>1, <1>2 DEF Exit
  <2>2. CASE \E i \in 1 .. Len(o) : l \in Labels(o[i])
    BY <2>2, <1>2
  <2>3. CASE \E j \in DOMAIN cs : ~Arrived(cs[j], p) /\ l = cs[j].meant /\ l # 0
    BY <2>3, <1>5
  <2>4. \/ l = Exit \/ \E i \in DOMAIN o : l \in Labels(o[i])
        \/ \E j \in DOMAIN cs : ~Arrived(cs[j], p) /\ l = cs[j].meant /\ l # 0
    <3> DEFINE X == {Labels(o[i]) : i \in DOMAIN o}
               D == {j \in DOMAIN cs : ~Arrived(cs[j], p)}
               Y == {cs[i].meant : i \in D}
    <3>1. Used(cs, o, p) = {Exit} \union (UNION X) \union (Y \ {0})
      BY DEF Used
    <3>2. /\ \A x \in X : \E i \in DOMAIN o : x = Labels(o[i])
          /\ \A y \in Y : \E j \in D : y = cs[j].meant
      OBVIOUS
    <3>3. \A j \in D : j \in DOMAIN cs /\ ~Arrived(cs[j], p)
      OBVIOUS
    <3> HIDE DEF X, D, Y
    <3>4. l = Exit \/ (\E x \in X : l \in x) \/ (l \in Y /\ l # 0)
      BY <3>1, <1>1
    <3> QED BY <3>2, <3>3, <3>4
  <2> QED BY <2>1, <2>2, <2>3, <2>4, <1>2
<1> QED BY <1>1, <1>3, <1>4, <1>6

(* A statement with the new numbers of its labels.                         *)
Renamed(s, U) ==
    [s EXCEPT !.brk = Rank(U, @), !.cont = Rank(U, @), !.after = Rank(U, @)]

Renames(s, r, U) ==
    /\ r \in Stmt /\ OwnLabels(r, Cardinality(U))
    /\ \A l : l \in Labels(r) => \E k \in Labels(s) : l = Rank(U, k)
    /\ \A u, l : <<u, l>> \in Chains(s) => <<u, Rank(U, l)>> \in Chains(r)
    /\ \A u, l : <<u, l>> \in Chains(r) => \E k : <<u, k>> \in Chains(s) /\ l = Rank(U, k)
    /\ r.kind = s.kind /\ r.c = s.c /\ r.d = s.d
    /\ r.cont = Rank(U, s.cont) /\ r.after = Rank(U, s.after)

(* Its chains wait for the new numbers of the labels they waited for.      *)
LEMMA RenamedIs ==
    ASSUME NEW U, Ranked(U), 1 \in U,
           NEW s \in Stmt, NEW n, OwnLabels(s, n), Labels(s) \subseteq U
    PROVE  Renames(s, Renamed(s, U), U)
<1>1. PICK r : r = Renamed(s, U)
  OBVIOUS
<1>2. PICK b, c, f : b = Rank(U, s.brk) /\ c = Rank(U, s.cont) /\ f = Rank(U, s.after)
  OBVIOUS
<1>3. /\ Cardinality(U) \in Nat /\ Cardinality(U) >= 1 /\ Rank(U, 0) = 0 /\ Rank(U, 1) = 1
      /\ 1 \in U
      /\ \A l \in U : Rank(U, l) \in 1 .. Cardinality(U)
      /\ \A l, k \in U : Rank(U, l) = Rank(U, k) => l = k
  BY DEF Ranked
<1>4. s.brk \in U \union {0} /\ s.cont \in U \union {0} /\ s.after \in U \union {0}
  BY DEF Labels
<1>5. \A l \in U \union {0} : Rank(U, l) \in 0 .. Cardinality(U) /\ (Rank(U, l) = 0 <=> l = 0)
  BY <1>3
<1>6. /\ b \in 0 .. Cardinality(U) /\ c \in 0 .. Cardinality(U) /\ f \in 0 .. Cardinality(U)
      /\ (b = 0 <=> s.brk = 0) /\ (c = 0 <=> s.cont = 0) /\ (f = 0 <=> s.after = 0)
  BY <1>2, <1>4, <1>5
<1>7. r = [s EXCEPT !.brk = b, !.cont = c, !.after = f]
  BY <1>1, <1>2 DEF Renamed
<1>8. /\ r.kind = s.kind /\ r.a = s.a /\ r.b = s.b /\ r.c = s.c /\ r.d = s.d
      /\ r.brk = b /\ r.cont = c /\ r.after = f
  BY <1>7 DEF Stmt
<1>9. r \in Stmt
  <2>1. b \in Nat /\ c \in Nat /\ f \in Nat
    BY <1>3, <1>6
  <2> QED BY <2>1, <1>7 DEF Stmt
<1>10. /\ b = 1 => s.brk = 1
       /\ c = 1 => s.cont = 1
       /\ f = 1 => s.after = 1
       /\ b # 0 /\ b = c => s.brk = s.cont
       /\ b # 0 /\ b = f => s.brk = s.after
       /\ c # 0 /\ c = f => s.cont = s.after
  <2>1. \A l, k \in U \union {0} : Rank(U, l) = Rank(U, k) => l = k
    BY <1>3, <1>5
  <2>2. \A l \in U \union {0} : Rank(U, l) = 1 => l = 1
    BY <2>1, <1>3
  <2>3. (b = 1 => s.brk = 1) /\ (c = 1 => s.cont = 1) /\ (f = 1 => s.after = 1)
    BY <2>2, <1>2, <1>4
  <2>4. (b = c => s.brk = s.cont) /\ (b = f => s.brk = s.after) /\ (c = f => s.cont = s.after)
    BY <2>1, <1>2, <1>4
  <2> QED BY <2>3, <2>4
<1>11. OwnLabels(r, Cardinality(U))
  <2>1. Exit \notin Labels(r)
    BY <1>8, <1>10 DEF Labels, Exit, OwnLabels
  <2> QED BY <2>1, <1>6, <1>8, <1>10 DEF OwnLabels
<1>12. \A l : l \in Labels(r) => \E k \in Labels(s) : l = Rank(U, k)
  BY <1>2, <1>6, <1>8 DEF Labels
<1>13. s.kind \in {"then", "else", "switch", "expr"} \union Loops
  BY DEF Stmt, Kinds, Loops
<1>14. /\ \A u, l : <<u, l>> \in Chains(s) => <<u, Rank(U, l)>> \in Chains(r)
       /\ \A u, l : <<u, l>> \in Chains(r) => \E k : <<u, k>> \in Chains(s) /\ l = Rank(U, k)
  <2>1. CASE s.kind = "then"
    BY <2>1, <1>2, <1>8 DEF Chains
  <2>2. CASE s.kind = "else"
    BY <2>2, <1>2, <1>8 DEF Chains
  <2>3. CASE s.kind = "switch"
    BY <2>3, <1>2, <1>8 DEF Chains, Loops
  <2>4. CASE s.kind = "expr"
    BY <2>4, <1>8 DEF Chains, Loops
  <2>5. CASE s.kind \in Loops
    BY <2>5, <1>2, <1>8 DEF Chains, Loops
  <2> QED BY <2>1, <2>2, <2>3, <2>4, <2>5, <1>13
<1> QED BY <1>1, <1>2, <1>8, <1>9, <1>11, <1>12, <1>14 DEF Renames

(* The instructions between two actions.                                   *)
SettledCode(cs, p, U) ==
    [i \in 1 .. Len(cs) |->
        IF cs[i].op = "other" \/ Arrived(cs[i], p) THEN Other
        ELSE [cs[i] EXCEPT !.op = "jmp", !.x = "", !.inv = FALSE, !.meant = Rank(U, @)]]

(* An instruction that is not a jump.                                      *)
LEMMA OtherIs ==
    /\ Other \in Instruction /\ Other.op = "other" /\ Other.writes = 0 /\ Other.meant = 0
    /\ Other.next = 0
<1>1. "" \in Registers /\ 0 \in Nat /\ FALSE \in BOOLEAN
  BY DEF Registers
<1> QED BY <1>1 DEF Other, Instr, Instruction

(* The statements and places, and the chains that wait.                    *)
SettledIn(cs, o, p, U, o2, q) ==
    /\ U = Used(cs, o, p) /\ o2 = [i \in 1 .. Len(o) |-> Renamed(o[i], U)]
    /\ q = Places(U, p)
WaitsAgain(o, o2, t, U) ==
    /\ \A u, l : <<u, l>> \in WaitsOf(o, t) => <<u, Rank(U, l)>> \in WaitsOf(o2, t)
    /\ \A u, l : <<u, l>> \in WaitsOf(o2, t) =>
          \E k : <<u, k>> \in WaitsOf(o, t) /\ l = Rank(U, k)

(* The chains are the same ones, under the new numbers.                    *)
LEMMA SettledThreads ==
    ASSUME NEW cs, NEW o, NEW t, NEW p, Threads(cs, WaitsOf(o, t), p), Nested(o, p),
           NEW U, NEW o2, NEW q, SettledIn(cs, o, p, U, o2, q), WaitsAgain(o, o2, t, U),
           NEW ds, ds = SettledCode(cs, p, U)
    PROVE  /\ Threads(ds, WaitsOf(o2, t), q) /\ Len(ds) = Len(cs)
           /\ \A i \in 1 .. Len(ds) : ds[i].writes = 0
<1>1. PICK W, V : W = WaitsOf(o, t) /\ V = WaitsOf(o2, t)
  OBVIOUS
<1>2. /\ Threads(cs, W, p) /\ U = Used(cs, o, p)
      /\ \A u, l : <<u, l>> \in W => <<u, Rank(U, l)>> \in V
      /\ \A u, l : <<u, l>> \in V => \E k : <<u, k>> \in W /\ l = Rank(U, k)
  <2>1. Threads(cs, W, p)
    BY <1>1
  <2>2. U = Used(cs, o, p)
    BY DEF SettledIn
  <2>3. /\ \A u, l : <<u, l>> \in WaitsOf(o, t) => <<u, Rank(U, l)>> \in WaitsOf(o2, t)
        /\ \A u, l : <<u, l>> \in WaitsOf(o2, t) =>
              \E k : <<u, k>> \in WaitsOf(o, t) /\ l = Rank(U, k)
    BY Zenon DEF WaitsAgain
  <2> QED BY <2>1, <2>2, <2>3, <1>1
<1>3. cs \in Seq(Instruction) /\ Len(cs) \in Nat
  BY <1>2, ThreadsParts
<1>4. \A u, l : <<u, l>> \in W =>
         /\ u \in 0 .. Len(cs) /\ l \in Nat
         /\ \A i \in Chain(cs, u) : i \in 1 .. Len(cs) /\ WaitsFor(cs, i, l)
  BY <1>2, ThreadsParts
<1>5. \A u, l : <<u, l>> \in W => Rank(U, l) \in Nat
  <2> TAKE u, l
  <2> HAVE <<u, l>> \in W
  <2>1. U \in SUBSET (1 .. Len(p)) /\ 1 \in U /\ l \in U
    BY <1>1, <1>2, UsedIs
  <2>2. Len(p) \in Nat
    BY NestedParts
  <2>3. Ranked(U)
    BY <2>1, <2>2, RankIs
  <2>4. Rank(U, l) \in 1 .. Cardinality(U) /\ Cardinality(U) \in Nat
    BY <2>1, <2>3 DEF Ranked
  <2> QED BY <2>4
<1>6. ASSUME NEW u, NEW l, <<u, l>> \in W, NEW i \in Chain(cs, u)
      PROVE  /\ i \in 1 .. Len(cs) /\ ds[i] \in Instruction
             /\ ds[i].next = cs[i].next /\ ds[i].writes = 0 /\ WaitsFor(ds, i, Rank(U, l))
  <2>1. i \in 1 .. Len(cs) /\ WaitsFor(cs, i, l)
    BY <1>4, <1>6
  <2>2. PICK d \in Instruction : d = cs[i]
    BY <2>1, <1>3
  <2>3. d.op # "other" /\ d.writes = 0 /\ d.next \in 0 .. i - 1 /\ d.meant = l
    BY <2>1, <2>2 DEF WaitsFor
  <2>4. ~Arrived(d, p)
    BY <2>3 DEF Arrived
  <2>5. PICK m : m = Rank(U, l)
    OBVIOUS
  <2>6. ds[i] = [d EXCEPT !.op = "jmp", !.x = "", !.inv = FALSE, !.meant = m]
    BY <2>1, <2>2, <2>3, <2>4, <2>5 DEF SettledCode
  <2>7. m \in Nat /\ "" \in Registers
    BY <1>5, <1>6, <2>5 DEF Registers
  <2>8. ds[i] \in Instruction
    BY <2>6, <2>7 DEF Instruction
  <2>9. ds[i].op = "jmp" /\ ds[i].writes = 0 /\ ds[i].next = d.next /\ ds[i].meant = m
    BY <2>3, <2>6 DEF Instruction
  <2> QED BY <2>1, <2>2, <2>3, <2>5, <2>8, <2>9 DEF WaitsFor
<1>7. ASSUME NEW i \in 1 .. Len(cs), ~\E u, l : <<u, l>> \in W /\ i \in Chain(cs, u)
      PROVE  ds[i] = Other
  <2>1. cs[i] = Other \/ Arrived(cs[i], p)
    BY <1>2, <1>7, ThreadsCovers DEF Covered
  <2>2. Other.op = "other"
    BY OtherIs
  <2>3. cs[i].op = "other" \/ Arrived(cs[i], p)
    BY <2>1, <2>2
  <2> QED BY <2>3 DEF SettledCode
<1>8. \A i \in 1 .. Len(cs) : ds[i] \in Instruction /\ ds[i].writes = 0
  BY <1>6, <1>7, OtherIs
<1>9. ds \in Seq(Instruction) /\ Len(ds) = Len(cs)
  <2>1. ds = [i \in 1 .. Len(cs) |-> ds[i]]
    BY DEF SettledCode
  <2> QED BY <2>1, <1>3, <1>8
<1>10. ASSUME NEW u, NEW l, <<u, l>> \in W PROVE Chain(ds, u) = Chain(cs, u)
  <2>1. \A i \in Chain(cs, u) : ds[i].next = cs[i].next
    BY <1>6, <1>10
  <2>2. u \in 0 .. Len(cs) /\ u <= Len(ds)
    BY <1>3, <1>4, <1>9, <1>10
  <2> QED BY <2>1, <2>2, <1>3, <1>9, ChainSame
<1>11. ASSUME NEW u, NEW l, <<u, l>> \in V
       PROVE  u \in 0 .. Len(ds) /\ l \in Nat /\ \A i \in Chain(ds, u) : WaitsFor(ds, i, l)
  <2>1. PICK k : <<u, k>> \in W /\ l = Rank(U, k)
    BY <1>2, <1>11
  <2> QED BY <2>1, <1>4, <1>5, <1>6, <1>9, <1>10
<1>12. \A i \in 1 .. Len(ds) : Covered(ds, V, q, i)
  <2> TAKE i \in 1 .. Len(ds)
  <2>1. i \in 1 .. Len(cs)
    BY <1>9
  <2>2. CASE \E u, l : <<u, l>> \in W /\ i \in Chain(cs, u)
    <3>1. PICK u, l : <<u, l>> \in W /\ i \in Chain(cs, u)
      BY <2>2
    <3>2. <<u, Rank(U, l)>> \in V /\ i \in Chain(ds, u)
      BY <3>1, <1>2, <1>10
    <3> QED BY <3>2 DEF Covered
  <2>3. CASE ~\E u, l : <<u, l>> \in W /\ i \in Chain(cs, u)
    BY <2>1, <2>3, <1>7 DEF Covered
  <2> QED BY <2>2, <2>3
<1>13. Threads(ds, V, q)
  BY <1>9, <1>11, <1>12, ThreadsIf
<1> QED BY <1>1, <1>8, <1>9, <1>13

(* What Settle makes of statements and places.                             *)
LEMMA SettledNested ==
    ASSUME NEW cs, NEW o, NEW t, NEW p, Threads(cs, WaitsOf(o, t), p), Nested(o, p),
           NEW U, NEW o2, NEW q, SettledIn(cs, o, p, U, o2, q)
    PROVE  Nested(o2, q) /\ Len(o2) = Len(o) /\ WaitsAgain(o, o2, t, U)
<1>1. PICK m, N : m = Len(p) /\ N = Cardinality(U)
  OBVIOUS
<1>0. /\ U = Used(cs, o, p) /\ o2 = [i \in 1 .. Len(o) |-> Renamed(o[i], U)]
      /\ q = [i \in 1 .. N |-> p[CHOOSE l \in U : Rank(U, l) = i]]
  BY <1>1 DEF SettledIn, Places
<1>2. /\ o \in Seq(Stmt) /\ Len(o) \in Nat /\ m \in Nat
      /\ \A i \in 1 .. Len(o) : o[i] \in Stmt /\ OwnLabels(o[i], m) /\ Fits(o[i], p)
      /\ \A i, j \in 1 .. Len(o) : i # j => Labels(o[i]) \intersect Labels(o[j]) = {}
  BY <1>1, NestedParts
<1>3. /\ U \in SUBSET (1 .. m) /\ 1 \in U
      /\ \A i \in 1 .. Len(o) : Labels(o[i]) \subseteq U
  BY <1>0, <1>1, UsedIs
<1>14. Ranked(U)
  BY <1>2, <1>3, RankIs
<1>4. /\ N \in Nat /\ N >= 1
      /\ Rank(U, 1) = 1
      /\ \A l \in U : Rank(U, l) \in 1 .. N
      /\ \A l, k \in U : Rank(U, l) = Rank(U, k) => l = k
      /\ \A l \in U : (CHOOSE k \in U : Rank(U, k) = Rank(U, l)) = l
  BY <1>1, <1>14 DEF Ranked
<1>5. ASSUME NEW i \in 1 .. Len(o)
      PROVE  Renames(o[i], o2[i], U)
  <2>1. PICK s \in Stmt : s = o[i]
    BY <1>2
  <2>2. OwnLabels(s, m) /\ Labels(s) \subseteq U
    BY <2>1, <1>2, <1>3
  <2>3. o2[i] = Renamed(s, U)
    BY <2>1, <1>0
  <2> QED BY <2>1, <2>2, <2>3, <1>3, <1>14, RenamedIs
<1>6. o2 \in Seq(Stmt) /\ Len(o2) = Len(o)
  <2>1. \A i \in 1 .. Len(o) : o2[i] \in Stmt
    BY <1>5 DEF Renames
  <2>2. o2 = [i \in 1 .. Len(o) |-> o2[i]]
    BY <1>0
  <2> QED BY <2>1, <2>2, <1>2
<1>7. (\E S : q \in Seq(S)) /\ Len(q) = N
  <2>1. PICK S : S = {q[i] : i \in 1 .. N}
    OBVIOUS
  <2>2. q = [i \in 1 .. N |-> q[i]]
    BY <1>0
  <2>3. \A i \in 1 .. N : q[i] \in S
    BY <2>1
  <2>4. q \in Seq(S) /\ Len(q) = N
    BY <2>2, <2>3, <1>4
  <2> QED BY <2>4
<1>8. \A l \in U : q[Rank(U, l)] = p[l]
  <2> TAKE l \in U
  <2>1. Rank(U, l) \in 1 .. N /\ (CHOOSE k \in U : Rank(U, k) = Rank(U, l)) = l
    BY <1>4
  <2>2. PICK r : r = Rank(U, l)
    OBVIOUS
  <2>3. q[r] = p[CHOOSE k \in U : Rank(U, k) = r]
    BY <2>1, <2>2, <1>0
  <2> QED BY <2>1, <2>2, <2>3
<1>9. ASSUME NEW i \in 1 .. Len(o) PROVE Fits(o2[i], q)
  <2>1. PICK s, r : s = o[i] /\ r = o2[i]
    OBVIOUS
  <2>2. Fits(s, p) /\ OwnLabels(s, m) /\ Labels(s) \subseteq U
    BY <2>1, <1>2, <1>3
  <2>3. /\ s.kind \in {"while", "for"} => s.cont \in U
        /\ s.kind = "do" => s.after \in U
    BY <2>2 DEF OwnLabels, Labels, Loops
  <2>4. /\ r.kind = s.kind /\ r.c = s.c /\ r.d = s.d
        /\ r.cont = Rank(U, s.cont) /\ r.after = Rank(U, s.after)
    BY <2>1, <1>5 DEF Renames
  <2>5. /\ s.kind \in {"while", "for"} => q[r.cont] = p[s.cont]
        /\ s.kind = "do" => q[r.after] = p[s.after]
    BY <2>3, <2>4, <1>8
  <2>6. Fits(r, q)
    BY <2>2, <2>4, <2>5 DEF Fits
  <2> QED BY <2>1, <2>6
<1>10. ASSUME NEW i \in 1 .. Len(o), NEW j \in 1 .. Len(o), i # j
       PROVE  Labels(o2[i]) \intersect Labels(o2[j]) = {}
  <2>1. ASSUME NEW l \in Labels(o2[i]), l \in Labels(o2[j]) PROVE FALSE
    <3>1. PICK k \in Labels(o[i]) : l = Rank(U, k)
      BY <1>5 DEF Renames
    <3>2. PICK h \in Labels(o[j]) : l = Rank(U, h)
      BY <2>1, <1>5 DEF Renames
    <3>3. k \in U /\ h \in U
      BY <1>3
    <3>4. k = h
      BY <3>1, <3>2, <3>3, <1>4
    <3> QED BY <3>4, <1>2, <1>10
  <2> QED BY <2>1
<1>11. Nested(o2, q)
  <2>1. Len(q) >= 1 /\ \A i \in 1 .. Len(o) : OwnLabels(o2[i], Len(q))
    BY <1>1, <1>4, <1>5, <1>7 DEF Renames
  <2>2. \A i \in 1 .. Len(o2) : OwnLabels(o2[i], Len(q)) /\ Fits(o2[i], q)
    BY <2>1, <1>6, <1>9
  <2>3. \A i, j \in 1 .. Len(o2) : i # j => Labels(o2[i]) \intersect Labels(o2[j]) = {}
    BY <1>6, <1>10
  <2> QED BY <2>1, <2>2, <2>3, <1>6, <1>7 DEF Nested
<1>12. ASSUME NEW u, NEW l, <<u, l>> \in WaitsOf(o, t)
       PROVE  <<u, Rank(U, l)>> \in WaitsOf(o2, t)
  <2>1. CASE <<u, l>> = <<t, Exit>>
    <3>1. <<u, Rank(U, l)>> = <<t, Exit>>
      BY <2>1, <1>4 DEF Exit
    <3> QED BY <3>1, InWaits
  <2>2. CASE \E i \in 1 .. Len(o) : <<u, l>> \in Chains(o[i])
    <3>1. \E i \in 1 .. Len(o2) : <<u, Rank(U, l)>> \in Chains(o2[i])
      BY <2>2, <1>5, <1>6 DEF Renames
    <3> QED BY <3>1, InWaits
  <2> QED BY <2>1, <2>2, <1>12, InWaits
<1>13. ASSUME NEW u, NEW l, <<u, l>> \in WaitsOf(o2, t)
       PROVE  \E k : <<u, k>> \in WaitsOf(o, t) /\ l = Rank(U, k)
  <2>1. CASE <<u, l>> = <<t, Exit>>
    <3>1. <<u, Exit>> \in WaitsOf(o, t) /\ l = Rank(U, Exit)
      BY <2>1, <1>4, InWaits DEF Exit
    <3> QED BY <3>1
  <2>2. CASE \E i \in 1 .. Len(o2) : <<u, l>> \in Chains(o2[i])
    <3>1. PICK i \in 1 .. Len(o) : <<u, l>> \in Chains(o2[i])
      BY <2>2, <1>6
    <3>2. PICK k : <<u, k>> \in Chains(o[i]) /\ l = Rank(U, k)
      BY <3>1, <1>5 DEF Renames
    <3>3. <<u, k>> \in WaitsOf(o, t)
      BY <3>2, InWaits
    <3> QED BY <3>2, <3>3
  <2> QED BY <2>1, <2>2, <1>13, InWaits
<1> QED BY <1>6, <1>11, <1>12, <1>13 DEF WaitsAgain

(* Code that is threaded, and statements that are nested, stay so.         *)
LEMMA SettleKeeps ==
    ASSUME NEW cs, NEW o, NEW t, NEW p, Threads(cs, WaitsOf(o, t), p), Nested(o, p),
           Settle(cs, o, t, p), ended' \in BOOLEAN
    PROVE  IInv'
<1>1. PICK U : U = Used(cs, o, p)
  OBVIOUS
<1>2. /\ cs \in Seq(Instruction) /\ o \in Seq(Stmt)
      /\ DOMAIN cs = 1 .. Len(cs) /\ DOMAIN o = 1 .. Len(o)
  <2>1. cs \in Seq(Instruction) /\ o \in Seq(Stmt)
    BY ThreadsParts, NestedParts
  <2> QED BY <2>1
<1>3. PICK ds, o2, q : ds = SettledCode(cs, p, U) /\ SettledIn(cs, o, p, U, o2, q)
  BY <1>1 DEF SettledIn
<1>4. code' = ds /\ open' = o2 /\ rsym' = t /\ place' = q /\ Len(cs) <= MaxCode /\ Len(o) <= MaxOpen
  <2>1. code' = ds
    BY <1>1, <1>2, <1>3 DEF Settle, SettledCode
  <2>2. open' = o2
    BY <1>1, <1>2, <1>3 DEF Settle, SettledIn, Renamed
  <2>3. place' = q
    <3>1. q = Places(U, p)
      BY <1>3 DEF SettledIn
    <3>2. place' = Places(Used(cs, o, p), p)
      BY DEF Settle
    <3> QED BY <3>1, <3>2, <1>1
  <2>4. rsym' = t /\ Len(cs) <= MaxCode /\ Len(o) <= MaxOpen
    BY DEF Settle
  <2> QED BY <2>1, <2>2, <2>3, <2>4
<1>5. Nested(o2, q) /\ Len(o2) = Len(o) /\ WaitsAgain(o, o2, t, U)
  BY <1>3, SettledNested
<1>6. /\ Threads(ds, WaitsOf(o2, t), q) /\ Len(ds) = Len(cs)
      /\ \A i \in 1 .. Len(ds) : ds[i].writes = 0
  BY <1>3, <1>5, SettledThreads
<1>7. Waiting' = WaitsOf(o2, t)
  <2>1. DOMAIN o2 = 1 .. Len(o2)
    BY <1>3, <1>5 DEF SettledIn
  <2> QED BY <2>1, <1>4 DEF Waiting, WaitsOf
<1> QED BY <1>4, <1>5, <1>6, <1>7 DEF IInv

-----------------------------------------------------------------------------
(* The state between two actions: no jump has arrived, whatever the places.*)
Ready(cs, o, t, p) == Nested(o, p) /\ \A q : Threads(cs, WaitsOf(o, t), q)

(* The same with the variables at their values before an action.           *)
LEMMA Begins ==
    ASSUME IInv
    PROVE  /\ Ready(code, open, rsym, place) /\ Waiting = WaitsOf(open, rsym)
           /\ Len(code) \in Nat /\ ended \in BOOLEAN
<1>1. PICK cs, o, t, p : cs = code /\ o = open /\ t = rsym /\ p = place
  OBVIOUS
<1>2. Nested(o, p) /\ ended \in BOOLEAN /\ \A i \in 1 .. Len(cs) : cs[i].writes = 0
  BY <1>1 DEF IInv
<1>3. PICK W : W = WaitsOf(o, t)
  OBVIOUS
<1>4. Waiting = W
  <2>1. DOMAIN o = 1 .. Len(o)
    <3>1. o \in Seq(Stmt)
      BY <1>2, NestedParts
    <3> QED BY <3>1
  <2> QED BY <1>1, <1>3, <2>1 DEF Waiting, WaitsOf
<1>5. Threads(cs, W, p)
  BY <1>1, <1>4 DEF IInv
<1>6. /\ cs \in Seq(Instruction) /\ Len(cs) \in Nat
      /\ \A u, l : <<u, l>> \in W =>
            u \in 0 .. Len(cs) /\ l \in Nat /\ \A i \in Chain(cs, u) : WaitsFor(cs, i, l)
  BY <1>5, ThreadsParts
<1>7. ASSUME NEW q PROVE Threads(cs, W, q)
  <2>1. ASSUME NEW i \in 1 .. Len(cs) PROVE Covered(cs, W, q, i)
    <3>1. Covered(cs, W, p, i) /\ ~Arrived(cs[i], p)
      BY <1>2, <1>5, ThreadsCovers DEF Arrived
    <3> QED BY <3>1 DEF Covered
  <2> QED BY <2>1, <1>6, ThreadsIf
<1> QED BY <1>1, <1>2, <1>3, <1>4, <1>6, <1>7 DEF Ready

(* The operations, with the chain l that they add to, or take from R.      *)
LEMMA JumpThreads ==
    ASSUME NEW cs, NEW R, NEW p, NEW t, NEW l, Threads(cs, R \union {<<t, l>>}, p),
           NEW j, j = Jump(cs, t, l)
    PROVE  /\ Threads(j.code, R \union {<<j.t, l>>}, p)
           /\ j.t \in Nat /\ Len(j.code) \in Nat /\ ind(j.code) = j.t + 1
<1>1. t \in Nat /\ l \in Nat /\ cs \in Seq(Instruction) /\ Len(cs) \in Nat
  <2>1. <<t, l>> \in R \union {<<t, l>>}
    OBVIOUS
  <2>2. cs \in Seq(Instruction) /\ Len(cs) \in Nat /\ t \in 0 .. Len(cs) /\ l \in Nat
    BY <2>1, ThreadsParts
  <2> QED BY <2>2
<1>2. PICK d : d = Instr("jmp", "", FALSE, t, l)
  OBVIOUS
<1>3. IsJump(d, t, l)
  BY <1>1, <1>2, JumpMade
<1>4. PICK ds : ds = Append(cs, d)
  OBVIOUS
<1>5. j.code = ds /\ j.t = Len(cs) + 1
  BY <1>2, <1>4 DEF Jump, gjmp, ind
<1>6. Threads(ds, R \union {<<Len(cs) + 1, l>>}, p)
  BY <1>3, <1>4, ThreadsJump
<1>7. Len(ds) = Len(cs) + 1
  <2>1. d \in Instruction
    BY <1>3 DEF IsJump
  <2> QED BY <2>1, <1>1, <1>4
<1> QED BY <1>1, <1>5, <1>6, <1>7 DEF ind

CaseTest(j, cs, t, l) ==
    \E x \in Registers, inv \in BOOLEAN : j = gtst(cs, Value("operand", x, FALSE, 0), inv, t, l)

(* It is put in front of chain t (gcase).                                  *)
LEMMA LastThreads ==
    ASSUME NEW cs, NEW R, NEW p, NEW t, NEW l, Threads(cs, R \union {<<t, l>>}, p),
           NEW j, CaseTest(j, cs, t, l)
    PROVE  /\ Threads(j.code, R \union {<<j.t, l>>}, p)
           /\ j.t \in Nat /\ Len(j.code) \in Nat /\ ind(j.code) = j.t + 1
<1>1. t \in Nat /\ l \in Nat /\ cs \in Seq(Instruction) /\ Len(cs) \in Nat
  <2>1. <<t, l>> \in R \union {<<t, l>>}
    OBVIOUS
  <2>2. cs \in Seq(Instruction) /\ Len(cs) \in Nat /\ t \in 0 .. Len(cs) /\ l \in Nat
    BY <2>1, ThreadsParts
  <2> QED BY <2>2
<1>0. PICK x \in Registers, inv \in BOOLEAN :
               j = gtst(cs, Value("operand", x, FALSE, 0), inv, t, l)
  BY DEF CaseTest
<1>2. PICK b \in BOOLEAN : b = (FALSE # inv)
  OBVIOUS
<1>3. PICK d : d = Instr("jcc", x, b, t, l)
  OBVIOUS
<1>4. IsJump(d, t, l)
  BY <1>1, <1>3, JumpMade
<1>5. PICK ds : ds = Append(cs, d)
  OBVIOUS
<1>6. j.code = ds /\ j.t = Len(cs) + 1
  <2>1. PICK v : v = Value("operand", x, FALSE, 0)
    OBVIOUS
  <2>2. v.r = "operand" /\ v.x = x /\ v.inv = FALSE
    BY <2>1 DEF Value
  <2>3. gtst(cs, v, inv, t, l)
           = [code |-> Append(cs, Instr("jcc", v.x, v.inv # inv, t, l)), t |-> ind(cs)]
    BY <2>2 DEF gtst
  <2>4. Instr("jcc", v.x, v.inv # inv, t, l) = d
    BY <2>2, <1>2, <1>3 DEF Instr
  <2>5. j = [code |-> ds, t |-> ind(cs)]
    BY <2>1, <2>3, <2>4, <1>0, <1>5, Zenon
  <2>6. ind(cs) = Len(cs) + 1
    BY DEF ind
  <2> QED BY <2>5, <2>6
<1>7. Threads(ds, R \union {<<Len(cs) + 1, l>>}, p)
  BY <1>4, <1>5, ThreadsJump
<1>8. Len(ds) = Len(cs) + 1
  <2>1. d \in Instruction
    BY <1>4 DEF IsJump
  <2> QED BY <2>1, <1>1, <1>5
<1>9. ind(ds) = (Len(cs) + 1) + 1 /\ Len(ds) \in Nat /\ Len(cs) + 1 \in Nat
  BY <1>1, <1>8 DEF ind
<1> QED BY <1>6, <1>7, <1>9, Zenon

(* The test of a condition puts its jumps on a chain of its own (gtst).    *)
LEMMA TestThreads ==
    ASSUME NEW cs, NEW R, NEW p, Threads(cs, R, p), NEW e \in Condition, NEW inv \in BOOLEAN,
           NEW l \in Nat, NEW r, r = Test(cs, e, inv, l)
    PROVE  Threads(r.code, R \union {<<r.t, l>>}, p) /\ r.t \in Nat /\ Len(r.code) \in Nat
<1>1. cs \in Seq(Instruction)
  BY ThreadsParts
<1>2. NewJumps(cs, r.code, r.t, l)
  BY <1>1, TestNew
<1>3. PICK ds, t : ds = r.code /\ t = r.t
  OBVIOUS
<1>4. Threads(ds, R \union {<<t, l>>}, p)
  BY <1>2, <1>3, ThreadsNew
<1>5. t \in Nat /\ Len(ds) \in Nat
  <2>1. <<t, l>> \in R \union {<<t, l>>}
    OBVIOUS
  <2>2. t \in 0 .. Len(ds) /\ Len(ds) \in Nat
    BY <1>4, <2>1, ThreadsParts
  <2> QED BY <2>2
<1> QED BY <1>3, <1>4, <1>5

GoesBack(cs, ds, a, l) == ds = gjmp_addr(cs, a, l)

(* A jump back leads to a label that has been met (gjmp_addr).             *)
LEMMA BackThreads ==
    ASSUME NEW cs, NEW W, NEW p, Threads(cs, W, p), NEW a \in Nat, NEW l \in Nat, p[l] = a,
           NEW ds, GoesBack(cs, ds, a, l)
    PROVE  Threads(ds, W, p) /\ Len(ds) = Len(cs) + 1 /\ Len(cs) \in Nat
<1>1. PICK d : d = [Instr("jmp", "", FALSE, a, l) EXCEPT !.writes = 1]
  OBVIOUS
<1>2. d = [op |-> "jmp", x |-> "", inv |-> FALSE, next |-> a, meant |-> l, writes |-> 1]
  BY <1>1 DEF Instr
<1>3. d \in Instruction
  BY <1>2 DEF Instruction, Registers
<1>4. Arrived(d, p)
  BY <1>2 DEF Arrived
<1>5. cs \in Seq(Instruction) /\ Len(cs) \in Nat
  BY ThreadsParts
<1>6. ds = Append(cs, d)
  BY <1>1 DEF gjmp_addr, GoesBack
<1>7. Threads(ds, W, p)
  BY <1>3, <1>4, <1>6, ThreadsAppend
<1>8. Len(ds) = Len(cs) + 1
  BY <1>3, <1>5, <1>6
<1> QED BY <1>5, <1>7, <1>8

(* An instruction that is not a jump is added.                             *)
LEMMA OtherThreads ==
    ASSUME NEW cs, NEW W, NEW p, Threads(cs, W, p), NEW ds, ds = Append(cs, Other)
    PROVE  Threads(ds, W, p) /\ Len(ds) = Len(cs) + 1 /\ Len(cs) \in Nat
<1>1. cs \in Seq(Instruction) /\ Len(cs) \in Nat /\ Other \in Instruction
  BY ThreadsParts, OtherIs
<1>2. Threads(ds, W, p)
  BY <1>1, ThreadsAppend
<1>3. Len(ds) = Len(cs) + 1
  BY <1>1
<1> QED BY <1>1, <1>2, <1>3

(* A chain is led here, to the place of its label (gsym).                  *)
LEMMA GsymThreads ==
    ASSUME NEW cs, NEW R, NEW p, NEW t, NEW l, Threads(cs, R \union {<<t, l>>}, p),
           Avoids(R, l), p[l] = Len(cs) + 1, NEW ds, ds = gsym(cs, t)
    PROVE  Threads(ds, R, p) /\ Len(ds) = Len(cs) /\ Len(cs) \in Nat
<1>1. Len(cs) \in Nat
  BY ThreadsParts
<1>2. PICK a : a = Len(cs) + 1
  OBVIOUS
<1>3. ds = gsym_addr(cs, t, a) /\ a \in Nat /\ p[l] = a
  BY <1>1, <1>2 DEF gsym, ind
<1> QED BY <1>1, <1>3, ThreadsGsym

(* The value is none of this case: its chain is led on to the next test.   *)
LEMMA MissedThreads ==
    ASSUME NEW cs, NEW R, NEW p, NEW t, NEW l, Threads(cs, R \union {<<t, l>>}, p),
           Avoids(R, l), p[l] = Len(cs) + 1, NEW range \in BOOLEAN, NEW m \in Nat,
           NEW r, r = Missed(cs, range, t, m)
    PROVE  Threads(r.code, R \union {<<r.t, m>>}, p) /\ r.t \in Nat /\ Len(r.code) \in Nat
<1>1. PICK met : met = gsym(cs, t)
  OBVIOUS
<1>2. Threads(met, R, p) /\ Len(met) \in Nat
  BY <1>1, GsymThreads
<1>3. Threads(met, R \union {<<0, m>>}, p)
  BY <1>2, ThreadsZero
<1>4. CASE range = TRUE
  <2>1. r = gtst(met, Value("operand", "v1", FALSE, 0), TRUE, 0, m)
    BY <1>1, <1>4 DEF Missed
  <2>2. "v1" \in Registers /\ TRUE \in BOOLEAN
    BY DEF Registers
  <2>3. CaseTest(r, met, 0, m)
    BY <2>1, <2>2, Zenon DEF CaseTest
  <2> QED BY <2>3, <1>3, LastThreads
<1>5. CASE range = FALSE
  <2>1. r = [code |-> met, t |-> 0]
    BY <1>1, <1>5 DEF Missed
  <2>2. r.code = met /\ r.t = 0
    BY <2>1
  <2> QED BY <2>2, <1>2, <1>3
<1> QED BY <1>4, <1>5

(* One more chain, for another label.                                      *)
LEMMA AvoidsAdd ==
    ASSUME NEW R, NEW l, Avoids(R, l), NEW t, NEW k, k # l
    PROVE  Avoids(R \union {<<t, k>>}, l)
BY DEF Avoids

-----------------------------------------------------------------------------
(* What an action does to the statements o and the places p.               *)

(* The places q are p but for the labels of L, and more.                   *)
SameBut(p, q, L) ==
    IsPlace(q) /\ Len(q) >= Len(p) /\ \A l \in 1 .. Len(p) : l \notin L => q[l] = p[l]

(* Statement s has labels of its own kind, which are new or in L.          *)
Good(s, p, q, L) ==
    /\ s \in Stmt /\ OwnLabels(s, Len(q)) /\ Fits(s, q)
    /\ \A l \in Labels(s) : l > Len(p) \/ l \in L

(* A statement is opened.                                                  *)
LEMMA Opens ==
    ASSUME NEW o, NEW p, Nested(o, p), NEW s, NEW q, SameBut(p, q, {}), Good(s, p, q, {})
    PROVE  Nested(Append(o, s), q)
<1>1. /\ o \in Seq(Stmt) /\ Len(o) \in Nat /\ Len(p) \in Nat
      /\ \A i \in 1 .. Len(o) : Labels(o[i]) \subseteq 2 .. Len(p)
  BY NestedParts
<1>2. s \in Stmt /\ OwnLabels(s, Len(q)) /\ Fits(s, q) /\ \A l \in Labels(s) : l > Len(p)
  BY DEF Good
<1>3. PICK o2, k : o2 = Append(o, s) /\ k = Len(o) + 1
  OBVIOUS
<1>4. /\ o2 \in Seq(Stmt) /\ Len(o2) = k /\ o2[k] = s /\ k \in Nat /\ k > Len(o)
      /\ \A i \in 1 .. Len(o) : o2[i] = o[i]
  BY <1>1, <1>2, <1>3, WaitsPush
<1>5. \A i \in 1 .. Len(o2) : i # k => i \in 1 .. Len(o)
  BY <1>1, <1>3, <1>4
<1>6. (\E S : q \in Seq(S)) /\ Len(q) >= Len(p) /\ \A l \in 1 .. Len(p) : q[l] = p[l]
  BY DEF SameBut, IsPlace
<1>7. \A i \in 1 .. Len(o) : \A l \in Labels(o[i]) : q[l] = p[l]
  BY <1>1, <1>6
<1>8. Renests(o, p, o2, q, k)
  BY <1>1, <1>2, <1>4, <1>5, <1>6, <1>7 DEF Renests
<1> QED BY <1>3, <1>8, NestedAgain

(* The innermost statement is closed.                                      *)
LEMMA Closes ==
    ASSUME NEW o, NEW p, Nested(o, p), o # <<>>, NEW q, SameBut(p, q, Labels(Last(o)))
    PROVE  Nested(Front(o), q)
<1>1. /\ o \in Seq(Stmt) /\ Len(p) \in Nat
      /\ \A i \in 1 .. Len(o) : Labels(o[i]) \subseteq 2 .. Len(p)
      /\ \A i, j \in 1 .. Len(o) : i # j => Labels(o[i]) \intersect Labels(o[j]) = {}
  BY NestedParts
<1>2. PICK o2, k : o2 = Front(o) /\ k = Len(o)
  OBVIOUS
<1>3. /\ o2 \in Seq(Stmt) /\ k \in Nat \ {0} /\ Len(o2) = k - 1 /\ Last(o) = o[k]
      /\ \A i \in 1 .. k - 1 : o2[i] = o[i]
  BY <1>1, <1>2, WaitsPop
<1>4. (\E S : q \in Seq(S)) /\ Len(q) >= Len(p)
      /\ \A l \in 1 .. Len(p) : l \notin Labels(o[k]) => q[l] = p[l]
  BY <1>3 DEF SameBut, IsPlace
<1>5. ASSUME NEW i \in 1 .. Len(o2)
      PROVE  i <= Len(o) /\ o2[i] = o[i] /\ \A l \in Labels(o[i]) : q[l] = p[l]
  <2>1. i \in 1 .. k - 1 /\ i \in 1 .. Len(o) /\ k \in 1 .. Len(o) /\ i # k
    BY <1>2, <1>3
  <2>2. Labels(o[i]) \subseteq 2 .. Len(p)
    BY <2>1, <1>1
  <2>3. \A l \in Labels(o[i]) : l \in 1 .. Len(p)
    BY <2>2, <1>1
  <2>4. Labels(o[i]) \intersect Labels(o[k]) = {}
    BY <2>1, <1>1
  <2> QED BY <2>1, <2>3, <2>4, <1>2, <1>3, <1>4
<1>6. k \notin 1 .. Len(o2)
  BY <1>3
<1>7. Renests(o, p, o2, q, k)
  BY <1>3, <1>4, <1>5, <1>6 DEF Renests
<1> QED BY <1>2, <1>7, NestedAgain

(* Statement k becomes s.                                                  *)
LEMMA Changes ==
    ASSUME NEW o, NEW p, Nested(o, p), NEW k \in 1 .. Len(o), NEW s, NEW q,
           SameBut(p, q, Labels(o[k])), Good(s, p, q, Labels(o[k]))
    PROVE  Nested([o EXCEPT ![k] = s], q)
<1>1. /\ o \in Seq(Stmt) /\ Len(o) \in Nat /\ Len(p) \in Nat
      /\ \A i \in 1 .. Len(o) : Labels(o[i]) \subseteq 2 .. Len(p)
      /\ \A i, j \in 1 .. Len(o) : i # j => Labels(o[i]) \intersect Labels(o[j]) = {}
  BY NestedParts
<1>2. /\ s \in Stmt /\ OwnLabels(s, Len(q)) /\ Fits(s, q)
      /\ \A l \in Labels(s) : l > Len(p) \/ l \in Labels(o[k])
  BY DEF Good
<1>3. PICK o2 : o2 = [o EXCEPT ![k] = s]
  OBVIOUS
<1>4. /\ o2 \in Seq(Stmt) /\ Len(o2) = Len(o) /\ o2[k] = s
      /\ \A i \in 1 .. Len(o) : i # k => o2[i] = o[i]
  BY <1>1, <1>2, <1>3, WaitsAt
<1>5. /\ \E S : q \in Seq(S)
      /\ Len(q) >= Len(p)
      /\ \A l \in 1 .. Len(p) : l \notin Labels(o[k]) => q[l] = p[l]
  BY DEF SameBut, IsPlace
<1>6. ASSUME NEW i \in 1 .. Len(o), i # k
      PROVE  i <= Len(o) /\ o2[i] = o[i] /\ \A l \in Labels(o[i]) : q[l] = p[l]
  <2>1. Labels(o[i]) \subseteq 2 .. Len(p)
    BY <1>1, <1>6
  <2>2. \A l \in Labels(o[i]) : l \in 1 .. Len(p)
    BY <2>1, <1>1
  <2>3. Labels(o[i]) \intersect Labels(o[k]) = {}
    BY <1>1, <1>6
  <2> QED BY <2>2, <2>3, <1>1, <1>4, <1>5, <1>6
<1>7. Renests(o, p, o2, q, k)
  BY <1>1, <1>2, <1>4, <1>5, <1>6 DEF Renests
<1> QED BY <1>3, <1>7, NestedAgain

(* The same statements, and the places of labels that are none of theirs.  *)
LEMMA Stays ==
    ASSUME NEW o, NEW p, Nested(o, p), NEW q, SameBut(p, q, {Exit})
    PROVE  Nested(o, q)
<1>1. /\ o \in Seq(Stmt) /\ Len(o) \in Nat /\ Len(p) \in Nat
      /\ \A i \in 1 .. Len(o) : Labels(o[i]) \subseteq 2 .. Len(p)
  BY NestedParts
<1>2. /\ \E S : q \in Seq(S)
      /\ Len(q) >= Len(p)
      /\ \A l \in 1 .. Len(p) : l # Exit => q[l] = p[l]
  BY DEF SameBut, IsPlace
<1>3. ASSUME NEW i \in 1 .. Len(o) PROVE \A l \in Labels(o[i]) : q[l] = p[l]
  <2>1. Labels(o[i]) \subseteq 2 .. Len(p)
    BY <1>1
  <2> QED BY <2>1, <1>1, <1>2 DEF Exit
<1>4. Renests(o, p, o, q, 0)
  BY <1>1, <1>2, <1>3 DEF Renests
<1> QED BY <1>4, NestedAgain

(* The chains of a statement, by its kind.                                 *)
LEMMA ChainsAre ==
    ASSUME NEW s
    PROVE  /\ s.kind = "then" => Chains(s) = {<<s.a, s.after>>}
           /\ s.kind = "else" => Chains(s) = {<<s.d, s.after>>}
           /\ s.kind \in Loops => Chains(s) = {<<s.a, s.brk>>, <<s.b, s.cont>>}
           /\ s.kind = "switch" => Chains(s) = {<<s.a, s.brk>>, <<s.b, s.after>>}
           /\ s.kind = "expr" => Chains(s) = {}
<1>1. ASSUME s.kind = "then" PROVE Chains(s) = {<<s.a, s.after>>}
  BY <1>1 DEF Chains, Loops
<1>2. ASSUME s.kind = "else" PROVE Chains(s) = {<<s.d, s.after>>}
  BY <1>2 DEF Chains, Loops
<1>3. ASSUME s.kind \in Loops PROVE Chains(s) = {<<s.a, s.brk>>, <<s.b, s.cont>>}
  BY <1>3 DEF Chains, Loops
<1>4. ASSUME s.kind = "switch" PROVE Chains(s) = {<<s.a, s.brk>>, <<s.b, s.after>>}
  BY <1>4 DEF Chains, Loops
<1>5. ASSUME s.kind = "expr" PROVE Chains(s) = {}
  BY <1>5 DEF Chains, Loops
<1> QED BY <1>1, <1>2, <1>3, <1>4, <1>5

(* What the chains, the statements and the places are then.                *)
LEMMA ReadyParts ==
    ASSUME NEW cs, NEW o, NEW t, NEW p, Ready(cs, o, t, p)
    PROVE  /\ Nested(o, p) /\ o \in Seq(Stmt) /\ cs \in Seq(Instruction) /\ IsPlace(p)
           /\ Len(p) \in Nat /\ Len(p) >= 1 /\ Len(cs) \in Nat /\ t \in Nat
<1>1. Nested(o, p) /\ Threads(cs, WaitsOf(o, t), p)
  BY DEF Ready
<1>2. o \in Seq(Stmt) /\ Len(p) \in Nat /\ Len(p) >= 1
  BY <1>1, NestedParts
<1>3. cs \in Seq(Instruction) /\ Len(cs) \in Nat
  BY <1>1, ThreadsParts
<1>4. IsPlace(p)
  BY <1>1 DEF Nested, IsPlace
<1>5. t \in Nat
  <2>1. <<t, Exit>> \in WaitsOf(o, t)
    BY InWaits
  <2>2. t \in 0 .. Len(cs)
    BY <2>1, <1>1, ThreadsParts
  <2> QED BY <2>2
<1> QED BY <1>1, <1>2, <1>3, <1>4, <1>5

-----------------------------------------------------------------------------
(* Every action keeps the invariant.                                       *)

(* if: the chain of the test waits for the label after the statement.      *)
LEMMA IfKeeps ==
    ASSUME IInv, NEW e \in Condition, if_(e) PROVE IInv'
<1>1. PICK cs, o, t, p : cs = code /\ o = open /\ t = rsym /\ p = place
  OBVIOUS
<1>2. Ready(cs, o, t, p) /\ ended' \in BOOLEAN
  <2>1. Ready(cs, o, t, p)
    BY <1>1, Begins
  <2>2. ended \in BOOLEAN /\ ended' = ended
    BY Begins DEF if_
  <2> QED BY <2>1, <2>2, Zenon
<1>3. /\ Nested(o, p) /\ o \in Seq(Stmt) /\ cs \in Seq(Instruction) /\ IsPlace(p)
      /\ Len(p) \in Nat /\ Len(p) >= 1
  BY <1>2, ReadyParts
<1>4. PICK n, q : n = Len(p) + 1 /\ q = Append(p, 0)
  OBVIOUS
<1>5. PICK r : r = Test(cs, e, TRUE, n)
  OBVIOUS
<1>6. PICK s : s = [Statement("then") EXCEPT !.a = r.t, !.after = n]
  OBVIOUS
<1>7. Settle(r.code, Append(o, s), t, q)
  BY <1>1, <1>4, <1>5, <1>6 DEF if_, Opened, NewLabel
<1>8. n \in Nat /\ n > Len(p) /\ n > 1 /\ IsPlace(q) /\ Len(q) = n /\ SameBut(p, q, {})
  <2>1. n \in Nat /\ n > Len(p) /\ n > 1
    BY <1>3, <1>4
  <2>2. IsPlace(q) /\ Len(q) = n /\ \A l \in 1 .. Len(p) : q[l] = p[l]
    BY <1>3, <1>4, PlaceAppend
  <2> QED BY <2>1, <2>2, <1>3 DEF SameBut
<1>9. PICK W : W = WaitsOf(o, t)
  OBVIOUS
<1>10. Threads(r.code, W \union {<<r.t, n>>}, q) /\ r.t \in Nat
  <2>1. Threads(cs, W, q)
    BY <1>2, <1>9 DEF Ready
  <2>2. TRUE \in BOOLEAN
    OBVIOUS
  <2> QED BY <2>1, <2>2, <1>5, <1>8, TestThreads
<1>11. /\ s \in Stmt /\ s.kind = "then" /\ s.a = r.t /\ s.brk = 0 /\ s.cont = 0 /\ s.after = n
  BY <1>6, <1>8, <1>10 DEF Statement, Stmt, Kinds
<1>12. Good(s, p, q, {})
  <2>1. Labels(s) = {n}
    BY <1>8, <1>11 DEF Labels
  <2>2. OwnLabels(s, Len(q))
    BY <2>1, <1>8, <1>11 DEF OwnLabels, Exit, Loops
  <2>3. Fits(s, q)
    BY <1>11 DEF Fits
  <2> QED BY <2>1, <2>2, <2>3, <1>8, <1>11 DEF Good
<1>13. WaitsOf(Append(o, s), t) = W \union {<<r.t, n>>}
  <2>1. Chains(s) = {<<r.t, n>>}
    BY <1>11, ChainsAre
  <2> QED BY <2>1, <1>3, <1>9, <1>11, WaitsPush
<1>14. Nested(Append(o, s), q)
  BY <1>3, <1>8, <1>12, Opens
<1>15. Threads(r.code, WaitsOf(Append(o, s), t), q)
  BY <1>10, <1>13
<1> QED BY <1>2, <1>7, <1>14, <1>15, SettleKeeps

(* Only the end of the function ends it.                                   *)
LEMMA EndedSame ==
    ASSUME IInv, UNCHANGED ended PROVE ended' \in BOOLEAN
<1>1. ended \in BOOLEAN /\ ended' = ended
  BY Begins
<1> QED BY <1>1, Zenon

(* Labels are met, and there are more of them.                             *)
LEMMA PlaceMet ==
    ASSUME NEW p, IsPlace(p), NEW x \in 1 .. Len(p), NEW L, x \in L, NEW a,
           NEW q, Met(p, q, x, a)
    PROVE  /\ IsPlace(q) /\ Len(q) = Len(p) /\ Len(p) \in Nat /\ SameBut(p, q, L) /\ q[x] = a
           /\ \A l \in 1 .. Len(p) : l # x => q[l] = p[l]
<1>1. IsPlace(q) /\ Len(q) = Len(p) /\ q[x] = a /\ \A l \in 1 .. Len(p) : l # x => q[l] = p[l]
  BY PlaceSet
<1>2. Len(p) \in Nat
  BY PlaceAppend
<1> QED BY <1>1, <1>2 DEF SameBut

More(p, q, r) == q = p \o r

(* The old labels keep their places.                                       *)
LEMMA PlaceMore ==
    ASSUME NEW p, IsPlace(p), NEW r, IsPlace(r), NEW q, More(p, q, r)
    PROVE  /\ IsPlace(q) /\ Len(q) = Len(p) + Len(r) /\ Len(p) \in Nat /\ SameBut(p, q, {})
           /\ \A l \in 1 .. Len(p) : q[l] = p[l]
           /\ \A j \in 1 .. Len(r) : q[Len(p) + j] = r[j]
<1>1. /\ IsPlace(q) /\ Len(q) = Len(p) + Len(r) /\ Len(p) \in Nat /\ Len(r) \in Nat
      /\ \A l \in 1 .. Len(p) : q[l] = p[l]
      /\ \A j \in 1 .. Len(r) : q[Len(p) + j] = r[j]
  BY PlaceAdd DEF More
<1>2. Len(q) >= Len(p)
  BY <1>1
<1> QED BY <1>1, <1>2 DEF SameBut

(* New labels, after some were met, change no place.                       *)
LEMMA SameThen ==
    ASSUME NEW p, NEW q, NEW r, NEW L, SameBut(p, q, L), SameBut(q, r, {}),
           Len(p) \in Nat, Len(q) \in Nat, Len(r) \in Nat
    PROVE  SameBut(p, r, L)
<1>1. ASSUME NEW l \in 1 .. Len(p), l \notin L PROVE r[l] = p[l]
  <2>1. q[l] = p[l] /\ l \in 1 .. Len(q)
    BY <1>1 DEF SameBut
  <2> QED BY <2>1 DEF SameBut
<1>2. IsPlace(r) /\ Len(r) >= Len(p)
  BY DEF SameBut
<1> QED BY <1>1, <1>2 DEF SameBut

(* The innermost statement, and the chains but its own.                    *)
LEMMA TopIs ==
    ASSUME NEW cs, NEW o, NEW t, NEW p, Ready(cs, o, t, p), o # <<>>,
           NEW s, s = Last(o), NEW R, R = WaitsOf(Front(o), t)
    PROVE  /\ s \in Stmt /\ OwnLabels(s, Len(p)) /\ Fits(s, p) /\ Labels(s) \subseteq 2 .. Len(p)
           /\ \A l \in Labels(s) : Avoids(R, l)
           /\ \A q : Threads(cs, R \union Chains(s), q)
<1>1. Nested(o, p) /\ o \in Seq(Stmt)
  BY ReadyParts
<1>2. PICK k : k = Len(o)
  OBVIOUS
<1>3. k \in 1 .. Len(o) /\ s = o[k] /\ s \in Stmt /\ WaitsOf(o, t) = R \union Chains(s)
  <2>1. Len(o) \in Nat \ {0} /\ Last(o) = o[Len(o)] /\ Last(o) \in Stmt
    BY <1>1, WaitsPop
  <2>2. WaitsOf(o, t) = R \union Chains(s)
    BY <1>1, WaitsPop
  <2> QED BY <2>1, <2>2, <1>2
<1>4. OwnLabels(s, Len(p)) /\ Fits(s, p) /\ Labels(s) \subseteq 2 .. Len(p)
  BY <1>1, <1>3, NestedParts
<1>5. \A l \in Labels(s) : Avoids(R, l)
  BY <1>1, AvoidsPop
<1>6. \A q : Threads(cs, R \union Chains(s), q)
  BY <1>3 DEF Ready
<1> QED BY <1>3, <1>4, <1>5, <1>6

(* Statement k, and the chains but its own.                                *)
LEMMA AtIs ==
    ASSUME NEW cs, NEW o, NEW t, NEW p, Ready(cs, o, t, p), NEW k \in 1 .. Len(o),
           NEW s, s = o[k], NEW R, R = Rest(o, t, k)
    PROVE  /\ s \in Stmt /\ OwnLabels(s, Len(p)) /\ Fits(s, p) /\ Labels(s) \subseteq 2 .. Len(p)
           /\ \A l \in Labels(s) : Avoids(R, l)
           /\ \A q : Threads(cs, R \union Chains(s), q)
           /\ \A l \in Nat : l > Len(p) => Avoids(R, l)
<1>1. Nested(o, p) /\ o \in Seq(Stmt)
  BY ReadyParts
<1>2. s \in Stmt /\ OwnLabels(s, Len(p)) /\ Fits(s, p) /\ Labels(s) \subseteq 2 .. Len(p)
  BY <1>1, NestedParts
<1>3. WaitsOf(o, t) = R \union Chains(s)
  BY <1>1, <1>2, WaitsAt
<1>4. \A l \in Labels(s) : Avoids(R, l)
  BY <1>1, AvoidsRest
<1>5. \A q : Threads(cs, R \union Chains(s), q)
  BY <1>3 DEF Ready
<1>6. \A l \in Nat : l > Len(p) => Avoids(R, l)
  <2> TAKE l \in Nat
  <2> HAVE l > Len(p)
  <2>1. Avoids(WaitsOf(o, t), l)
    BY <1>1, AvoidsNew
  <2> QED BY <2>1, <1>3 DEF Avoids
<1> QED BY <1>2, <1>3, <1>4, <1>5, <1>6

(* else: the jump over it waits, and the failed test arrives.              *)
LEMMA ElseKeeps ==
    ASSUME IInv, else_ PROVE IInv'
<1>1. PICK cs, o, t, p : cs = code /\ o = open /\ t = rsym /\ p = place
  OBVIOUS
<1>2. /\ Ready(cs, o, t, p) /\ Nested(o, p) /\ o \in Seq(Stmt) /\ cs \in Seq(Instruction)
      /\ IsPlace(p) /\ Len(p) \in Nat /\ Len(p) >= 1 /\ Len(cs) \in Nat /\ t \in Nat
  BY <1>1, Begins, ReadyParts
<1>3. ended' \in BOOLEAN
  BY EndedSame DEF else_
<1>4. PICK s, F, n : s = Last(o) /\ F = Front(o) /\ n = Len(p) + 1
  OBVIOUS
<1>5. PICK j : j = Jump(cs, 0, n)
  OBVIOUS
<1>6. PICK u : u = [Statement("else") EXCEPT !.d = j.t, !.after = n]
  OBVIOUS
<1>7. PICK p2 : p2 = [p EXCEPT ![s.after] = ind(j.code)]
  OBVIOUS
<1>8. PICK q, ds : q = Append(p2, 0) /\ ds = gsym(j.code, s.a)
  OBVIOUS
<1>9. o # <<>> /\ s.kind = "then" /\ Settle(ds, Append(F, u), t, q)
  <2>1. o # <<>> /\ s.kind = "then"
    BY <1>1, <1>4 DEF else_, In, Top
  <2>2. Settle(ds, Append(F, u), t, q)
    BY <1>1, <1>4, <1>5, <1>6, <1>7, <1>8 DEF else_, Closed, Top, NewLabel
  <2> QED BY <2>1, <2>2
<1>10. PICK R : R = WaitsOf(F, t)
  OBVIOUS
<1>11. /\ s \in Stmt /\ OwnLabels(s, Len(p)) /\ Labels(s) \subseteq 2 .. Len(p)
       /\ \A l \in Labels(s) : Avoids(R, l)
       /\ \A v : Threads(cs, R \union Chains(s), v)
  BY <1>2, <1>4, <1>9, <1>10, TopIs
<1>12. Chains(s) = {<<s.a, s.after>>} /\ s.after \in Labels(s)
  <2>1. s.after # 0
    BY <1>9, <1>11 DEF OwnLabels
  <2> QED BY <2>1, <1>9, ChainsAre DEF Labels
<1>13. PICK a : a = s.after
  OBVIOUS
<1>14. /\ a \in Labels(s) /\ a \in 1 .. Len(p) /\ Avoids(R, a) /\ n \in Nat /\ n > Len(p)
       /\ n > 1 /\ a # n
  BY <1>2, <1>4, <1>11, <1>12, <1>13
<1>15. /\ IsPlace(p2) /\ Len(p2) = Len(p) /\ SameBut(p, p2, Labels(s))
       /\ p2[a] = ind(j.code)
  <2>1. Met(p, p2, a, ind(j.code))
    BY <1>7, <1>13 DEF Met
  <2> QED BY <2>1, <1>2, <1>14, PlaceMet
<1>16. /\ IsPlace(q) /\ Len(q) = n /\ SameBut(p2, q, {}) /\ q[a] = ind(j.code)
  <2>1. IsPlace(q) /\ Len(q) = Len(p2) + 1 /\ \A l \in 1 .. Len(p2) : q[l] = p2[l]
    BY <1>8, <1>15, PlaceAppend
  <2>2. Len(q) >= Len(p2)
    BY <2>1, <1>2, <1>15
  <2> QED BY <2>1, <2>2, <1>2, <1>4, <1>14, <1>15 DEF SameBut
<1>17. /\ Threads(j.code, (R \union {<<s.a, a>>}) \union {<<j.t, n>>}, q)
       /\ j.t \in Nat /\ Len(j.code) \in Nat /\ ind(j.code) = j.t + 1
  <2>1. PICK W : W = R \union {<<s.a, a>>}
    OBVIOUS
  <2>2. Threads(cs, W, q)
    BY <2>1, <1>11, <1>12, <1>13
  <2>3. Threads(cs, W \union {<<0, n>>}, q)
    BY <2>2, <1>14, ThreadsZero
  <2> QED BY <2>1, <2>3, <1>5, JumpThreads
<1>18. Threads(ds, R \union {<<j.t, n>>}, q)
  <2>1. PICK V : V = R \union {<<j.t, n>>}
    OBVIOUS
  <2>2. (R \union {<<s.a, a>>}) \union {<<j.t, n>>} = V \union {<<s.a, a>>}
    BY <2>1
  <2>3. Avoids(V, a)
    <3>1. Avoids(R \union {<<j.t, n>>}, a)
      BY <1>14 DEF Avoids
    <3> QED BY <2>1, <3>1
  <2>4. q[a] = Len(j.code) + 1
    BY <1>16 DEF ind
  <2>5. Threads(j.code, V \union {<<s.a, a>>}, q)
    BY <2>2, <1>17
  <2> QED BY <2>1, <2>3, <2>4, <2>5, <1>8, GsymThreads
<1>19. /\ u \in Stmt /\ u.kind = "else" /\ u.d = j.t /\ u.brk = 0 /\ u.cont = 0
       /\ u.after = n
  BY <1>6, <1>14, <1>17 DEF Statement, Stmt, Kinds
<1>20. Good(u, p2, q, {})
  <2>1. Labels(u) = {n}
    BY <1>14, <1>19 DEF Labels
  <2>2. OwnLabels(u, Len(q))
    BY <2>1, <1>14, <1>16, <1>19 DEF OwnLabels, Exit, Loops
  <2>3. Fits(u, q)
    BY <1>19 DEF Fits
  <2> QED BY <2>1, <2>2, <2>3, <1>14, <1>15, <1>19 DEF Good
<1>21. Nested(F, p2)
  BY <1>2, <1>4, <1>9, <1>15, Closes
<1>22. Nested(Append(F, u), q)
  BY <1>16, <1>20, <1>21, Opens
<1>23. WaitsOf(Append(F, u), t) = R \union {<<j.t, n>>}
  <2>1. Chains(u) = {<<j.t, n>>}
    BY <1>19, ChainsAre
  <2>2. F \in Seq(Stmt)
    BY <1>21, NestedParts
  <2> QED BY <2>1, <2>2, <1>10, <1>19, WaitsPush
<1> QED BY <1>3, <1>9, <1>18, <1>22, <1>23, SettleKeeps

(* The end of if: its chain arrives behind it.                             *)
LEMMA EndIfKeeps ==
    ASSUME IInv, end_if PROVE IInv'
<1>1. PICK cs, o, t, p : cs = code /\ o = open /\ t = rsym /\ p = place
  OBVIOUS
<1>2. /\ Ready(cs, o, t, p) /\ Nested(o, p) /\ o \in Seq(Stmt) /\ cs \in Seq(Instruction)
      /\ IsPlace(p) /\ Len(p) \in Nat /\ Len(p) >= 1 /\ Len(cs) \in Nat /\ t \in Nat
  BY <1>1, Begins, ReadyParts
<1>3. ended' \in BOOLEAN
  BY EndedSame DEF end_if
<1>4. PICK s, F : s = Last(o) /\ F = Front(o)
  OBVIOUS
<1>5. o # <<>> /\ s.kind \in {"then", "else"}
  BY <1>1, <1>4 DEF end_if, In, Top
<1>6. PICK a : a = IF s.kind = "then" THEN s.a ELSE s.d
  OBVIOUS
<1>7. PICK q, ds, l : q = [p EXCEPT ![s.after] = ind(cs)] /\ ds = gsym(cs, a) /\ l = s.after
  OBVIOUS
<1>8. Settle(ds, F, t, q)
  BY <1>1, <1>4, <1>5, <1>6, <1>7 DEF end_if, Closed, In, Top
<1>9. PICK R : R = WaitsOf(F, t)
  OBVIOUS
<1>10. /\ s \in Stmt /\ OwnLabels(s, Len(p)) /\ Labels(s) \subseteq 2 .. Len(p)
       /\ \A h \in Labels(s) : Avoids(R, h)
       /\ \A v : Threads(cs, R \union Chains(s), v)
  BY <1>2, <1>4, <1>5, <1>9, TopIs
<1>11. Chains(s) = {<<a, l>>} /\ l \in Labels(s)
  <2>1. s.after # 0
    BY <1>5, <1>10 DEF OwnLabels
  <2>2. l \in Labels(s)
    BY <2>1, <1>7 DEF Labels
  <2> QED BY <2>2, <1>5, <1>6, <1>7, ChainsAre
<1>12. l \in 1 .. Len(p) /\ Avoids(R, l)
  BY <1>2, <1>10, <1>11
<1>13. SameBut(p, q, Labels(s)) /\ q[l] = Len(cs) + 1
  <2>1. SameBut(p, q, Labels(s)) /\ q[l] = ind(cs)
    <3>1. Met(p, q, l, ind(cs))
      BY <1>7 DEF Met
    <3> QED BY <3>1, <1>2, <1>11, <1>12, PlaceMet
  <2> QED BY <2>1 DEF ind
<1>14. Threads(ds, R, q)
  <2>1. Threads(cs, R \union {<<a, l>>}, q)
    BY <1>10, <1>11
  <2> QED BY <2>1, <1>7, <1>12, <1>13, GsymThreads
<1>15. Nested(F, q)
  BY <1>2, <1>4, <1>5, <1>13, Closes
<1> QED BY <1>3, <1>8, <1>9, <1>14, <1>15, SettleKeeps

(* The places of the labels that an action adds.                           *)
LEMMA Tuples ==
    ASSUME NEW a, NEW b, NEW c, NEW d
    PROVE  /\ IsPlace(<<a, b>>) /\ Len(<<a, b>>) = 2 /\ <<a, b>>[1] = a /\ <<a, b>>[2] = b
           /\ IsPlace(<<a, b, c>>) /\ Len(<<a, b, c>>) = 3
           /\ <<a, b, c>>[1] = a /\ <<a, b, c>>[2] = b /\ <<a, b, c>>[3] = c
           /\ IsPlace(<<a, b, c, d>>) /\ Len(<<a, b, c, d>>) = 4
           /\ <<a, b, c, d>>[1] = a /\ <<a, b, c, d>>[2] = b
           /\ <<a, b, c, d>>[3] = c /\ <<a, b, c, d>>[4] = d
<1>1. PICK S : S = {a, b, c, d}
  OBVIOUS
<1>2. a \in S /\ b \in S /\ c \in S /\ d \in S
  BY <1>1
<1>3. IsPlace(<<a, b>>)
  <2>1. <<a, b>> \in Seq(S)
    BY <1>2
  <2> QED BY <2>1 DEF IsPlace
<1>4. IsPlace(<<a, b, c>>)
  <2>1. <<a, b, c>> \in Seq(S)
    BY <1>2
  <2> QED BY <2>1 DEF IsPlace
<1>5. IsPlace(<<a, b, c, d>>)
  <2>1. <<a, b, c, d>> \in Seq(S)
    BY <1>2
  <2> QED BY <2>1 DEF IsPlace
<1> QED BY <1>3, <1>4, <1>5

(* The two labels of a loop, and a chain of continue that is empty.        *)
LEMMA LoopOpens ==
    ASSUME NEW cs, NEW o, NEW t, NEW p, Ready(cs, o, t, p), NEW W, W = WaitsOf(o, t),
           NEW ds, NEW q, SameBut(p, q, {}), Len(q) \in Nat, NEW n, n = Len(p) + 1,
           NEW s \in Stmt, s.kind \in Loops, s.b = 0, s.brk = n, s.cont = n + 1,
           Threads(ds, W \union {<<s.a, n>>}, q), Good(s, p, q, {})
    PROVE  Threads(ds, WaitsOf(Append(o, s), t), q) /\ Nested(Append(o, s), q)
<1>1. Nested(o, p) /\ o \in Seq(Stmt) /\ Len(p) \in Nat
  BY ReadyParts
<1>2. Nested(Append(o, s), q)
  BY <1>1, Opens
<1>3. PICK m, b, a : m = n + 1 /\ b = W \union {<<s.a, n>>} /\ a = s.a
  OBVIOUS
<1>4. m \in Nat
  BY <1>1, <1>3
<1>5. Threads(ds, b \union {<<0, m>>}, q)
  BY <1>3, <1>4, ThreadsZero
<1>6. WaitsOf(Append(o, s), t) = W \union Chains(s)
  BY <1>1, WaitsPush
<1>7. Chains(s) = {<<a, n>>, <<0, m>>}
  BY <1>3, ChainsAre
<1>8. WaitsOf(Append(o, s), t) = b \union {<<0, m>>}
  BY <1>3, <1>6, <1>7
<1> QED BY <1>2, <1>5, <1>8

(* while: its label is at the test.                                        *)
LEMMA WhileKeeps ==
    ASSUME IInv, NEW e \in Condition, while_(e) PROVE IInv'
<1>1. PICK cs, o, t, p : cs = code /\ o = open /\ t = rsym /\ p = place
  OBVIOUS
<1>2. /\ Ready(cs, o, t, p) /\ Nested(o, p) /\ o \in Seq(Stmt) /\ cs \in Seq(Instruction)
      /\ IsPlace(p) /\ Len(p) \in Nat /\ Len(p) >= 1 /\ Len(cs) \in Nat /\ t \in Nat
  BY <1>1, Begins, ReadyParts
<1>3. ended' \in BOOLEAN
  BY EndedSame DEF while_
<1>4. PICK n, m, d : n = Len(p) + 1 /\ m = Len(p) + 2 /\ d = Len(cs) + 1
  OBVIOUS
<1>0. PICK v : v = <<0, d>>
  OBVIOUS
<1>5. PICK q : q = p \o v
  OBVIOUS
<1>6. PICK r : r = Test(cs, e, TRUE, n)
  OBVIOUS
<1>7. PICK s : s = [Statement("while") EXCEPT !.a = r.t, !.d = d, !.brk = n, !.cont = m]
  OBVIOUS
<1>8. Settle(r.code, Append(o, s), t, q)
  BY <1>0, <1>1, <1>4, <1>5, <1>6, <1>7 DEF while_, Opened, NewLabel, ind
<1>9. /\ n \in Nat /\ n > Len(p) /\ n > 1 /\ m \in Nat /\ m > n /\ m > Len(p) /\ m # n
      /\ d \in Nat /\ m = n + 1
  BY <1>2, <1>4
<1>10. SameBut(p, q, {}) /\ Len(q) = m /\ q[m] = d
  <2>1. IsPlace(v) /\ Len(v) = 2 /\ v[2] = d
    BY <1>0, Tuples
  <2>2. /\ SameBut(p, q, {}) /\ Len(q) = Len(p) + Len(v)
        /\ \A j \in 1 .. Len(v) : q[Len(p) + j] = v[j]
    <3>1. More(p, q, v)
      BY <1>5 DEF More
    <3>2. IsPlace(v) /\ IsPlace(p)
      BY <2>1, <1>2
    <3> QED BY <3>1, <3>2, PlaceMore
  <2>3. q[Len(p) + 2] = v[2]
    BY <2>1, <2>2
  <2> QED BY <2>1, <2>2, <2>3, <1>4
<1>11. PICK W : W = WaitsOf(o, t)
  OBVIOUS
<1>12. Threads(r.code, W \union {<<r.t, n>>}, q) /\ r.t \in Nat
  <2>1. Threads(cs, W, q)
    BY <1>2, <1>11 DEF Ready
  <2>2. TRUE \in BOOLEAN
    OBVIOUS
  <2> QED BY <2>1, <2>2, <1>6, <1>9, TestThreads
<1>13. /\ s \in Stmt /\ s.kind = "while" /\ s.a = r.t /\ s.b = 0 /\ s.d = d /\ s.brk = n
       /\ s.cont = m /\ s.after = 0
  BY <1>7, <1>9, <1>12 DEF Statement, Stmt, Kinds
<1>14. Good(s, p, q, {})
  <2>1. Labels(s) = {n, m}
    BY <1>9, <1>13 DEF Labels
  <2>2. OwnLabels(s, Len(q))
    BY <2>1, <1>9, <1>10, <1>13 DEF OwnLabels, Exit, Loops
  <2>3. Fits(s, q)
    BY <1>10, <1>13 DEF Fits
  <2> QED BY <2>1, <2>2, <2>3, <1>9, <1>13 DEF Good
<1>15. Threads(r.code, WaitsOf(Append(o, s), t), q) /\ Nested(Append(o, s), q)
  <2>1. s.kind \in Loops /\ Len(q) \in Nat /\ s.cont = n + 1
    BY <1>9, <1>10, <1>13 DEF Loops
  <2>2. Threads(r.code, W \union {<<s.a, n>>}, q)
    BY <1>12, <1>13
  <2> QED BY <2>1, <2>2, <1>2, <1>4, <1>10, <1>11, <1>13, <1>14, LoopOpens
<1> QED BY <1>3, <1>8, <1>15, SettleKeeps

(* The end of while and for: the jump back to a, the label of continue.    *)
LEMMA LoopEnds ==
    ASSUME NEW cs, NEW o, NEW t, NEW p, Ready(cs, o, t, p), o # <<>>,
           NEW s, s = Last(o), s.kind \in Loops, NEW a \in Nat, p[s.cont] = a,
           NEW ds, ds = gjmp_addr(cs, a, s.cont),
           NEW q, q = [p EXCEPT ![s.brk] = ind(ds)]
    PROVE  /\ Threads(gsym_addr(gsym(ds, s.a), s.b, a), WaitsOf(Front(o), t), q)
           /\ Nested(Front(o), q)
<1>1. Nested(o, p) /\ Len(p) \in Nat /\ IsPlace(p)
  BY ReadyParts
<1>2. PICK F, R : F = Front(o) /\ R = WaitsOf(F, t)
  OBVIOUS
<1>3. /\ s \in Stmt /\ OwnLabels(s, Len(p)) /\ Labels(s) \subseteq 2 .. Len(p)
      /\ \A l \in Labels(s) : Avoids(R, l)
      /\ \A v : Threads(cs, R \union Chains(s), v)
  BY <1>2, TopIs
<1>4. PICK k, l : k = s.brk /\ l = s.cont
  OBVIOUS
<1>5. /\ k \in Labels(s) /\ l \in Labels(s) /\ k # l /\ k \in 1 .. Len(p) /\ l \in 1 .. Len(p)
      /\ l \in Nat /\ Avoids(R, l) /\ Avoids(R, k)
  <2>1. k # 0 /\ l # 0 /\ k # l
    BY <1>3, <1>4 DEF OwnLabels
  <2>2. k \in Labels(s) /\ l \in Labels(s)
    BY <2>1, <1>4 DEF Labels
  <2> QED BY <2>1, <2>2, <1>1, <1>3
<1>6. PICK x, y : x = s.a /\ y = s.b
  OBVIOUS
<1>7. Chains(s) = {<<x, k>>, <<y, l>>}
  BY <1>4, <1>6, ChainsAre
<1>8. SameBut(p, q, Labels(s)) /\ q[k] = Len(ds) + 1 /\ q[l] = a
  <2>1. Met(p, q, k, ind(ds))
    BY <1>4 DEF Met
  <2>2. /\ SameBut(p, q, Labels(s)) /\ q[k] = ind(ds)
        /\ \A h \in 1 .. Len(p) : h # k => q[h] = p[h]
    BY <2>1, <1>1, <1>5, PlaceMet
  <2>3. p[l] = a
    BY <1>4
  <2> QED BY <2>2, <2>3, <1>5 DEF ind
<1>9. Threads(ds, R \union {<<x, k>>, <<y, l>>}, q)
  <2>1. Threads(cs, R \union {<<x, k>>, <<y, l>>}, q)
    BY <1>3, <1>7
  <2>2. GoesBack(cs, ds, a, l)
    BY <1>4 DEF GoesBack
  <2> QED BY <2>1, <2>2, <1>5, <1>8, BackThreads
<1>10. PICK V, es : V = R \union {<<y, l>>} /\ es = gsym(ds, x)
  OBVIOUS
<1>11. Threads(es, V, q)
  <2>1. R \union {<<x, k>>, <<y, l>>} = V \union {<<x, k>>}
    BY <1>10
  <2>2. Threads(ds, V \union {<<x, k>>}, q)
    BY <2>1, <1>9
  <2>3. Avoids(V, k)
    BY <1>5, <1>10 DEF Avoids
  <2> QED BY <2>2, <2>3, <1>8, <1>10, GsymThreads
<1>12. Threads(gsym_addr(es, y, a), R, q)
  BY <1>5, <1>8, <1>10, <1>11, ThreadsGsym
<1>13. Nested(F, q)
  BY <1>1, <1>2, <1>8, Closes
<1> QED BY <1>2, <1>6, <1>10, <1>12, <1>13

(* The end of while.                                                       *)
LEMMA EndWhileKeeps ==
    ASSUME IInv, end_while PROVE IInv'
<1>1. PICK cs, o, t, p : cs = code /\ o = open /\ t = rsym /\ p = place
  OBVIOUS
<1>2. /\ Ready(cs, o, t, p) /\ Nested(o, p) /\ o \in Seq(Stmt) /\ cs \in Seq(Instruction)
      /\ IsPlace(p) /\ Len(p) \in Nat /\ Len(p) >= 1 /\ Len(cs) \in Nat /\ t \in Nat
  BY <1>1, Begins, ReadyParts
<1>3. ended' \in BOOLEAN
  BY EndedSame DEF end_while
<1>4. PICK s, F, a : s = Last(o) /\ F = Front(o) /\ a = s.d
  OBVIOUS
<1>5. PICK ds : ds = gjmp_addr(cs, a, s.cont)
  OBVIOUS
<1>6. PICK q, es : q = [p EXCEPT ![s.brk] = ind(ds)] /\ es = gsym_addr(gsym(ds, s.a), s.b, a)
  OBVIOUS
<1>7. o # <<>> /\ s.kind = "while"
  BY <1>1, <1>4 DEF end_while, In, Top
<1>8. Settle(es, F, t, q)
  BY <1>1, <1>4, <1>5, <1>6 DEF end_while, Closed, Top
<1>9. a \in Nat /\ p[s.cont] = a /\ s.kind \in Loops
  <2>1. s \in Stmt /\ Fits(s, p)
    BY <1>2, <1>4, <1>7, TopIs
  <2> QED BY <2>1, <1>4, <1>7 DEF Fits, Stmt, Loops
<1>10. Threads(es, WaitsOf(F, t), q) /\ Nested(F, q)
  BY <1>2, <1>4, <1>5, <1>6, <1>7, <1>9, LoopEnds
<1> QED BY <1>3, <1>8, <1>10, SettleKeeps

(* The end of for.                                                         *)
LEMMA EndForKeeps ==
    ASSUME IInv, end_for PROVE IInv'
<1>1. PICK cs, o, t, p : cs = code /\ o = open /\ t = rsym /\ p = place
  OBVIOUS
<1>2. /\ Ready(cs, o, t, p) /\ Nested(o, p) /\ o \in Seq(Stmt) /\ cs \in Seq(Instruction)
      /\ IsPlace(p) /\ Len(p) \in Nat /\ Len(p) >= 1 /\ Len(cs) \in Nat /\ t \in Nat
  BY <1>1, Begins, ReadyParts
<1>3. ended' \in BOOLEAN
  BY EndedSame DEF end_for
<1>4. PICK s, F, a : s = Last(o) /\ F = Front(o) /\ a = s.c
  OBVIOUS
<1>5. PICK ds : ds = gjmp_addr(cs, a, s.cont)
  OBVIOUS
<1>6. PICK q, es : q = [p EXCEPT ![s.brk] = ind(ds)] /\ es = gsym_addr(gsym(ds, s.a), s.b, a)
  OBVIOUS
<1>7. o # <<>> /\ s.kind = "for"
  BY <1>1, <1>4 DEF end_for, In, Top
<1>8. Settle(es, F, t, q)
  BY <1>1, <1>4, <1>5, <1>6 DEF end_for, Closed, Top
<1>9. a \in Nat /\ p[s.cont] = a /\ s.kind \in Loops
  <2>1. s \in Stmt /\ Fits(s, p)
    BY <1>2, <1>4, <1>7, TopIs
  <2> QED BY <2>1, <1>4, <1>7 DEF Fits, Stmt, Loops
<1>10. Threads(es, WaitsOf(F, t), q) /\ Nested(F, q)
  BY <1>2, <1>4, <1>5, <1>6, <1>7, <1>9, LoopEnds
<1> QED BY <1>3, <1>8, <1>10, SettleKeeps

(* do: both chains are empty.                                              *)
LEMMA DoKeeps ==
    ASSUME IInv, do_ PROVE IInv'
<1>1. PICK cs, o, t, p : cs = code /\ o = open /\ t = rsym /\ p = place
  OBVIOUS
<1>2. /\ Ready(cs, o, t, p) /\ Nested(o, p) /\ o \in Seq(Stmt) /\ cs \in Seq(Instruction)
      /\ IsPlace(p) /\ Len(p) \in Nat /\ Len(p) >= 1 /\ Len(cs) \in Nat /\ t \in Nat
  BY <1>1, Begins, ReadyParts
<1>3. ended' \in BOOLEAN
  BY EndedSame DEF do_
<1>4. PICK n, m, k, d : n = Len(p) + 1 /\ m = Len(p) + 2 /\ k = Len(p) + 3 /\ d = Len(cs) + 1
  OBVIOUS
<1>5. PICK v : v = <<0, 0, d>>
  OBVIOUS
<1>6. PICK q : q = p \o v
  OBVIOUS
<1>7. PICK s : s = [Statement("do") EXCEPT !.d = d, !.brk = n, !.cont = m, !.after = k]
  OBVIOUS
<1>8. Settle(cs, Append(o, s), t, q)
  BY <1>1, <1>4, <1>5, <1>6, <1>7 DEF do_, Opened, NewLabel, ind
<1>9. /\ n \in Nat /\ n > Len(p) /\ n > 1 /\ m \in Nat /\ m > n /\ m > Len(p) /\ m # n
      /\ k \in Nat /\ k > m /\ k > n /\ k > Len(p) /\ d \in Nat /\ m = n + 1
  BY <1>2, <1>4
<1>10. SameBut(p, q, {}) /\ Len(q) = k /\ q[k] = d
  <2>1. IsPlace(v) /\ Len(v) = 3 /\ v[3] = d
    BY <1>5, Tuples
  <2>2. /\ SameBut(p, q, {}) /\ Len(q) = Len(p) + Len(v)
        /\ \A j \in 1 .. Len(v) : q[Len(p) + j] = v[j]
    <3>1. More(p, q, v)
      BY <1>6 DEF More
    <3>2. IsPlace(v) /\ IsPlace(p)
      BY <2>1, <1>2
    <3> QED BY <3>1, <3>2, PlaceMore
  <2>3. q[Len(p) + 3] = v[3]
    BY <2>1, <2>2
  <2> QED BY <2>1, <2>2, <2>3, <1>4
<1>11. PICK W : W = WaitsOf(o, t)
  OBVIOUS
<1>12. Threads(cs, W \union {<<0, n>>}, q)
  <2>1. Threads(cs, W, q)
    BY <1>2, <1>11 DEF Ready
  <2> QED BY <2>1, <1>9, ThreadsZero
<1>13. /\ s \in Stmt /\ s.kind = "do" /\ s.a = 0 /\ s.b = 0 /\ s.d = d /\ s.brk = n
       /\ s.cont = m /\ s.after = k
  BY <1>7, <1>9 DEF Statement, Stmt, Kinds
<1>14. Good(s, p, q, {})
  <2>1. Labels(s) = {n, m, k}
    BY <1>9, <1>13 DEF Labels
  <2>2. OwnLabels(s, Len(q))
    BY <2>1, <1>9, <1>10, <1>13 DEF OwnLabels, Exit, Loops
  <2>3. Fits(s, q)
    BY <1>10, <1>13 DEF Fits
  <2> QED BY <2>1, <2>2, <2>3, <1>9, <1>13 DEF Good
<1>15. Threads(cs, WaitsOf(Append(o, s), t), q) /\ Nested(Append(o, s), q)
  <2>1. s.kind \in Loops /\ Len(q) \in Nat /\ s.cont = n + 1
    BY <1>9, <1>10, <1>13 DEF Loops
  <2>2. Threads(cs, W \union {<<s.a, n>>}, q)
    BY <1>12, <1>13
  <2> QED BY <2>1, <2>2, <1>2, <1>4, <1>10, <1>11, <1>13, <1>14, LoopOpens
<1> QED BY <1>3, <1>8, <1>15, SettleKeeps

(* The end of do: continue arrives at the test, the test goes back.        *)
LEMMA EndDoKeeps ==
    ASSUME IInv, NEW e \in Condition, end_do(e) PROVE IInv'
<1>1. PICK cs, o, t, p : cs = code /\ o = open /\ t = rsym /\ p = place
  OBVIOUS
<1>2. /\ Ready(cs, o, t, p) /\ Nested(o, p) /\ o \in Seq(Stmt) /\ cs \in Seq(Instruction)
      /\ IsPlace(p) /\ Len(p) \in Nat /\ Len(p) >= 1 /\ Len(cs) \in Nat /\ t \in Nat
  BY <1>1, Begins, ReadyParts
<1>3. ended' \in BOOLEAN
  BY EndedSame DEF end_do
<1>4. PICK s, F : s = Last(o) /\ F = Front(o)
  OBVIOUS
<1>5. PICK bs : bs = gsym(cs, s.b)
  OBVIOUS
<1>6. PICK r : r = Test(bs, e, FALSE, s.after)
  OBVIOUS
<1>7. PICK ds : ds = gsym_addr(r.code, r.t, s.d)
  OBVIOUS
<1>8. PICK es, p2 : es = gsym(ds, s.a) /\ p2 = [p EXCEPT ![s.cont] = ind(cs)]
  OBVIOUS
<1>9. PICK q : q = [p2 EXCEPT ![s.brk] = ind(r.code)]
  OBVIOUS
<1>10. o # <<>> /\ s.kind = "do"
  BY <1>1, <1>4 DEF end_do, In, Top
<1>11. Settle(es, F, t, q)
  <2>1. q = [p EXCEPT ![s.cont] = ind(cs), ![s.brk] = ind(r.code)]
    BY <1>8, <1>9
  <2> QED BY <2>1, <1>1, <1>4, <1>5, <1>6, <1>7, <1>8 DEF end_do, Closed, Top
<1>12. PICK R : R = WaitsOf(F, t)
  OBVIOUS
<1>13. /\ s \in Stmt /\ OwnLabels(s, Len(p)) /\ Fits(s, p) /\ Labels(s) \subseteq 2 .. Len(p)
       /\ \A l \in Labels(s) : Avoids(R, l)
       /\ \A v : Threads(cs, R \union Chains(s), v)
  BY <1>2, <1>4, <1>10, <1>12, TopIs
<1>14. PICK k, l, h : k = s.brk /\ l = s.cont /\ h = s.after
  OBVIOUS
<1>15. /\ k \in Labels(s) /\ l \in Labels(s) /\ h \in Labels(s) /\ k # l /\ k # h /\ l # h
       /\ k \in 1 .. Len(p) /\ l \in 1 .. Len(p) /\ h \in 1 .. Len(p) /\ h \in Nat
       /\ Avoids(R, l) /\ Avoids(R, k) /\ Avoids(R, h)
  <2>1. k # 0 /\ l # 0 /\ h # 0 /\ k # l /\ k # h /\ l # h
    BY <1>10, <1>13, <1>14 DEF OwnLabels, Loops
  <2>2. k \in Labels(s) /\ l \in Labels(s) /\ h \in Labels(s)
    BY <2>1, <1>14 DEF Labels
  <2> QED BY <2>1, <2>2, <1>2, <1>13
<1>16. PICK x, y, d : x = s.a /\ y = s.b /\ d = s.d
  OBVIOUS
<1>17. Chains(s) = {<<x, k>>, <<y, l>>} /\ d \in Nat /\ p[h] = d
  <2>1. Chains(s) = {<<x, k>>, <<y, l>>}
    BY <1>10, <1>14, <1>16, ChainsAre DEF Loops
  <2> QED BY <2>1, <1>10, <1>13, <1>14, <1>16 DEF Fits, Stmt
<1>18. /\ IsPlace(p2) /\ Len(p2) = Len(p) /\ SameBut(p, p2, Labels(s)) /\ p2[l] = ind(cs)
       /\ \A i \in 1 .. Len(p) : i # l => p2[i] = p[i]
  <2>1. Met(p, p2, l, ind(cs))
    BY <1>8, <1>14 DEF Met
  <2> QED BY <2>1, <1>2, <1>15, PlaceMet
<1>19. /\ IsPlace(q) /\ Len(q) = Len(p) /\ q[k] = ind(r.code)
       /\ \A i \in 1 .. Len(p) : i # k => q[i] = p2[i]
  <2>1. Met(p2, q, k, ind(r.code))
    BY <1>9, <1>14 DEF Met
  <2>2. k \in 1 .. Len(p2)
    BY <1>15, <1>18
  <2> QED BY <2>1, <2>2, <1>15, <1>18, PlaceMet
<1>20. SameBut(p, q, Labels(s)) /\ q[l] = Len(cs) + 1 /\ q[h] = d /\ q[k] = Len(r.code) + 1
  <2>1. ASSUME NEW i \in 1 .. Len(p), i \notin Labels(s) PROVE q[i] = p[i]
    BY <2>1, <1>15, <1>18, <1>19
  <2>2. SameBut(p, q, Labels(s))
    BY <2>1, <1>2, <1>19 DEF SameBut
  <2> QED BY <2>2, <1>15, <1>17, <1>18, <1>19 DEF ind
<1>21. PICK V : V = R \union {<<x, k>>}
  OBVIOUS
<1>22. Avoids(V, l) /\ Avoids(V, h)
  BY <1>15, <1>21 DEF Avoids
<1>23. Threads(bs, V, q)
  <2>1. R \union {<<x, k>>, <<y, l>>} = V \union {<<y, l>>}
    BY <1>21
  <2>2. Threads(cs, V \union {<<y, l>>}, q)
    BY <2>1, <1>13, <1>17
  <2>3. bs = gsym(cs, y)
    BY <1>5, <1>16
  <2> QED BY <2>2, <2>3, <1>20, <1>22, GsymThreads
<1>24. Threads(r.code, V \union {<<r.t, h>>}, q)
  <2>1. r = Test(bs, e, FALSE, h)
    BY <1>6, <1>14
  <2>2. PICK b \in BOOLEAN : b = FALSE
    OBVIOUS
  <2>3. r = Test(bs, e, b, h)
    BY <2>1, <2>2, Zenon
  <2> QED BY <2>3, <1>15, <1>23, TestThreads
<1>25. Threads(ds, R \union {<<x, k>>}, q) /\ Len(ds) = Len(r.code)
  <2>1. PICK c, z : c = r.code /\ z = r.t
    OBVIOUS
  <2>2. ds = gsym_addr(c, z, d) /\ Threads(c, V \union {<<z, h>>}, q)
    BY <2>1, <1>7, <1>16, <1>24
  <2>3. d \in Nat /\ q[h] = d /\ Avoids(V, h)
    BY <1>17, <1>20, <1>22
  <2>4. Threads(ds, V, q) /\ Len(ds) = Len(c)
    BY <2>2, <2>3, ThreadsGsym
  <2> QED BY <2>1, <2>4, <1>21
<1>26. Threads(es, R, q)
  <2>1. es = gsym(ds, x) /\ q[k] = Len(ds) + 1
    BY <1>8, <1>16, <1>20, <1>25
  <2> QED BY <2>1, <1>15, <1>25, GsymThreads
<1>27. Nested(F, q)
  BY <1>2, <1>4, <1>10, <1>20, Closes
<1> QED BY <1>3, <1>11, <1>12, <1>26, <1>27, SettleKeeps

(* switch: the jump to the first case waits for it.                        *)
LEMMA SwitchKeeps ==
    ASSUME IInv, switch PROVE IInv'
<1>1. PICK cs, o, t, p : cs = code /\ o = open /\ t = rsym /\ p = place
  OBVIOUS
<1>2. /\ Ready(cs, o, t, p) /\ Nested(o, p) /\ o \in Seq(Stmt) /\ cs \in Seq(Instruction)
      /\ IsPlace(p) /\ Len(p) \in Nat /\ Len(p) >= 1 /\ Len(cs) \in Nat /\ t \in Nat
  BY <1>1, Begins, ReadyParts
<1>3. ended' \in BOOLEAN
  BY EndedSame DEF switch
<1>4. PICK n, m : n = Len(p) + 1 /\ m = Len(p) + 2
  OBVIOUS
<1>5. PICK v : v = <<0, 0>>
  OBVIOUS
<1>6. PICK q : q = p \o v
  OBVIOUS
<1>7. PICK j : j = Jump(cs, 0, m)
  OBVIOUS
<1>8. PICK s : s = [Statement("switch") EXCEPT !.b = j.t, !.brk = n, !.after = m]
  OBVIOUS
<1>9. Settle(j.code, Append(o, s), t, q)
  BY <1>1, <1>4, <1>5, <1>6, <1>7, <1>8 DEF switch, Opened, NewLabel
<1>10. /\ n \in Nat /\ n > Len(p) /\ n > 1 /\ m \in Nat /\ m > n /\ m > Len(p) /\ m # n
       /\ m = n + 1
  BY <1>2, <1>4
<1>11. SameBut(p, q, {}) /\ Len(q) = m
  <2>1. IsPlace(v) /\ Len(v) = 2
    BY <1>5, Tuples
  <2>2. SameBut(p, q, {}) /\ Len(q) = Len(p) + Len(v)
    <3>1. More(p, q, v)
      BY <1>6 DEF More
    <3>2. IsPlace(v) /\ IsPlace(p)
      BY <2>1, <1>2
    <3> QED BY <3>1, <3>2, PlaceMore
  <2> QED BY <2>1, <2>2, <1>4
<1>12. PICK W : W = WaitsOf(o, t)
  OBVIOUS
<1>13. Threads(j.code, (W \union {<<0, n>>}) \union {<<j.t, m>>}, q) /\ j.t \in Nat
  <2>1. PICK V : V = W \union {<<0, n>>}
    OBVIOUS
  <2>2. Threads(cs, W, q)
    BY <1>2, <1>12 DEF Ready
  <2>3. Threads(cs, V, q)
    BY <2>1, <2>2, <1>10, ThreadsZero
  <2>4. Threads(cs, V \union {<<0, m>>}, q)
    BY <2>3, <1>10, ThreadsZero
  <2> QED BY <2>1, <2>4, <1>7, JumpThreads
<1>14. /\ s \in Stmt /\ s.kind = "switch" /\ s.a = 0 /\ s.b = j.t /\ s.brk = n
       /\ s.cont = 0 /\ s.after = m
  BY <1>8, <1>10, <1>13 DEF Statement, Stmt, Kinds
<1>15. Good(s, p, q, {})
  <2>1. Labels(s) = {n, m}
    BY <1>10, <1>14 DEF Labels
  <2>2. OwnLabels(s, Len(q))
    BY <2>1, <1>10, <1>11, <1>14 DEF OwnLabels, Exit, Loops
  <2>3. Fits(s, q)
    BY <1>14 DEF Fits
  <2> QED BY <2>1, <2>2, <2>3, <1>10, <1>14 DEF Good
<1>16. Nested(Append(o, s), q)
  BY <1>2, <1>11, <1>15, Opens
<1>17. WaitsOf(Append(o, s), t) = (W \union {<<0, n>>}) \union {<<j.t, m>>}
  <2>1. PICK x : x = j.t
    OBVIOUS
  <2>2. Chains(s) = {<<0, n>>, <<x, m>>}
    BY <2>1, <1>14, ChainsAre
  <2>3. WaitsOf(Append(o, s), t) = W \union Chains(s)
    BY <1>2, <1>12, <1>14, WaitsPush
  <2> QED BY <2>1, <2>2, <2>3
<1> QED BY <1>3, <1>9, <1>13, <1>16, <1>17, SettleKeeps

(* The end of switch: the last test goes to default or behind.             *)
LEMMA EndSwitchKeeps ==
    ASSUME IInv, end_switch PROVE IInv'
<1>1. PICK cs, o, t, p : cs = code /\ o = open /\ t = rsym /\ p = place
  OBVIOUS
<1>2. /\ Ready(cs, o, t, p) /\ Nested(o, p) /\ o \in Seq(Stmt) /\ cs \in Seq(Instruction)
      /\ IsPlace(p) /\ Len(p) \in Nat /\ Len(p) >= 1 /\ Len(cs) \in Nat /\ t \in Nat
  BY <1>1, Begins, ReadyParts
<1>3. ended' \in BOOLEAN
  BY EndedSame DEF end_switch
<1>4. PICK s, F : s = Last(o) /\ F = Front(o)
  OBVIOUS
<1>5. PICK c : c = IF s.c = 0 THEN ind(cs) ELSE s.c
  OBVIOUS
<1>6. PICK k, l : k = s.brk /\ l = s.after
  OBVIOUS
<1>7. PICK ds, p2 : ds = gsym_addr(cs, s.b, c) /\ p2 = [p EXCEPT ![k] = ind(cs)]
  OBVIOUS
<1>8. PICK es, q : es = gsym(ds, s.a) /\ q = [p2 EXCEPT ![l] = c]
  OBVIOUS
<1>9. o # <<>> /\ s.kind = "switch"
  BY <1>1, <1>4 DEF end_switch, In, Top
<1>10. Settle(es, F, t, q)
  <2>1. q = [p EXCEPT ![s.brk] = ind(cs), ![s.after] = c]
    BY <1>6, <1>7, <1>8
  <2> QED BY <2>1, <1>1, <1>4, <1>5, <1>7, <1>8 DEF end_switch, Closed, Top
<1>11. PICK R : R = WaitsOf(F, t)
  OBVIOUS
<1>12. /\ s \in Stmt /\ OwnLabels(s, Len(p)) /\ Labels(s) \subseteq 2 .. Len(p)
       /\ \A h \in Labels(s) : Avoids(R, h)
       /\ \A v : Threads(cs, R \union Chains(s), v)
  BY <1>2, <1>4, <1>9, <1>11, TopIs
<1>13. /\ k \in Labels(s) /\ l \in Labels(s) /\ k # l
       /\ k \in 1 .. Len(p) /\ l \in 1 .. Len(p) /\ Avoids(R, l) /\ Avoids(R, k)
  <2>1. k # 0 /\ l # 0 /\ k # l
    BY <1>6, <1>9, <1>12 DEF OwnLabels
  <2>2. k \in Labels(s) /\ l \in Labels(s)
    BY <2>1, <1>6 DEF Labels
  <2> QED BY <2>1, <2>2, <1>2, <1>12
<1>14. PICK x, y : x = s.a /\ y = s.b
  OBVIOUS
<1>15. Chains(s) = {<<x, k>>, <<y, l>>} /\ c \in Nat
  <2>1. Chains(s) = {<<x, k>>, <<y, l>>}
    BY <1>6, <1>9, <1>14, ChainsAre
  <2>2. c \in Nat
    BY <1>2, <1>5, <1>12 DEF ind, Stmt
  <2> QED BY <2>1, <2>2
<1>16. /\ IsPlace(p2) /\ Len(p2) = Len(p) /\ p2[k] = ind(cs)
       /\ \A i \in 1 .. Len(p) : i # k => p2[i] = p[i]
  <2>1. Met(p, p2, k, ind(cs))
    BY <1>7 DEF Met
  <2> QED BY <2>1, <1>2, <1>13, PlaceMet
<1>17. /\ IsPlace(q) /\ Len(q) = Len(p) /\ q[l] = c
       /\ \A i \in 1 .. Len(p) : i # l => q[i] = p2[i]
  <2>1. Met(p2, q, l, c)
    BY <1>8 DEF Met
  <2>2. l \in 1 .. Len(p2)
    BY <1>13, <1>16
  <2> QED BY <2>1, <2>2, <1>13, <1>16, PlaceMet
<1>18. SameBut(p, q, Labels(s)) /\ q[l] = c /\ q[k] = Len(cs) + 1
  <2>1. ASSUME NEW i \in 1 .. Len(p), i \notin Labels(s) PROVE q[i] = p[i]
    BY <2>1, <1>13, <1>16, <1>17
  <2>2. SameBut(p, q, Labels(s))
    BY <2>1, <1>2, <1>17 DEF SameBut
  <2> QED BY <2>2, <1>13, <1>16, <1>17 DEF ind
<1>19. PICK V : V = R \union {<<x, k>>}
  OBVIOUS
<1>20. Threads(ds, R \union {<<x, k>>}, q) /\ Len(ds) = Len(cs)
  <2>1. R \union {<<x, k>>, <<y, l>>} = V \union {<<y, l>>}
    BY <1>19
  <2>2. Threads(cs, V \union {<<y, l>>}, q)
    BY <2>1, <1>12, <1>15
  <2>3. Avoids(V, l)
    BY <1>13, <1>19 DEF Avoids
  <2>4. ds = gsym_addr(cs, y, c)
    BY <1>7, <1>14
  <2> QED BY <2>2, <2>3, <2>4, <1>15, <1>18, <1>19, ThreadsGsym
<1>21. Threads(es, R, q)
  <2>1. es = gsym(ds, x) /\ q[k] = Len(ds) + 1
    BY <1>8, <1>14, <1>18, <1>20
  <2> QED BY <2>1, <1>13, <1>20, GsymThreads
<1>22. Nested(F, q)
  BY <1>2, <1>4, <1>9, <1>18, Closes
<1> QED BY <1>3, <1>10, <1>11, <1>21, <1>22, SettleKeeps

(* A walk puts targets in the fields of jumps, and adds no jump.           *)
LEMMA GsymLen ==
    ASSUME NEW cs \in Seq(Instruction), NEW t PROVE Len(gsym(cs, t)) = Len(cs)
<1>1. PICK ds : ds = gsym(cs, t)
  OBVIOUS
<1>2. DOMAIN cs = 1 .. Len(cs) /\ Len(cs) \in Nat
  OBVIOUS
<1>3. DOMAIN ds = 1 .. Len(cs) /\ ds = [i \in 1 .. Len(cs) |-> ds[i]]
  BY <1>1, <1>2 DEF gsym, gsym_addr
<1>4. Len(ds) = Len(cs)
  BY <1>2, <1>3
<1> QED BY <1>1, <1>4

(* for: the increment, if there is one, is jumped over.                    *)
LEMMA ForKeeps ==
    ASSUME IInv, NEW tested \in BOOLEAN, NEW e, tested => e \in Condition,
           NEW incr \in BOOLEAN, for_(tested, e, incr)
    PROVE  IInv'
<1>1. PICK cs, o, t, p : cs = code /\ o = open /\ t = rsym /\ p = place
  OBVIOUS
<1>2. /\ Ready(cs, o, t, p) /\ Nested(o, p) /\ o \in Seq(Stmt) /\ cs \in Seq(Instruction)
      /\ IsPlace(p) /\ Len(p) \in Nat /\ Len(p) >= 1 /\ Len(cs) \in Nat /\ t \in Nat
  BY <1>1, Begins, ReadyParts
<1>3. ended' \in BOOLEAN
  BY EndedSame DEF for_
<1>4. PICK n, m, k, h : n = Len(p) + 1 /\ m = Len(p) + 2 /\ k = Len(p) + 3 /\ h = Len(p) + 4
  OBVIOUS
<1>5. PICK r : r = IF tested THEN Test(cs, e, TRUE, n) ELSE [code |-> cs, t |-> 0]
  OBVIOUS
<1>6. PICK j, d : j = Jump(r.code, 0, h) /\ d = Len(cs) + 1
  OBVIOUS
<1>7. PICK b : b = gjmp_addr(Append(j.code, Other), d, k)
  OBVIOUS
<1>8. PICK i, c : i = gsym(b, j.t) /\ c = IF incr THEN ind(j.code) ELSE d
  OBVIOUS
<1>9. PICK v, ds : v = <<0, c, d, Len(i) + 1>> /\ ds = IF incr THEN i ELSE r.code
  OBVIOUS
<1>10. PICK q : q = p \o v
  OBVIOUS
<1>11. PICK s : s = [Statement("for") EXCEPT !.a = r.t, !.c = c, !.d = d, !.brk = n, !.cont = m]
  OBVIOUS
<1>12. Settle(ds, Append(o, s), t, q)
  BY <1>1, <1>4, <1>5, <1>6, <1>7, <1>8, <1>9, <1>10, <1>11 DEF for_, Opened, NewLabel, ind
<1>13. /\ n \in Nat /\ n > Len(p) /\ n > 1 /\ m \in Nat /\ m > n /\ m > Len(p) /\ m # n
       /\ k \in Nat /\ h \in Nat /\ h > Len(p) /\ h # n /\ m < h /\ d \in Nat /\ m = n + 1
  BY <1>2, <1>4, <1>6
<1>14. /\ SameBut(p, q, {}) /\ Len(q) = h /\ q[m] = c /\ q[k] = d /\ q[h] = Len(i) + 1
  <2>1. IsPlace(v) /\ Len(v) = 4 /\ v[2] = c /\ v[3] = d /\ v[4] = Len(i) + 1
    BY <1>9, Tuples
  <2>2. /\ SameBut(p, q, {}) /\ Len(q) = Len(p) + Len(v)
        /\ \A x \in 1 .. Len(v) : q[Len(p) + x] = v[x]
    <3>1. More(p, q, v)
      BY <1>10 DEF More
    <3>2. IsPlace(v) /\ IsPlace(p)
      BY <2>1, <1>2
    <3> QED BY <3>1, <3>2, PlaceMore
  <2>3. q[Len(p) + 2] = v[2] /\ q[Len(p) + 3] = v[3] /\ q[Len(p) + 4] = v[4]
    BY <2>1, <2>2
  <2> QED BY <2>1, <2>2, <2>3, <1>4
<1>15. PICK W : W = WaitsOf(o, t)
  OBVIOUS
<1>16. PICK es, u : es = r.code /\ u = r.t
  OBVIOUS
<1>17. Threads(es, W \union {<<u, n>>}, q) /\ u \in Nat
  <2>1. Threads(cs, W, q)
    BY <1>2, <1>15 DEF Ready
  <2>2. CASE tested = TRUE
    <3>1. PICK z \in BOOLEAN : z = TRUE
      OBVIOUS
    <3>2. r = Test(cs, e, z, n) /\ e \in Condition
      BY <2>2, <3>1, <1>5, Zenon
    <3>3. Threads(r.code, W \union {<<r.t, n>>}, q) /\ r.t \in Nat
      BY <3>2, <2>1, <1>13, TestThreads
    <3> QED BY <3>3, <1>16
  <2>3. CASE tested = FALSE
    <3>1. r = [code |-> cs, t |-> 0]
      BY <2>3, <1>5
    <3>2. es = cs /\ u = 0
      BY <3>1, <1>16
    <3>3. Threads(cs, W \union {<<0, n>>}, q)
      BY <2>1, <1>13, ThreadsZero
    <3> QED BY <3>2, <3>3
  <2> QED BY <2>2, <2>3
<1>18. PICK V, js, w : V = W \union {<<u, n>>} /\ js = j.code /\ w = j.t
  OBVIOUS
<1>19. Threads(js, V \union {<<w, h>>}, q) /\ Len(js) \in Nat /\ ind(j.code) \in Nat
  <2>1. Threads(es, V \union {<<0, h>>}, q)
    BY <1>13, <1>17, <1>18, ThreadsZero
  <2>2. j = Jump(es, 0, h)
    BY <1>6, <1>16
  <2>3. Threads(j.code, V \union {<<j.t, h>>}, q) /\ Len(j.code) \in Nat
    BY <2>1, <2>2, JumpThreads
  <2> QED BY <2>3, <1>18 DEF ind
<1>20. Threads(b, V \union {<<w, h>>}, q)
  <2>1. PICK js2, X : js2 = Append(js, Other) /\ X = V \union {<<w, h>>}
    OBVIOUS
  <2>2. Threads(js2, X, q)
    BY <2>1, <1>19, OtherThreads
  <2>3. GoesBack(js2, b, d, k)
    BY <2>1, <1>7, <1>18 DEF GoesBack
  <2>4. Threads(b, X, q)
    BY <2>2, <2>3, <1>13, <1>14, BackThreads
  <2> QED BY <2>1, <2>4
<1>21. Threads(i, V, q)
  <2>1. b \in Seq(Instruction)
    BY <1>20, ThreadsParts
  <2>2. i = gsym(b, w) /\ Len(i) = Len(b)
    BY <2>1, <1>8, <1>18, GsymLen
  <2>3. Avoids(V, h)
    <3>1. Avoids(W, h)
      BY <1>2, <1>13, <1>15, AvoidsNew
    <3> QED BY <3>1, <1>13, <1>18 DEF Avoids
  <2>4. q[h] = Len(b) + 1
    BY <2>2, <1>14
  <2> QED BY <2>2, <2>3, <2>4, <1>20, GsymThreads
<1>22. Threads(ds, V, q) /\ c \in Nat
  <2>1. CASE incr = TRUE
    BY <2>1, <1>8, <1>9, <1>19, <1>21
  <2>2. CASE incr = FALSE
    <3>1. ds = es /\ c = d
      BY <2>2, <1>8, <1>9, <1>16
    <3> QED BY <3>1, <1>13, <1>17, <1>18
  <2> QED BY <2>1, <2>2
<1>23. /\ s \in Stmt /\ s.kind = "for" /\ s.a = u /\ s.b = 0 /\ s.c = c /\ s.brk = n
       /\ s.cont = m /\ s.after = 0
  <2>1. s = [Statement("for") EXCEPT !.a = u, !.c = c, !.d = d, !.brk = n, !.cont = m]
    BY <1>11, <1>16
  <2> QED BY <2>1, <1>13, <1>17, <1>22 DEF Statement, Stmt, Kinds
<1>24. Good(s, p, q, {})
  <2>1. Labels(s) = {n, m}
    BY <1>13, <1>23 DEF Labels
  <2>2. OwnLabels(s, Len(q))
    BY <2>1, <1>13, <1>14, <1>23 DEF OwnLabels, Exit, Loops
  <2>3. Fits(s, q)
    BY <1>14, <1>23 DEF Fits
  <2> QED BY <2>1, <2>2, <2>3, <1>13, <1>23 DEF Good
<1>25. Threads(ds, WaitsOf(Append(o, s), t), q) /\ Nested(Append(o, s), q)
  <2>1. s.kind \in Loops /\ Len(q) \in Nat /\ s.cont = n + 1
    BY <1>13, <1>14, <1>23 DEF Loops
  <2>2. Threads(ds, W \union {<<s.a, n>>}, q)
    BY <1>18, <1>22, <1>23
  <2> QED BY <2>1, <2>2, <1>2, <1>4, <1>14, <1>15, <1>23, <1>24, LoopOpens
<1> QED BY <1>3, <1>12, <1>25, SettleKeeps

(* The statement that break, continue or a case belongs to.                *)
LEMMA TargetIs ==
    ASSUME NEW o, o = open, o \in Seq(Stmt), NEW kinds, NEW k, k = Target(kinds), k # 0
    PROVE  k \in 1 .. Len(o) /\ o[k].kind \in kinds
<1>1. PICK S : S = {i \in 1 .. Len(o) : o[i].kind \in kinds \union {"expr"}}
  OBVIOUS
<1>2. S # {} /\ k = Max(S) /\ o[k].kind # "expr"
  BY <1>1 DEF Target, SelectLastInSeq
<1>3. \E i \in S : \A j \in S : i >= j
  <2>1. Len(o) \in Nat /\ S \subseteq 0 .. Len(o)
    BY <1>1
  <2>2. PICK i \in S : \A j \in S : j <= i
    BY <2>1, <1>2, GreatestNat
  <2> QED BY <2>1, <2>2
<1>4. k \in S
  BY <1>2, <1>3 DEF Max
<1> QED BY <1>1, <1>2, <1>4

(* A statement whose chains change, and not its labels.                    *)
Relinked(s, u) ==
    /\ u \in Stmt /\ u.kind = s.kind /\ u.d = s.d /\ u.brk = s.brk /\ u.cont = s.cont
    /\ u.after = s.after /\ (u.c = s.c \/ s.kind = "switch")

BecomesAt(o, o2, k, u) == o2 = [o EXCEPT ![k] = u]

(* Its labels stay, so the statements are nested as before.                *)
LEMMA Relinks ==
    ASSUME NEW cs, NEW o, NEW t, NEW p, Ready(cs, o, t, p), NEW k \in 1 .. Len(o), NEW u,
           Relinked(o[k], u), NEW o2, BecomesAt(o, o2, k, u)
    PROVE  Nested(o2, p) /\ WaitsOf(o2, t) = Rest(o, t, k) \union Chains(u)
<1>1. Nested(o, p) /\ o \in Seq(Stmt) /\ IsPlace(p) /\ Len(p) \in Nat
  BY ReadyParts
<1>2. PICK s \in Stmt : s = o[k]
  BY <1>1
<1>3. OwnLabels(s, Len(p)) /\ Fits(s, p)
  BY <1>1, <1>2, NestedParts
<1>4. /\ u \in Stmt /\ u.kind = s.kind /\ u.d = s.d /\ u.brk = s.brk /\ u.cont = s.cont
      /\ u.after = s.after /\ (u.c = s.c \/ s.kind = "switch")
  BY <1>2 DEF Relinked
<1>5. Labels(u) = Labels(s)
  BY <1>4 DEF Labels
<1>6. OwnLabels(u, Len(p))
  BY <1>3, <1>4, <1>5 DEF OwnLabels
<1>7. Fits(u, p)
  BY <1>3, <1>4 DEF Fits
<1>8. Good(u, p, p, Labels(o[k]))
  BY <1>2, <1>4, <1>5, <1>6, <1>7 DEF Good
<1>9. SameBut(p, p, Labels(o[k]))
  BY <1>1 DEF SameBut
<1>10. WaitsOf([o EXCEPT ![k] = u], t) = Rest(o, t, k) \union Chains(u)
  BY <1>1, <1>4, WaitsAt
<1>11. Nested([o EXCEPT ![k] = u], p)
  BY <1>1, <1>8, <1>9, Changes
<1> QED BY <1>10, <1>11 DEF BecomesAt

(* break: a jump of the chain of its statement.                            *)
LEMMA BreakKeeps ==
    ASSUME IInv, break PROVE IInv'
<1>1. PICK cs, o, t, p : cs = code /\ o = open /\ t = rsym /\ p = place
  OBVIOUS
<1>2. /\ Ready(cs, o, t, p) /\ Nested(o, p) /\ o \in Seq(Stmt) /\ cs \in Seq(Instruction)
      /\ IsPlace(p) /\ Len(p) \in Nat /\ Len(p) >= 1 /\ Len(cs) \in Nat /\ t \in Nat
  BY <1>1, Begins, ReadyParts
<1>3. ended' \in BOOLEAN
  BY EndedSame DEF break
<1>4. PICK k, s : k = bsym /\ s = o[k]
  OBVIOUS
<1>5. PICK x, l : x = s.a /\ l = s.brk
  OBVIOUS
<1>6. PICK j : j = Jump(cs, x, l)
  OBVIOUS
<1>7. PICK u : u = [s EXCEPT !.a = j.t]
  OBVIOUS
<1>8. k # 0 /\ Settle(j.code, [o EXCEPT ![k].a = j.t], t, p)
  BY <1>1, <1>4, <1>5, <1>6 DEF break
<1>9. k \in 1 .. Len(o) /\ s.kind \in Loops \union {"switch"}
  BY <1>1, <1>2, <1>4, <1>8, TargetIs DEF bsym
<1>10. PICK o2 : o2 = [o EXCEPT ![k] = u]
  OBVIOUS
<1>11. Settle(j.code, o2, t, p)
  <2>1. [o EXCEPT ![k].a = j.t] = o2
    BY <1>4, <1>7, <1>10
  <2> QED BY <2>1, <1>8
<1>12. PICK R, y, h : R = Rest(o, t, k) /\ y = s.b
               /\ h = IF s.kind = "switch" THEN s.after ELSE s.cont
  OBVIOUS
<1>13. s \in Stmt /\ \A v : Threads(cs, R \union Chains(s), v)
  BY <1>2, <1>4, <1>9, <1>12, AtIs
<1>14. Chains(s) = {<<x, l>>, <<y, h>>}
  BY <1>5, <1>9, <1>12, ChainsAre DEF Loops
<1>15. PICK V : V = R \union {<<y, h>>}
  OBVIOUS
<1>16. Threads(j.code, V \union {<<j.t, l>>}, p) /\ j.t \in Nat
  <2>1. R \union {<<x, l>>, <<y, h>>} = V \union {<<x, l>>}
    BY <1>15
  <2>2. Threads(cs, V \union {<<x, l>>}, p)
    BY <2>1, <1>13, <1>14
  <2> QED BY <2>2, <1>6, JumpThreads
<1>17. PICK z : z = j.t
  OBVIOUS
<1>18. /\ u \in Stmt /\ u.kind = s.kind /\ u.d = s.d /\ u.brk = s.brk /\ u.cont = s.cont
       /\ u.after = s.after /\ u.c = s.c /\ u.a = z /\ u.b = s.b
  BY <1>7, <1>13, <1>16, <1>17 DEF Stmt
<1>19. Relinked(o[k], u)
  BY <1>4, <1>18 DEF Relinked
<1>20. Nested(o2, p) /\ WaitsOf(o2, t) = R \union Chains(u)
  <2>1. BecomesAt(o, o2, k, u)
    BY <1>10 DEF BecomesAt
  <2> QED BY <2>1, <1>2, <1>9, <1>12, <1>19, Relinks
<1>21. Chains(u) = {<<z, l>>, <<y, h>>}
  BY <1>5, <1>9, <1>12, <1>18, ChainsAre DEF Loops
<1>22. WaitsOf(o2, t) = V \union {<<z, l>>}
  BY <1>15, <1>20, <1>21
<1> QED BY <1>3, <1>11, <1>16, <1>17, <1>20, <1>22, SettleKeeps

(* continue: a jump of the chain of its statement.                         *)
LEMMA ContinueKeeps ==
    ASSUME IInv, continue PROVE IInv'
<1>1. PICK cs, o, t, p : cs = code /\ o = open /\ t = rsym /\ p = place
  OBVIOUS
<1>2. /\ Ready(cs, o, t, p) /\ Nested(o, p) /\ o \in Seq(Stmt) /\ cs \in Seq(Instruction)
      /\ IsPlace(p) /\ Len(p) \in Nat /\ Len(p) >= 1 /\ Len(cs) \in Nat /\ t \in Nat
  BY <1>1, Begins, ReadyParts
<1>3. ended' \in BOOLEAN
  BY EndedSame DEF continue
<1>4. PICK k, s : k = csym /\ s = o[k]
  OBVIOUS
<1>5. PICK x, l : x = s.b /\ l = s.cont
  OBVIOUS
<1>6. PICK j : j = Jump(cs, x, l)
  OBVIOUS
<1>7. PICK u : u = [s EXCEPT !.b = j.t]
  OBVIOUS
<1>8. k # 0 /\ Settle(j.code, [o EXCEPT ![k].b = j.t], t, p)
  BY <1>1, <1>4, <1>5, <1>6 DEF continue
<1>9. k \in 1 .. Len(o) /\ s.kind \in Loops
  BY <1>1, <1>2, <1>4, <1>8, TargetIs DEF csym
<1>10. PICK o2 : o2 = [o EXCEPT ![k] = u]
  OBVIOUS
<1>11. Settle(j.code, o2, t, p)
  <2>1. [o EXCEPT ![k].b = j.t] = o2
    BY <1>4, <1>7, <1>10
  <2> QED BY <2>1, <1>8
<1>12. PICK R, y, h : R = Rest(o, t, k) /\ y = s.a /\ h = s.brk
  OBVIOUS
<1>13. s \in Stmt /\ \A v : Threads(cs, R \union Chains(s), v)
  BY <1>2, <1>4, <1>9, <1>12, AtIs
<1>14. Chains(s) = {<<x, l>>, <<y, h>>}
  BY <1>5, <1>9, <1>12, ChainsAre DEF Loops
<1>15. PICK V : V = R \union {<<y, h>>}
  OBVIOUS
<1>16. Threads(j.code, V \union {<<j.t, l>>}, p) /\ j.t \in Nat
  <2>1. R \union {<<x, l>>, <<y, h>>} = V \union {<<x, l>>}
    BY <1>15
  <2>2. Threads(cs, V \union {<<x, l>>}, p)
    BY <2>1, <1>13, <1>14
  <2> QED BY <2>2, <1>6, JumpThreads
<1>17. PICK z : z = j.t
  OBVIOUS
<1>18. /\ u \in Stmt /\ u.kind = s.kind /\ u.d = s.d /\ u.brk = s.brk /\ u.cont = s.cont
       /\ u.after = s.after /\ u.c = s.c /\ u.b = z /\ u.a = s.a
  BY <1>7, <1>13, <1>16, <1>17 DEF Stmt
<1>19. Relinked(o[k], u)
  BY <1>4, <1>18 DEF Relinked
<1>20. Nested(o2, p) /\ WaitsOf(o2, t) = R \union Chains(u)
  <2>1. BecomesAt(o, o2, k, u)
    BY <1>10 DEF BecomesAt
  <2> QED BY <2>1, <1>2, <1>9, <1>12, <1>19, Relinks
<1>21. Chains(u) = {<<z, l>>, <<y, h>>}
  BY <1>5, <1>9, <1>12, <1>18, ChainsAre DEF Loops
<1>22. WaitsOf(o2, t) = V \union {<<z, l>>}
  BY <1>15, <1>20, <1>21
<1> QED BY <1>3, <1>11, <1>16, <1>17, <1>20, <1>22, SettleKeeps

(* default: only its address is kept.                                      *)
LEMMA DefaultKeeps ==
    ASSUME IInv, default PROVE IInv'
<1>1. PICK cs, o, t, p : cs = code /\ o = open /\ t = rsym /\ p = place
  OBVIOUS
<1>2. /\ Ready(cs, o, t, p) /\ Nested(o, p) /\ o \in Seq(Stmt) /\ cs \in Seq(Instruction)
      /\ IsPlace(p) /\ Len(p) \in Nat /\ Len(p) >= 1 /\ Len(cs) \in Nat /\ t \in Nat
  BY <1>1, Begins, ReadyParts
<1>3. ended' \in BOOLEAN
  BY EndedSame DEF default
<1>4. PICK k, s : k = case_sym /\ s = o[k]
  OBVIOUS
<1>5. PICK d : d = Len(cs) + 1
  OBVIOUS
<1>6. PICK u : u = [s EXCEPT !.c = d]
  OBVIOUS
<1>7. k # 0 /\ Settle(cs, [o EXCEPT ![k].c = d], t, p)
  BY <1>1, <1>4, <1>5 DEF default, ind
<1>8. k \in 1 .. Len(o) /\ s.kind = "switch"
  <2>1. k \in 1 .. Len(o) /\ s.kind \in {"switch"}
    BY <1>1, <1>2, <1>4, <1>7, TargetIs DEF case_sym
  <2> QED BY <2>1
<1>9. PICK o2 : o2 = [o EXCEPT ![k] = u]
  OBVIOUS
<1>0. PICK R : R = Rest(o, t, k)
  OBVIOUS
<1>10. Settle(cs, o2, t, p)
  <2>1. [o EXCEPT ![k].c = d] = o2
    BY <1>4, <1>6, <1>9
  <2> QED BY <2>1, <1>7
<1>11. s \in Stmt /\ \A v : Threads(cs, R \union Chains(s), v)
  BY <1>0, <1>2, <1>4, <1>8, AtIs
<1>12. d \in Nat
  BY <1>2, <1>5
<1>13. /\ u \in Stmt /\ u.kind = s.kind /\ u.d = s.d /\ u.brk = s.brk /\ u.cont = s.cont
       /\ u.after = s.after /\ u.a = s.a /\ u.b = s.b
  BY <1>6, <1>11, <1>12 DEF Stmt
<1>14. Relinked(o[k], u)
  BY <1>4, <1>8, <1>13 DEF Relinked
<1>15. Nested(o2, p) /\ WaitsOf(o2, t) = R \union Chains(u)
  <2>1. BecomesAt(o, o2, k, u)
    BY <1>9 DEF BecomesAt
  <2> QED BY <2>1, <1>0, <1>2, <1>8, <1>14, Relinks
<1>16. Chains(u) = Chains(s)
  BY <1>8, <1>13, ChainsAre, ZenonT(30)
<1>17. Threads(cs, WaitsOf(o2, t), p)
  BY <1>11, <1>15, <1>16
<1> QED BY <1>3, <1>10, <1>15, <1>17, SettleKeeps

(* return: a jump of the chain of the returns.                             *)
LEMMA ReturnKeeps ==
    ASSUME IInv, return PROVE IInv'
<1>1. PICK cs, o, t, p : cs = code /\ o = open /\ t = rsym /\ p = place
  OBVIOUS
<1>2. /\ Ready(cs, o, t, p) /\ Nested(o, p) /\ o \in Seq(Stmt) /\ cs \in Seq(Instruction)
      /\ IsPlace(p) /\ Len(p) \in Nat /\ Len(p) >= 1 /\ Len(cs) \in Nat /\ t \in Nat
  BY <1>1, Begins, ReadyParts
<1>3. ended' \in BOOLEAN
  BY EndedSame DEF return
<1>4. PICK j : j = Jump(cs, t, Exit)
  OBVIOUS
<1>5. Settle(j.code, o, j.t, p)
  BY <1>1, <1>4 DEF return
<1>6. PICK R : R = UNION {Chains(o[i]) : i \in 1 .. Len(o)}
  OBVIOUS
<1>7. WaitsOf(o, t) = R \union {<<t, Exit>>} /\ WaitsOf(o, j.t) = R \union {<<j.t, Exit>>}
  BY <1>6 DEF WaitsOf
<1>8. Threads(cs, R \union {<<t, Exit>>}, p)
  BY <1>2, <1>7 DEF Ready
<1>9. Threads(j.code, R \union {<<j.t, Exit>>}, p)
  BY <1>4, <1>8, JumpThreads
<1> QED BY <1>2, <1>3, <1>5, <1>7, <1>9, SettleKeeps

(* Any other statement.                                                    *)
LEMMA OtherKeeps ==
    ASSUME IInv, other PROVE IInv'
<1>1. PICK cs, o, t, p : cs = code /\ o = open /\ t = rsym /\ p = place
  OBVIOUS
<1>2. /\ Ready(cs, o, t, p) /\ Nested(o, p) /\ o \in Seq(Stmt) /\ cs \in Seq(Instruction)
      /\ IsPlace(p) /\ Len(p) \in Nat /\ Len(p) >= 1 /\ Len(cs) \in Nat /\ t \in Nat
  BY <1>1, Begins, ReadyParts
<1>3. ended' \in BOOLEAN
  BY EndedSame DEF other
<1>4. PICK ds : ds = Append(cs, Other)
  OBVIOUS
<1>5. Settle(ds, o, t, p)
  BY <1>1, <1>4 DEF other
<1>6. Threads(cs, WaitsOf(o, t), p)
  BY <1>2 DEF Ready
<1>7. Threads(ds, WaitsOf(o, t), p)
  BY <1>4, <1>6, OtherThreads
<1> QED BY <1>2, <1>3, <1>5, <1>7, SettleKeeps

(* A statement expression: it has no chain.                                *)
LEMMA ExprKeeps ==
    ASSUME IInv, expr PROVE IInv'
<1>1. PICK cs, o, t, p : cs = code /\ o = open /\ t = rsym /\ p = place
  OBVIOUS
<1>2. /\ Ready(cs, o, t, p) /\ Nested(o, p) /\ o \in Seq(Stmt) /\ cs \in Seq(Instruction)
      /\ IsPlace(p) /\ Len(p) \in Nat /\ Len(p) >= 1 /\ Len(cs) \in Nat /\ t \in Nat
  BY <1>1, Begins, ReadyParts
<1>3. ended' \in BOOLEAN
  BY EndedSame DEF expr
<1>4. PICK s : s = Statement("expr")
  OBVIOUS
<1>5. Settle(cs, Append(o, s), t, p)
  BY <1>1, <1>4 DEF expr, Opened
<1>6. /\ s \in Stmt /\ s.kind = "expr" /\ s.brk = 0 /\ s.cont = 0 /\ s.after = 0
  BY <1>4 DEF Statement, Stmt, Kinds
<1>7. Good(s, p, p, {})
  <2>1. Labels(s) = {}
    BY <1>6 DEF Labels
  <2>2. OwnLabels(s, Len(p))
    BY <2>1, <1>2, <1>6 DEF OwnLabels, Exit, Loops
  <2>3. Fits(s, p)
    BY <1>6 DEF Fits
  <2> QED BY <2>1, <2>2, <2>3, <1>6 DEF Good
<1>8. SameBut(p, p, {})
  BY <1>2 DEF SameBut
<1>9. Nested(Append(o, s), p)
  BY <1>2, <1>7, <1>8, Opens
<1>10. WaitsOf(Append(o, s), t) = WaitsOf(o, t)
  <2>1. Chains(s) = {}
    BY <1>6, ChainsAre
  <2>2. WaitsOf(Append(o, s), t) = WaitsOf(o, t) \union Chains(s)
    BY <1>2, <1>6, WaitsPush
  <2> QED BY <2>1, <2>2
<1>11. Threads(cs, WaitsOf(Append(o, s), t), p)
  BY <1>2, <1>10 DEF Ready
<1> QED BY <1>3, <1>5, <1>9, <1>11, SettleKeeps

(* The end of a statement expression.                                      *)
LEMMA EndExprKeeps ==
    ASSUME IInv, end_expr PROVE IInv'
<1>1. PICK cs, o, t, p : cs = code /\ o = open /\ t = rsym /\ p = place
  OBVIOUS
<1>2. /\ Ready(cs, o, t, p) /\ Nested(o, p) /\ o \in Seq(Stmt) /\ cs \in Seq(Instruction)
      /\ IsPlace(p) /\ Len(p) \in Nat /\ Len(p) >= 1 /\ Len(cs) \in Nat /\ t \in Nat
  BY <1>1, Begins, ReadyParts
<1>3. ended' \in BOOLEAN
  BY EndedSame DEF end_expr
<1>4. PICK s, F : s = Last(o) /\ F = Front(o)
  OBVIOUS
<1>5. o # <<>> /\ s.kind = "expr"
  BY <1>1, <1>4 DEF end_expr, In, Top
<1>6. Settle(cs, F, t, p)
  BY <1>1, <1>4 DEF end_expr, Closed
<1>7. PICK R : R = WaitsOf(F, t)
  OBVIOUS
<1>8. \A v : Threads(cs, R \union Chains(s), v)
  BY <1>2, <1>4, <1>5, <1>7, TopIs
<1>9. Chains(s) = {}
  BY <1>5, ChainsAre
<1>10. Threads(cs, R, p)
  <2>1. R \union Chains(s) = R
    BY <1>9
  <2>2. Threads(cs, R \union Chains(s), p)
    BY <1>8
  <2> QED BY <2>1, <2>2
<1>11. SameBut(p, p, Labels(Last(o)))
  BY <1>2 DEF SameBut
<1>12. Nested(F, p)
  BY <1>2, <1>4, <1>5, <1>11, Closes
<1> QED BY <1>3, <1>6, <1>7, <1>10, <1>12, SettleKeeps

(* The end of the function: the returns arrive at it.                      *)
LEMMA FunctionKeeps ==
    ASSUME IInv, gen_function PROVE IInv'
<1>1. PICK cs, o, t, p : cs = code /\ o = open /\ t = rsym /\ p = place
  OBVIOUS
<1>2. /\ Ready(cs, o, t, p) /\ Nested(o, p) /\ o \in Seq(Stmt) /\ cs \in Seq(Instruction)
      /\ IsPlace(p) /\ Len(p) \in Nat /\ Len(p) >= 1 /\ Len(cs) \in Nat /\ t \in Nat
  BY <1>1, Begins, ReadyParts
<1>3. ended' \in BOOLEAN
  <2>1. ended' = TRUE
    BY DEF gen_function
  <2> QED BY <2>1, Zenon
<1>4. PICK ds, q : ds = gsym(cs, t) /\ q = [p EXCEPT ![Exit] = ind(cs)]
  OBVIOUS
<1>5. Settle(ds, o, 0, q) /\ o = <<>>
  BY <1>1, <1>4 DEF gen_function
<1>6. WaitsOf(o, t) = {<<t, Exit>>} /\ WaitsOf(o, 0) = {<<0, Exit>>}
  <2>1. 1 .. Len(o) = {}
    BY <1>5
  <2> QED BY <2>1 DEF WaitsOf
<1>7. SameBut(p, q, {Exit}) /\ q[Exit] = Len(cs) + 1
  <2>1. Met(p, q, Exit, ind(cs))
    BY <1>4 DEF Met
  <2>2. PICK L : L = {Exit}
    OBVIOUS
  <2>3. Exit \in 1 .. Len(p) /\ Exit \in L
    BY <2>2, <1>2 DEF Exit
  <2>4. SameBut(p, q, L) /\ q[Exit] = ind(cs)
    BY <2>1, <2>3, <1>2, PlaceMet
  <2> QED BY <2>2, <2>4 DEF ind
<1>8. PICK R : R = {}
  OBVIOUS
<1>9. Threads(ds, R, q)
  <2>1. R \union {<<t, Exit>>} = {<<t, Exit>>}
    BY <1>8
  <2>2. Threads(cs, R \union {<<t, Exit>>}, q)
    BY <2>1, <1>2, <1>6 DEF Ready
  <2>3. Avoids(R, Exit)
    BY <1>8 DEF Avoids
  <2> QED BY <2>2, <2>3, <1>4, <1>7, GsymThreads
<1>10. Threads(ds, WaitsOf(o, 0), q)
  <2>1. Exit \in Nat
    BY DEF Exit
  <2>2. Threads(ds, R \union {<<0, Exit>>}, q)
    BY <2>1, <1>9, ThreadsZero
  <2>3. R \union {<<0, Exit>>} = {<<0, Exit>>}
    BY <1>8
  <2> QED BY <2>2, <2>3, <1>6
<1>11. Nested(o, q)
  BY <1>2, <1>7, Stays
<1> QED BY <1>3, <1>5, <1>10, <1>11, SettleKeeps

(* The switch of a case, with a new chain z to the next test, at m.        *)
NextTest(s, u, z, m) == u = [s EXCEPT !.b = z, !.after = m]
SwitchIs(o, t, k, s, A) ==
    s = o[k] /\ s.kind = "switch" /\ A = Rest(o, t, k) \union {<<s.a, s.brk>>}
NextPlaces(p, q, s, m) ==
    m \in Nat /\ m > Len(p) /\ SameBut(p, q, Labels(s)) /\ Len(q) \in Nat /\ Len(q) >= m

(* Its chains wait for two labels of its own, and no other chain does.     *)
LEMMA SwitchAt ==
    ASSUME NEW cs, NEW o, NEW t, NEW p, Ready(cs, o, t, p), NEW k \in 1 .. Len(o), NEW s,
           s = o[k], s.kind = "switch", NEW A, A = Rest(o, t, k) \union {<<s.a, s.brk>>}
    PROVE  /\ s.after \in 1 .. Len(p) /\ s.after \in Labels(s) /\ Avoids(A, s.after)
           /\ \A v : Threads(cs, A \union {<<s.b, s.after>>}, v)
           /\ \A l \in Nat : l > Len(p) => Avoids(A, l)
<1>1. Len(p) \in Nat
  BY ReadyParts
<1>2. PICK R : R = Rest(o, t, k)
  OBVIOUS
<1>3. /\ s \in Stmt /\ OwnLabels(s, Len(p)) /\ Labels(s) \subseteq 2 .. Len(p)
      /\ \A l \in Labels(s) : Avoids(R, l)
      /\ \A v : Threads(cs, R \union Chains(s), v)
      /\ \A l \in Nat : l > Len(p) => Avoids(R, l)
  BY <1>2, AtIs
<1>4. PICK x, b, y, l : x = s.a /\ b = s.brk /\ y = s.b /\ l = s.after
  OBVIOUS
<1>5. b \in Labels(s) /\ l \in Labels(s) /\ b # l /\ b \in 2 .. Len(p) /\ l \in 2 .. Len(p)
  <2>1. b # 0 /\ l # 0 /\ b # l
    BY <1>3, <1>4 DEF OwnLabels
  <2>2. b \in Labels(s) /\ l \in Labels(s)
    BY <2>1, <1>4 DEF Labels
  <2> QED BY <2>1, <2>2, <1>3
<1>6. A = R \union {<<x, b>>}
  BY <1>2, <1>4
<1>7. Avoids(A, l)
  BY <1>3, <1>5, <1>6 DEF Avoids
<1>8. ASSUME NEW h \in Nat, h > Len(p) PROVE Avoids(A, h)
  <2>1. Avoids(R, h) /\ h # b
    BY <1>1, <1>3, <1>5, <1>8
  <2> QED BY <2>1, <1>6 DEF Avoids
<1>9. Chains(s) = {<<x, b>>, <<y, l>>}
  BY <1>4, ChainsAre
<1>10. \A v : Threads(cs, A \union {<<y, l>>}, v)
  <2>1. R \union {<<x, b>>, <<y, l>>} = A \union {<<y, l>>}
    BY <1>6
  <2> QED BY <2>1, <1>3, <1>9
<1>11. s.after \in 1 .. Len(p) /\ s.after \in Labels(s) /\ Avoids(A, s.after)
  <2>1. l \in 1 .. Len(p)
    BY <1>1, <1>5
  <2> QED BY <2>1, <1>4, <1>5, <1>7
<1>12. \A v : Threads(cs, A \union {<<s.b, s.after>>}, v)
  BY <1>4, <1>10
<1>13. \A h \in Nat : h > Len(p) => Avoids(A, h)
  BY <1>8
<1> QED BY <1>11, <1>12, <1>13

(* The other chains are as before, and one waits for the next test.        *)
LEMMA SwitchGoesOn ==
    ASSUME NEW cs, NEW o, NEW t, NEW p, Ready(cs, o, t, p), NEW k \in 1 .. Len(o), NEW s,
           NEW A, SwitchIs(o, t, k, s, A), NEW z \in Nat, NEW m, NEW u, NextTest(s, u, z, m),
           NEW q, NextPlaces(p, q, s, m), NEW o2, BecomesAt(o, o2, k, u)
    PROVE  Nested(o2, q) /\ WaitsOf(o2, t) = A \union {<<z, m>>}
<1>1. Nested(o, p) /\ o \in Seq(Stmt) /\ Len(p) \in Nat /\ Len(p) >= 1
  BY ReadyParts
<1>0. /\ s = o[k] /\ s.kind = "switch" /\ A = Rest(o, t, k) \union {<<s.a, s.brk>>}
      /\ m \in Nat /\ m > Len(p) /\ SameBut(p, q, Labels(s)) /\ Len(q) \in Nat /\ Len(q) >= m
  BY DEF SwitchIs, NextPlaces
<1>2. s \in Stmt /\ OwnLabels(s, Len(p)) /\ Labels(s) \subseteq 2 .. Len(p)
  BY <1>0, <1>1, NestedParts
<1>3. PICK x, b, l : x = s.a /\ b = s.brk /\ l = s.cont
  OBVIOUS
<1>4. /\ b \in 2 .. Len(p) /\ b \in Labels(s) /\ l \in 0 .. Len(p) /\ l # 1 /\ b # l
      /\ (l # 0 => l \in Labels(s))
  <2>1. b # 0 /\ b # l /\ l \in 0 .. Len(p) /\ Exit \notin Labels(s)
    BY <1>0, <1>2, <1>3 DEF OwnLabels
  <2>2. b \in Labels(s) /\ (l # 0 => l \in Labels(s))
    BY <2>1, <1>3 DEF Labels
  <2>3. l # 1
    BY <2>1, <2>2 DEF Exit
  <2> QED BY <2>1, <2>2, <2>3, <1>2
<1>5. u = [s EXCEPT !.b = z, !.after = m]
  BY DEF NextTest
<1>6. /\ u \in Stmt /\ u.kind = "switch" /\ u.a = x /\ u.b = z /\ u.brk = b /\ u.cont = l
      /\ u.after = m
  BY <1>0, <1>2, <1>3, <1>5 DEF Stmt
<1>7. Good(u, p, q, Labels(s))
  <2>1. Labels(u) = {b, l, m} \ {0}
    BY <1>6 DEF Labels
  <2>2. /\ b \in 0 .. Len(q) /\ l \in 0 .. Len(q) /\ m \in 0 .. Len(q)
        /\ m # 0 /\ b # 0 /\ b # m /\ l # m /\ 1 \notin Labels(u)
    BY <2>1, <1>0, <1>1, <1>4
  <2>3. OwnLabels(u, Len(q))
    BY <2>2, <1>4, <1>6 DEF OwnLabels, Exit, Loops
  <2>4. Fits(u, q)
    BY <1>6 DEF Fits
  <2>5. \A h \in Labels(u) : h > Len(p) \/ h \in Labels(s)
    BY <2>1, <1>0, <1>4
  <2> QED BY <2>3, <2>4, <2>5, <1>6 DEF Good
<1>8. Nested([o EXCEPT ![k] = u], q)
  BY <1>0, <1>1, <1>7, Changes
<1>9. WaitsOf([o EXCEPT ![k] = u], t) = Rest(o, t, k) \union Chains(u)
  BY <1>1, <1>6, WaitsAt
<1>10. Chains(u) = {<<x, b>>, <<z, m>>}
  BY <1>6, ChainsAre
<1>11. PICK R : R = Rest(o, t, k)
  OBVIOUS
<1>12. WaitsOf([o EXCEPT ![k] = u], t) = A \union {<<z, m>>}
  BY <1>0, <1>3, <1>9, <1>10, <1>11
<1> QED BY <1>8, <1>12 DEF BecomesAt

(* case: its label is jumped over, a test that fails goes on.              *)
LEMMA CaseKeeps ==
    ASSUME IInv, NEW range \in BOOLEAN, case_(range) PROVE IInv'
<1>1. PICK cs, o, t, p : cs = code /\ o = open /\ t = rsym /\ p = place
  OBVIOUS
<1>2. /\ Ready(cs, o, t, p) /\ Nested(o, p) /\ o \in Seq(Stmt) /\ cs \in Seq(Instruction)
      /\ IsPlace(p) /\ Len(p) \in Nat /\ Len(p) >= 1 /\ Len(cs) \in Nat /\ t \in Nat
  BY <1>1, Begins, ReadyParts
<1>3. ended' \in BOOLEAN
  BY EndedSame DEF case_
<1>4. PICK k, s : k = case_sym /\ s = o[k]
  OBVIOUS
<1>5. PICK n, m : n = Len(p) + 1 /\ m = Len(p) + 2
  OBVIOUS
<1>6. PICK over : over = Jump(cs, 0, n)
  OBVIOUS
<1>7. PICK one : one = Missed(over.code, range, s.b, m)
  OBVIOUS
<1>8. PICK miss : miss = gtst(one.code, Last_test, TRUE, one.t, m)
  OBVIOUS
<1>9. PICK es, u : es = gsym(miss.code, over.t) /\ u = [s EXCEPT !.b = miss.t, !.after = m]
  OBVIOUS
<1>10. PICK p2 : p2 = [p EXCEPT ![s.after] = ind(over.code)]
  OBVIOUS
<1>11. PICK v : v = <<ind(miss.code), 0>>
  OBVIOUS
<1>12. PICK q : q = p2 \o v
  OBVIOUS
<1>13. PICK o2 : o2 = [o EXCEPT ![k] = u]
  OBVIOUS
<1>14. k # 0 /\ Settle(es, [o EXCEPT ![k].b = miss.t, ![k].after = m], t, q)
  BY <1>1, <1>4, <1>5, <1>6, <1>7, <1>8, <1>9, <1>10, <1>11, <1>12 DEF case_, NewLabel
<1>15. k \in 1 .. Len(o) /\ s.kind = "switch"
  <2>1. k \in 1 .. Len(o) /\ s.kind \in {"switch"}
    BY <1>1, <1>2, <1>4, <1>14, TargetIs DEF case_sym
  <2> QED BY <2>1
<1>16. Settle(es, o2, t, q)
  <2>1. [o EXCEPT ![k].b = miss.t, ![k].after = m] = o2
    BY <1>2, <1>4, <1>9, <1>13, <1>15
  <2> QED BY <2>1, <1>14
<1>17. PICK A, l : A = Rest(o, t, k) \union {<<s.a, s.brk>>} /\ l = s.after
  OBVIOUS
<1>18. /\ l \in 1 .. Len(p) /\ l \in Labels(s) /\ Avoids(A, l)
       /\ \A x : Threads(cs, A \union {<<s.b, l>>}, x)
       /\ \A x \in Nat : x > Len(p) => Avoids(A, x)
  BY <1>2, <1>4, <1>15, <1>17, SwitchAt
<1>19. /\ n \in Nat /\ m \in Nat /\ n > Len(p) /\ m > Len(p) /\ n # m /\ n # l /\ m # l
       /\ Avoids(A, n)
  <2>1. n \in Nat /\ m \in Nat /\ n > Len(p) /\ m > Len(p) /\ n # m /\ n # l /\ m # l
    BY <1>2, <1>5, <1>18
  <2> QED BY <2>1, <1>18
<1>20. /\ SameBut(p, q, Labels(s)) /\ Len(q) = m /\ q[l] = ind(over.code)
       /\ q[n] = ind(miss.code)
  <2>1. /\ IsPlace(p2) /\ Len(p2) = Len(p) /\ SameBut(p, p2, Labels(s))
        /\ p2[l] = ind(over.code)
    <3>1. Met(p, p2, l, ind(over.code))
      BY <1>10, <1>17 DEF Met
    <3> QED BY <3>1, <1>2, <1>18, PlaceMet
  <2>2. IsPlace(v) /\ Len(v) = 2 /\ v[1] = ind(miss.code)
    BY <1>11, Tuples
  <2>3. /\ Len(q) = Len(p2) + Len(v) /\ SameBut(p2, q, {})
        /\ \A i \in 1 .. Len(p2) : q[i] = p2[i]
        /\ \A i \in 1 .. Len(v) : q[Len(p2) + i] = v[i]
    <3>1. More(p2, q, v)
      BY <1>12 DEF More
    <3>2. IsPlace(v) /\ IsPlace(p2)
      BY <2>1, <2>2
    <3> QED BY <3>1, <3>2, PlaceMore
  <2>4. Len(q) = m /\ q[l] = ind(over.code)
    BY <2>1, <2>2, <2>3, <1>2, <1>5, <1>18
  <2>5. q[n] = ind(miss.code)
    <3>1. q[Len(p2) + 1] = v[1]
      BY <2>2, <2>3
    <3> QED BY <3>1, <2>1, <2>2, <1>5
  <2>6. SameBut(p, q, Labels(s))
    <3>1. Len(p) \in Nat /\ Len(p2) \in Nat /\ Len(q) \in Nat
      BY <2>1, <2>4, <1>2, <1>19
    <3> QED BY <3>1, <2>1, <2>3, SameThen
  <2> QED BY <2>4, <2>5, <2>6
<1>21. PICK y, c, h : y = s.b /\ c = over.code /\ h = over.t
  OBVIOUS
<1>22. PICK B : B = A \union {<<h, n>>}
  OBVIOUS
<1>23. Threads(c, B \union {<<y, l>>}, q) /\ q[l] = Len(c) + 1
  <2>1. PICK W : W = A \union {<<y, l>>}
    OBVIOUS
  <2>2. Threads(cs, W, q)
    BY <2>1, <1>18, <1>21
  <2>3. Threads(cs, W \union {<<0, n>>}, q)
    BY <2>2, <1>19, ThreadsZero
  <2>4. Threads(over.code, W \union {<<over.t, n>>}, q)
    BY <2>3, <1>6, JumpThreads
  <2>5. W \union {<<h, n>>} = B \union {<<y, l>>}
    BY <2>1, <1>22
  <2>6. Threads(c, W \union {<<h, n>>}, q)
    BY <2>4, <1>21
  <2> QED BY <2>5, <2>6, <1>20, <1>21 DEF ind
<1>24. Threads(one.code, B \union {<<one.t, m>>}, q)
  <2>1. one = Missed(c, range, y, m)
    BY <1>7, <1>21
  <2>2. Avoids(B, l)
    BY <1>18, <1>19, <1>22 DEF Avoids
  <2> QED BY <2>1, <2>2, <1>19, <1>23, MissedThreads
<1>25. Threads(miss.code, B \union {<<miss.t, m>>}, q) /\ miss.t \in Nat
  <2>1. CaseTest(miss, one.code, one.t, m)
    <3>1. "v2" \in Registers /\ TRUE \in BOOLEAN
      BY DEF Registers
    <3> QED BY <3>1, <1>8, Zenon DEF CaseTest, Last_test
  <2> QED BY <2>1, <1>24, LastThreads
<1>26. PICK z, d : z = miss.t /\ d = miss.code
  OBVIOUS
<1>27. PICK C : C = A \union {<<z, m>>}
  OBVIOUS
<1>28. Threads(es, C, q)
  <2>1. B \union {<<z, m>>} = C \union {<<h, n>>}
    BY <1>22, <1>27
  <2>2. Threads(d, C \union {<<h, n>>}, q)
    BY <2>1, <1>25, <1>26
  <2>3. Avoids(C, n)
    BY <1>19, <1>27 DEF Avoids
  <2>4. es = gsym(d, h) /\ q[n] = Len(d) + 1
    BY <1>9, <1>20, <1>21, <1>26 DEF ind
  <2> QED BY <2>2, <2>3, <2>4, GsymThreads
<1>29. Nested(o2, q) /\ WaitsOf(o2, t) = A \union {<<z, m>>}
  <2>1. BecomesAt(o, o2, k, u) /\ NextTest(s, u, z, m)
    BY <1>9, <1>13, <1>26 DEF BecomesAt, NextTest
  <2>2. Len(q) \in Nat /\ Len(q) >= m /\ z \in Nat
    BY <1>19, <1>20, <1>25, <1>26
  <2>3. SwitchIs(o, t, k, s, A)
    BY <1>4, <1>15, <1>17 DEF SwitchIs
  <2>4. NextPlaces(p, q, s, m)
    BY <2>2, <1>19, <1>20 DEF NextPlaces
  <2> QED BY <2>1, <2>2, <2>3, <2>4, <1>2, <1>15, SwitchGoesOn
<1> QED BY <1>3, <1>16, <1>27, <1>28, <1>29, SettleKeeps

(* Two labels in a row: a value of the first goes behind both tests.       *)
LEMMA CaseCaseKeeps ==
    ASSUME IInv, NEW range \in BOOLEAN, NEW range2 \in BOOLEAN, case_case(range, range2)
    PROVE  IInv'
<1>1. PICK cs, o, t, p : cs = code /\ o = open /\ t = rsym /\ p = place
  OBVIOUS
<1>2. /\ Ready(cs, o, t, p) /\ Nested(o, p) /\ o \in Seq(Stmt) /\ cs \in Seq(Instruction)
      /\ IsPlace(p) /\ Len(p) \in Nat /\ Len(p) >= 1 /\ Len(cs) \in Nat /\ t \in Nat
  BY <1>1, Begins, ReadyParts
<1>3. ended' \in BOOLEAN
  BY EndedSame DEF case_case
<1>4. PICK k, s : k = case_sym /\ s = o[k]
  OBVIOUS
<1>5. PICK n, m, w : n = Len(p) + 1 /\ m = Len(p) + 2 /\ w = Len(p) + 3
  OBVIOUS
<1>6. PICK over : over = Jump(cs, 0, n)
  OBVIOUS
<1>7. PICK one : one = Missed(over.code, range, s.b, m)
  OBVIOUS
<1>8. PICK hit : hit = gtst(one.code, Last_test, FALSE, over.t, n)
  OBVIOUS
<1>9. PICK two : two = Missed(hit.code, range2, one.t, w)
  OBVIOUS
<1>10. PICK miss : miss = gtst(two.code, Last_test, TRUE, two.t, w)
  OBVIOUS
<1>11. PICK es, u : es = gsym(miss.code, hit.t) /\ u = [s EXCEPT !.b = miss.t, !.after = w]
  OBVIOUS
<1>12. PICK p2 : p2 = [p EXCEPT ![s.after] = ind(over.code)]
  OBVIOUS
<1>13. PICK v : v = <<ind(miss.code), ind(hit.code), 0>>
  OBVIOUS
<1>14. PICK q : q = p2 \o v
  OBVIOUS
<1>15. PICK o2 : o2 = [o EXCEPT ![k] = u]
  OBVIOUS
<1>16. k # 0 /\ Settle(es, [o EXCEPT ![k].b = miss.t, ![k].after = w], t, q)
  <2> DEFINE S == open[case_sym]
             V1 == Jump(code, 0, NewLabel(1))
             V2 == Missed(V1.code, range, S.b, NewLabel(2))
             V3 == gtst(V2.code, Last_test, FALSE, V1.t, NewLabel(1))
             V4 == Missed(V3.code, range2, V2.t, NewLabel(3))
             V5 == gtst(V4.code, Last_test, TRUE, V4.t, NewLabel(3))
             C == gsym(V5.code, V3.t)
             O == [open EXCEPT ![case_sym].b = V5.t, ![case_sym].after = NewLabel(3)]
             P == [place EXCEPT ![S.after] = ind(V1.code)] \o <<ind(V5.code), ind(V3.code), 0>>
  <2>1. case_sym # 0 /\ Settle(C, O, rsym, P)
    BY Zenon DEF case_case
  <2>2. NewLabel(1) = n /\ NewLabel(2) = m /\ NewLabel(3) = w /\ case_sym = k /\ S = s
    BY <1>1, <1>4, <1>5 DEF NewLabel
  <2>3. V1 = over
    BY <2>2, <1>1, <1>6
  <2>4. V2 = one
    <3> HIDE DEF V1, S
    <3> QED BY <2>2, <2>3, <1>7
  <2>5. V3 = hit
    <3> HIDE DEF V2, V1
    <3> QED BY <2>2, <2>3, <2>4, <1>8
  <2>6. V4 = two
    <3> HIDE DEF V3, V2
    <3> QED BY <2>2, <2>4, <2>5, <1>9
  <2>7. V5 = miss
    <3> HIDE DEF V4
    <3> QED BY <2>2, <2>6, <1>10
  <2> HIDE DEF V1, V2, V3, V4, V5, S
  <2>8. C = es
    BY <2>5, <2>7, <1>11
  <2>9. O = [o EXCEPT ![k].b = miss.t, ![k].after = w]
    BY <2>2, <2>7, <1>1, Zenon
  <2>10. P = q
    <3>1. p2 = [place EXCEPT ![S.after] = ind(V1.code)]
      BY <2>2, <2>3, <1>1, <1>12
    <3>2. v = <<ind(V5.code), ind(V3.code), 0>>
      BY <2>5, <2>7, <1>13
    <3> QED BY <3>1, <3>2, <1>14, Zenon
  <2> HIDE DEF C, O, P
  <2> QED BY <2>1, <2>2, <2>8, <2>9, <2>10, <1>1, Zenon
<1>17. k \in 1 .. Len(o) /\ s.kind = "switch"
  <2>1. k \in 1 .. Len(o) /\ s.kind \in {"switch"}
    BY <1>1, <1>2, <1>4, <1>16, TargetIs DEF case_sym
  <2> QED BY <2>1
<1>18. Settle(es, o2, t, q)
  <2>1. [o EXCEPT ![k].b = miss.t, ![k].after = w] = o2
    BY <1>2, <1>4, <1>11, <1>15, <1>17
  <2> QED BY <2>1, <1>16
<1>19. PICK A, l : A = Rest(o, t, k) \union {<<s.a, s.brk>>} /\ l = s.after
  OBVIOUS
<1>20. /\ l \in 1 .. Len(p) /\ l \in Labels(s) /\ Avoids(A, l)
       /\ \A x : Threads(cs, A \union {<<s.b, l>>}, x)
       /\ \A x \in Nat : x > Len(p) => Avoids(A, x)
  BY <1>2, <1>4, <1>17, <1>19, SwitchAt
<1>21. /\ n \in Nat /\ m \in Nat /\ w \in Nat /\ n # m /\ n # w /\ m # w /\ w > Len(p)
       /\ n # l /\ m # l /\ w # l /\ Avoids(A, n) /\ Avoids(A, m)
  <2>1. /\ n \in Nat /\ m \in Nat /\ w \in Nat /\ n # m /\ n # w /\ m # w /\ w > Len(p)
        /\ n # l /\ m # l /\ w # l /\ n > Len(p) /\ m > Len(p)
    BY <1>2, <1>5, <1>20
  <2> QED BY <2>1, <1>20
<1>22. /\ SameBut(p, q, Labels(s)) /\ Len(q) = w /\ q[l] = ind(over.code)
       /\ q[n] = ind(miss.code) /\ q[m] = ind(hit.code)
  <2>1. /\ IsPlace(p2) /\ Len(p2) = Len(p) /\ SameBut(p, p2, Labels(s))
        /\ p2[l] = ind(over.code)
    <3>1. Met(p, p2, l, ind(over.code))
      BY <1>12, <1>19 DEF Met
    <3> QED BY <3>1, <1>2, <1>20, PlaceMet
  <2>2. IsPlace(v) /\ Len(v) = 3 /\ v[1] = ind(miss.code) /\ v[2] = ind(hit.code)
    BY <1>13, Tuples
  <2>3. /\ Len(q) = Len(p2) + Len(v) /\ SameBut(p2, q, {})
        /\ \A i \in 1 .. Len(p2) : q[i] = p2[i]
        /\ \A i \in 1 .. Len(v) : q[Len(p2) + i] = v[i]
    <3>1. More(p2, q, v)
      BY <1>14 DEF More
    <3>2. IsPlace(v) /\ IsPlace(p2)
      BY <2>1, <2>2
    <3> QED BY <3>1, <3>2, PlaceMore
  <2>4. Len(q) = w /\ q[l] = ind(over.code)
    BY <2>1, <2>2, <2>3, <1>2, <1>5, <1>20
  <2>5. q[n] = ind(miss.code) /\ q[m] = ind(hit.code)
    <3>1. q[Len(p2) + 1] = v[1] /\ q[Len(p2) + 2] = v[2]
      BY <2>2, <2>3
    <3> QED BY <3>1, <2>1, <2>2, <1>5
  <2>6. SameBut(p, q, Labels(s))
    <3>1. Len(p) \in Nat /\ Len(p2) \in Nat /\ Len(q) \in Nat
      BY <2>1, <2>4, <1>2, <1>21
    <3> QED BY <3>1, <2>1, <2>3, SameThen
  <2> QED BY <2>4, <2>5, <2>6
<1>23. PICK y, c, h : y = s.b /\ c = over.code /\ h = over.t
  OBVIOUS
<1>24. PICK B : B = A \union {<<h, n>>}
  OBVIOUS
<1>25. Threads(c, B \union {<<y, l>>}, q) /\ q[l] = Len(c) + 1
  <2>1. PICK W : W = A \union {<<y, l>>}
    OBVIOUS
  <2>2. Threads(cs, W, q)
    BY <2>1, <1>20, <1>23
  <2>3. Threads(cs, W \union {<<0, n>>}, q)
    BY <2>2, <1>21, ThreadsZero
  <2>4. Threads(over.code, W \union {<<over.t, n>>}, q)
    BY <2>3, <1>6, JumpThreads
  <2>5. W \union {<<h, n>>} = B \union {<<y, l>>}
    BY <2>1, <1>24
  <2>6. Threads(c, W \union {<<h, n>>}, q)
    BY <2>4, <1>23
  <2> QED BY <2>5, <2>6, <1>22, <1>23 DEF ind
<1>26. Threads(one.code, B \union {<<one.t, m>>}, q)
  <2>1. one = Missed(c, range, y, m)
    BY <1>7, <1>23
  <2>2. Avoids(B, l)
    BY <1>20, <1>21, <1>24 DEF Avoids
  <2> QED BY <2>1, <2>2, <1>21, <1>25, MissedThreads
<1>27. PICK x, e : x = one.t /\ e = one.code
  OBVIOUS
<1>28. Threads(hit.code, (A \union {<<x, m>>}) \union {<<hit.t, n>>}, q)
  <2>1. PICK D : D = A \union {<<x, m>>}
    OBVIOUS
  <2>2. B \union {<<x, m>>} = D \union {<<h, n>>}
    BY <2>1, <1>24
  <2>3. Threads(e, D \union {<<h, n>>}, q)
    BY <2>2, <1>26, <1>27
  <2>4. CaseTest(hit, e, h, n)
    <3>1. "v2" \in Registers /\ FALSE \in BOOLEAN
      BY DEF Registers
    <3> QED BY <3>1, <1>8, <1>23, <1>27, Zenon DEF CaseTest, Last_test
  <2> QED BY <2>1, <2>3, <2>4, LastThreads
<1>29. PICK g, f : g = hit.t /\ f = hit.code
  OBVIOUS
<1>30. PICK E : E = A \union {<<g, n>>}
  OBVIOUS
<1>31. Threads(two.code, E \union {<<two.t, w>>}, q)
  <2>1. (A \union {<<x, m>>}) \union {<<g, n>>} = E \union {<<x, m>>}
    BY <1>30
  <2>2. Threads(f, E \union {<<x, m>>}, q)
    BY <2>1, <1>28, <1>29
  <2>3. two = Missed(f, range2, x, w)
    BY <1>9, <1>27, <1>29
  <2>4. Avoids(E, m)
    BY <1>21, <1>30 DEF Avoids
  <2>5. q[m] = Len(f) + 1
    BY <1>22, <1>29 DEF ind
  <2> QED BY <2>2, <2>3, <2>4, <2>5, <1>21, MissedThreads
<1>32. Threads(miss.code, E \union {<<miss.t, w>>}, q) /\ miss.t \in Nat
  <2>1. CaseTest(miss, two.code, two.t, w)
    <3>1. "v2" \in Registers /\ TRUE \in BOOLEAN
      BY DEF Registers
    <3> QED BY <3>1, <1>10, Zenon DEF CaseTest, Last_test
  <2> QED BY <2>1, <1>31, LastThreads
<1>33. PICK z, d : z = miss.t /\ d = miss.code
  OBVIOUS
<1>34. PICK C : C = A \union {<<z, w>>}
  OBVIOUS
<1>35. Threads(es, C, q)
  <2>1. E \union {<<z, w>>} = C \union {<<g, n>>}
    BY <1>30, <1>34
  <2>2. Threads(d, C \union {<<g, n>>}, q)
    BY <2>1, <1>32, <1>33
  <2>3. Avoids(C, n)
    BY <1>21, <1>34 DEF Avoids
  <2>4. es = gsym(d, g) /\ q[n] = Len(d) + 1
    BY <1>11, <1>22, <1>29, <1>33 DEF ind
  <2> QED BY <2>2, <2>3, <2>4, GsymThreads
<1>36. Nested(o2, q) /\ WaitsOf(o2, t) = A \union {<<z, w>>}
  <2>1. BecomesAt(o, o2, k, u) /\ NextTest(s, u, z, w)
    BY <1>11, <1>15, <1>33 DEF BecomesAt, NextTest
  <2>2. Len(q) \in Nat /\ Len(q) >= w /\ z \in Nat
    BY <1>21, <1>22, <1>32, <1>33
  <2>3. SwitchIs(o, t, k, s, A)
    BY <1>4, <1>17, <1>19 DEF SwitchIs
  <2>4. NextPlaces(p, q, s, w)
    BY <2>2, <1>21, <1>22 DEF NextPlaces
  <2> QED BY <2>1, <2>2, <2>3, <2>4, <1>2, <1>17, SwitchGoesOn
<1> QED BY <1>3, <1>18, <1>34, <1>35, <1>36, SettleKeeps

-----------------------------------------------------------------------------
(* The invariant holds at first, and every step keeps it.                  *)
LEMMA InitKeeps ==
    ASSUME Init PROVE IInv
<1>1. PICK cs, o, p : cs = <<Other>> /\ o = <<>> /\ p = <<0>>
  OBVIOUS
<1>2. code = cs /\ open = o /\ rsym = 0 /\ place = p /\ ended = FALSE
  BY <1>1 DEF Init
<1>3. cs \in Seq(Instruction) /\ Len(cs) = 1 /\ cs[1] = Other /\ Len(o) = 0 /\ o \in Seq(Stmt)
  BY <1>1, OtherIs
<1>4. p \in Seq(Nat) /\ Len(p) = 1
  BY <1>1
<1>5. Nested(o, p)
  BY <1>3, <1>4 DEF Nested
<1>6. PICK W : W = {<<0, Exit>>}
  OBVIOUS
<1>7. Waiting = W
  <2>1. DOMAIN o = {}
    BY <1>1
  <2>2. Waiting = {<<0, Exit>>} \union UNION {Chains(o[i]) : i \in DOMAIN o}
    BY <1>2 DEF Waiting
  <2> QED BY <2>1, <2>2, <1>6
<1>8. Threads(cs, W, p)
  <2>1. Chain(cs, 0) = {} /\ Exit \in Nat
    BY <1>3, ChainIs DEF Exit
  <2>2. ASSUME NEW t, NEW l, <<t, l>> \in W
        PROVE  t \in 0 .. Len(cs) /\ l \in Nat /\ \A i \in Chain(cs, t) : WaitsFor(cs, i, l)
    <3>1. t = 0 /\ l = Exit
      BY <2>2, <1>6
    <3> QED BY <3>1, <2>1, <1>3
  <2>3. \A i \in 1 .. Len(cs) : Covered(cs, W, p, i)
    BY <1>3 DEF Covered
  <2> QED BY <2>2, <2>3, <1>3, ThreadsIf
<1>9. \A i \in 1 .. Len(cs) : cs[i].writes = 0
  BY <1>3, OtherIs
<1>10. Len(cs) <= MaxCode /\ Len(o) <= MaxOpen
  BY <1>3, JumpAssumption
<1>11. ended \in BOOLEAN
  BY <1>2
<1>12. Threads(code, Waiting, place) /\ Nested(open, place)
  BY <1>2, <1>5, <1>7, <1>8
<1> QED BY <1>2, <1>9, <1>10, <1>11, <1>12 DEF IInv

(* Every step keeps the invariant.                                         *)
LEMMA NextKeeps ==
    ASSUME IInv, [Next]_vars PROVE IInv'
<1>1. \A e \in Conditions : e \in Condition
  BY JumpAssumption
<1>2. CASE \E e \in Conditions : if_(e)
  BY <1>1, <1>2, IfKeeps
<1>3. CASE \E e \in Conditions : while_(e)
  BY <1>1, <1>3, WhileKeeps
<1>4. CASE \E e \in Conditions : end_do(e)
  BY <1>1, <1>4, EndDoKeeps
<1>5. CASE \E e \in Conditions : \E incr \in BOOLEAN : for_(TRUE, e, incr)
  <2>1. PICK e \in Conditions, incr \in BOOLEAN : for_(TRUE, e, incr)
    BY <1>5
  <2>2. e \in Condition
    BY <1>1
  <2> QED BY <2>1, <2>2, ForKeeps, Zenon
<1>6. CASE \E incr \in BOOLEAN : for_(FALSE, 0, incr)
  <2>1. PICK incr \in BOOLEAN : for_(FALSE, 0, incr)
    BY <1>6
  <2> QED BY <2>1, ForKeeps, Zenon
<1>7. CASE \E range \in BOOLEAN : case_(range)
  BY <1>7, CaseKeeps
<1>8. CASE \E range \in BOOLEAN : \E range2 \in BOOLEAN : case_case(range, range2)
  BY <1>8, CaseCaseKeeps
<1>9. CASE else_ \/ end_if \/ end_while \/ end_for \/ do_ \/ switch \/ end_switch
  BY <1>9, ElseKeeps, EndIfKeeps, EndWhileKeeps, EndForKeeps, DoKeeps, SwitchKeeps,
     EndSwitchKeeps
<1>10. CASE default \/ break \/ continue \/ return \/ other \/ expr \/ end_expr \/ gen_function
  BY <1>10, DefaultKeeps, BreakKeeps, ContinueKeeps, ReturnKeeps, OtherKeeps, ExprKeeps,
     EndExprKeeps, FunctionKeeps
<1>11. CASE UNCHANGED vars
  <2>1. /\ code' = code /\ open' = open /\ rsym' = rsym /\ place' = place /\ ended' = ended
    BY <1>11 DEF vars
  <2>2. Waiting' = Waiting
    BY <2>1 DEF Waiting
  <2> QED BY <2>1, <2>2 DEF IInv
<1> QED BY <1>2, <1>3, <1>4, <1>5, <1>6, <1>7, <1>8, <1>9, <1>10, <1>11 DEF Next

(* What the invariant says of the chains that wait, and of a jump.         *)
LEMMA WaitsPairs ==
    ASSUME NEW o, NEW t, o \in Seq(Stmt), NEW w \in WaitsOf(o, t) PROVE w = <<w[1], w[2]>>
<1>1. CASE w = <<t, Exit>>
  BY <1>1
<1>2. CASE \E i \in 1 .. Len(o) : w \in Chains(o[i])
  <2>1. PICK i \in 1 .. Len(o) : w \in Chains(o[i])
    BY <1>2
  <2>2. PICK s \in Stmt : s = o[i]
    OBVIOUS
  <2>3. s.kind \in {"then", "else", "switch", "expr"} \union Loops
    BY DEF Stmt, Kinds, Loops
  <2>4. CASE s.kind = "then"
    BY <2>1, <2>2, <2>4, ChainsAre
  <2>5. CASE s.kind = "else"
    BY <2>1, <2>2, <2>5, ChainsAre
  <2>6. CASE s.kind = "switch"
    BY <2>1, <2>2, <2>6, ChainsAre
  <2>7. CASE s.kind = "expr"
    BY <2>1, <2>2, <2>7, ChainsAre
  <2>8. CASE s.kind \in Loops
    BY <2>1, <2>2, <2>8, ChainsAre
  <2> QED BY <2>3, <2>4, <2>5, <2>6, <2>7, <2>8
<1> QED BY <1>1, <1>2, InWaits

(* The invariant, in the words of Threaded and Arrives.                    *)
LEMMA InvMeans ==
    ASSUME IInv
    PROVE  /\ code \in Seq(Instruction) /\ Len(code) \in Nat /\ DOMAIN code = 1 .. Len(code)
           /\ \A w \in Waiting :
                 /\ w[1] \in 0 .. Len(code) /\ w[2] \in 1 .. Len(place)
                 /\ \A i \in Chain(code, w[1]) : i \in 1 .. Len(code) /\ WaitsFor(code, i, w[2])
           /\ \A i \in 1 .. Len(code) :
                 /\ code[i].writes = 0
                 /\ code[i] = Other \/ \E w \in Waiting : i \in Chain(code, w[1])
<1>1. PICK cs, o, t, p : cs = code /\ o = open /\ t = rsym /\ p = place
  OBVIOUS
<1>2. PICK W : W = WaitsOf(o, t)
  OBVIOUS
<1>3. /\ Waiting = W /\ Threads(cs, W, p) /\ Nested(o, p)
      /\ \A i \in 1 .. Len(cs) : cs[i].writes = 0
  BY <1>1, <1>2, Begins DEF IInv
<1>4. /\ cs \in Seq(Instruction) /\ Len(cs) \in Nat /\ DOMAIN cs = 1 .. Len(cs)
      /\ o \in Seq(Stmt) /\ Len(p) \in Nat /\ Len(p) >= 1
      /\ \A i \in 1 .. Len(o) : Labels(o[i]) \subseteq 2 .. Len(p)
  BY <1>3, ThreadsParts, NestedParts, CodeType
<1>5. ASSUME NEW w \in W
      PROVE  /\ w[1] \in 0 .. Len(cs) /\ w[2] \in 1 .. Len(p)
             /\ \A i \in Chain(cs, w[1]) : i \in 1 .. Len(cs) /\ WaitsFor(cs, i, w[2])
  <2>1. PICK u, l : u = w[1] /\ l = w[2]
    OBVIOUS
  <2>2. <<u, l>> \in W
    BY <2>1, <1>2, <1>4, WaitsPairs
  <2>3. u \in 0 .. Len(cs) /\ \A i \in Chain(cs, u) : i \in 1 .. Len(cs) /\ WaitsFor(cs, i, l)
    BY <2>2, <1>3, ThreadsParts
  <2>4. l = Exit \/ \E i \in 1 .. Len(o) : l \in Labels(o[i])
    BY <2>2, <1>2, <1>3, WaitsLabels
  <2>5. CASE l = Exit
    BY <2>1, <2>3, <2>5, <1>4 DEF Exit
  <2>6. CASE \E i \in 1 .. Len(o) : l \in Labels(o[i])
    <3>1. l \in 2 .. Len(p)
      BY <2>6, <1>4
    <3>2. l \in 1 .. Len(p)
      BY <3>1, <1>4
    <3> QED BY <2>1, <2>3, <3>2
  <2> QED BY <2>4, <2>5, <2>6
<1>6. ASSUME NEW i \in 1 .. Len(cs)
      PROVE  cs[i].writes = 0 /\ (cs[i] = Other \/ \E w \in W : i \in Chain(cs, w[1]))
  <2>1. Covered(cs, W, p, i) /\ ~Arrived(cs[i], p)
    BY <1>3, ThreadsCovers DEF Arrived
  <2>2. cs[i] = Other \/ \E u, l : <<u, l>> \in W /\ i \in Chain(cs, u)
    BY <2>1 DEF Covered
  <2>3. ASSUME NEW u, NEW l, <<u, l>> \in W, i \in Chain(cs, u)
        PROVE  \E w \in W : i \in Chain(cs, w[1])
    <3>1. PICK w : w = <<u, l>>
      OBVIOUS
    <3>2. w \in W /\ w[1] = u
      BY <2>3, <3>1
    <3> QED BY <3>2, <2>3
  <2> QED BY <2>2, <2>3, <1>3
<1> QED BY <1>1, <1>3, <1>4, <1>5, <1>6

(* What the runs check follows from the invariant.                         *)
LEMMA InvImplies ==
    ASSUME IInv PROVE TypeOK /\ Threaded /\ Arrives
<1>1. /\ code \in Seq(Instruction) /\ Len(code) \in Nat /\ DOMAIN code = 1 .. Len(code)
      /\ \A w \in Waiting :
            /\ w[1] \in 0 .. Len(code) /\ w[2] \in 1 .. Len(place)
            /\ \A i \in Chain(code, w[1]) : i \in 1 .. Len(code) /\ WaitsFor(code, i, w[2])
      /\ \A i \in 1 .. Len(code) :
            /\ code[i].writes = 0
            /\ code[i] = Other \/ \E w \in Waiting : i \in Chain(code, w[1])
  BY InvMeans
<1>2. \A i \in 1 .. Len(code) : i \in Jumps <=> code[i].op # "other"
  BY <1>1 DEF Jumps
<1>3. Jumps = Waits
  BY <1>1, <1>2 DEF Waits, Jumps
<1>4. \A i \in Waits : i \in 1 .. Len(code) /\ \E w \in Waiting : i \in Chain(code, w[1])
  BY <1>1, <1>2, <1>3, OtherIs DEF Jumps
<1>5. \A w \in Waiting : \A i \in Chain(code, w[1]) :
         i \in Waits /\ w[2] = code[i].meant /\ code[i].next \in 0 .. i - 1
  BY <1>1, <1>2, <1>3 DEF WaitsFor
<1>6. Threaded
  BY <1>4, <1>5 DEF Threaded
<1>7. TypeOK
  <2>1. Len(code) <= MaxCode /\ Len(open) <= MaxOpen /\ ended \in BOOLEAN
    BY DEF IInv
  <2>2. rsym \in 0 .. Len(code)
    <3>1. PICK w : w = <<rsym, Exit>>
      OBVIOUS
    <3>2. w \in Waiting /\ w[1] = rsym
      BY <3>1 DEF Waiting
    <3> QED BY <3>2, <1>1
  <2>3. ASSUME NEW i \in 1 .. Len(code)
        PROVE  code[i].next \in 0 .. ind(code) /\ code[i].writes \in Nat
    <3>1. code[i] = Other \/ i \in Waits
      BY <1>1, <1>5
    <3>2. code[i].next = 0 \/ code[i].next \in 0 .. i - 1
      BY <3>1, <1>4, <1>5, OtherIs
    <3> QED BY <3>2, <1>1 DEF ind
  <2>4. \A i \in Waits : code[i].next < i
    <3> TAKE i \in Waits
    <3>1. i \in 1 .. Len(code) /\ code[i].next \in 0 .. i - 1
      BY <1>4, <1>5
    <3> QED BY <3>1, <1>1
  <2>5. \A w \in Waiting : w[1] \in 0 .. Len(code) /\ w[2] \in DOMAIN place
    <3>1. DOMAIN place = 1 .. Len(place)
      <4>1. PICK S : place \in Seq(S)
        BY DEF IInv, Nested
      <4> QED BY <4>1
    <3> QED BY <3>1, <1>1
  <2> QED BY <2>1, <2>2, <2>3, <2>4, <2>5, <1>1, Zenon DEF TypeOK
<1> QED BY <1>3, <1>6, <1>7 DEF Arrives

-----------------------------------------------------------------------------
(* Spec: the chains are threaded and statements nested, always.            *)
THEOREM Invariance == Spec => []IInv
<1>1. Init => IInv
  BY InitKeeps
<1>2. IInv /\ [Next]_vars => IInv'
  BY NextKeeps
<1> QED BY <1>1, <1>2, PTL DEF Spec

(* A chain and a field hold 0 or an address, and a chain goes down, so that*)
(* gsym_addr ends.                                                         *)
THEOREM TypeCorrect == Spec => []TypeOK
<1>1. IInv => TypeOK
  BY InvImplies
<1> QED BY <1>1, Invariance, PTL

(* Whatever order statements nest in, a jump that waits is on a chain that *)
(* waits for its label, and a chain has none that waits for another one.   *)
THEOREM JumpsThreaded == Spec => []Threaded
<1>1. IInv => Threaded
  BY InvImplies
<1> QED BY <1>1, Invariance, PTL

(* A break, continue, return, failed test or case jumps where C says, once *)
(* and for all.                                                            *)
THEOREM JumpsArrive == Spec => []Arrives
<1>1. IInv => Arrives
  BY InvImplies
<1> QED BY <1>1, Invariance, PTL

(* A test of any condition jumps for just those operands for which C says  *)
(* that it does, for all sets of operands and behind any code.             *)
THEOREM TestsDecide == Spec => []TestsRight
<1>1. IInv => TestsRight
  <2> SUFFICES ASSUME IInv, NEW e \in Tests, NEW inv \in BOOLEAN, NEW given \in SUBSET Operands
               PROVE  LET r == Test(code, e, inv, Exit)
                      IN  Leaves(r.code, ind(code), r.t, given) = (True(e, given) # inv)
    BY DEF TestsRight
  <2>1. code \in Seq(Instruction)
    BY InvMeans
  <2>2. e \in Condition
    BY JumpAssumption
  <2>3. Exit \in Nat
    BY DEF Exit
  <2> QED BY <2>1, <2>2, <2>3, TestIs
<1> QED BY <1>1, Invariance, PTL
=============================================================================
