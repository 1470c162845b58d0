----------------------------- MODULE StackFacts -----------------------------
(***************************************************************************)
(* Facts that the proofs about more than one module need: least and        *)
(* greatest numbers, counts, and stacks of Syms (src/generic/tcc.c): one   *)
(* is a sequence s over a set A of Syms, the newest last; y gives their    *)
(* contents, of which v (a name, in N) and prev_tok (a Sym, or null) are   *)
(* looked at; ident is the pointer every name has to its newest Sym.       *)
(***************************************************************************)
EXTENDS Integers, Sequences, FiniteSetTheorems, WellFoundedInduction, TLAPS

(* A set of naturals that is not empty has a least element.                *)
LEMMA LeastNat ==
    ASSUME NEW I, I \subseteq Nat, I # {} PROVE \E i \in I : \A j \in I : i <= j
<1> DEFINE Less == {p \in Nat \X Nat : p[1] < p[2]}
<1>1. IsWellFoundedOn(Less, Nat)
  BY NatLessThanWellFounded, Zenon DEF OpToRel
<1> HIDE DEF Less
<1>2. PICK i \in I : \A j \in I : ~(<<j, i>> \in Less)
  BY <1>1, WFMin
<1>3. \A j \in I : ~(j < i)
  BY <1>2 DEF Less
<1> QED BY <1>3

(* One that is bounded has a greatest.                                     *)
LEMMA GreatestNat ==
    ASSUME NEW I, NEW m \in Nat, I \subseteq 0 .. m, I # {}
    PROVE  \E i \in I : \A j \in I : j <= i
<1> DEFINE D == {k \in Nat : \E i \in I : k = m - i}
<1>1. D \subseteq Nat /\ D # {}
  <2>1. PICK i \in I : TRUE
    OBVIOUS
  <2>2. m - i \in D
    BY <2>1
  <2> QED BY <2>2
<1> HIDE DEF D
<1>2. PICK d \in D : \A e \in D : d <= e
  BY <1>1, LeastNat
<1>3. PICK i \in I : d = m - i
  BY DEF D
<1>4. \A j \in I : m - j \in D
  BY DEF D
<1>5. \A j \in I : j <= i
  <2> TAKE j \in I
  <2>1. m - i <= m - j
    BY <1>2, <1>3, <1>4
  <2> QED BY <2>1
<1> QED BY <1>5

(* How many of the numbers up to i are in a set.                           *)
Upto(S, i) == {j \in S : j <= i}

(* One more, or as many.                                                   *)
LEMMA CountUpto ==
    ASSUME NEW m \in Nat, NEW S \in SUBSET (1 .. m)
    PROVE  /\ IsFiniteSet(S) /\ Cardinality(S) \in Nat /\ Cardinality(S) <= m
           /\ \A i \in S : Cardinality(Upto(S, i)) \in 1 .. Cardinality(S)
           /\ \A i, j \in S : i < j => Cardinality(Upto(S, i)) < Cardinality(Upto(S, j))
<1>1. IsFiniteSet(1 .. m) /\ Cardinality(1 .. m) = m
  BY FS_Interval
<1>2. IsFiniteSet(S) /\ Cardinality(S) \in Nat /\ Cardinality(S) <= m
  BY <1>1, FS_Subset, FS_CardinalityType
<1>3. ASSUME NEW T \in SUBSET S
      PROVE  IsFiniteSet(T) /\ Cardinality(T) \in Nat /\ Cardinality(T) <= Cardinality(S)
  BY <1>2, FS_Subset, FS_CardinalityType
<1>4. ASSUME NEW i \in S PROVE Cardinality(Upto(S, i)) \in 1 .. Cardinality(S)
  <2>1. Upto(S, i) \in SUBSET S /\ i \in Upto(S, i)
    BY DEF Upto
  <2>2. IsFiniteSet(Upto(S, i)) /\ Cardinality(Upto(S, i)) \in Nat
        /\ Cardinality(Upto(S, i)) <= Cardinality(S)
    BY <2>1, <1>3
  <2>3. Cardinality(Upto(S, i)) # 0
    BY <2>1, <2>2, FS_EmptySet
  <2> QED BY <2>2, <2>3, <1>2
<1>5. ASSUME NEW i \in S, NEW j \in S, i < j
      PROVE  Cardinality(Upto(S, i)) < Cardinality(Upto(S, j))
  <2>0. \A k \in S : k \in Nat
    OBVIOUS
  <2>1. /\ Upto(S, i) \in SUBSET S /\ Upto(S, j) \in SUBSET S
        /\ Upto(S, i) \in SUBSET Upto(S, j) /\ j \in Upto(S, j) /\ j \notin Upto(S, i)
    <3>1. i \in Nat /\ j \in Nat /\ ~(j <= i) /\ j <= j
      BY <2>0, <1>5
    <3>2. \A k \in S : k <= i => k <= j
      BY <2>0, <3>1, <1>5
    <3>3. Upto(S, i) \subseteq Upto(S, j)
      BY <3>2 DEF Upto
    <3>4. j \in Upto(S, j) /\ j \notin Upto(S, i)
      BY <3>1 DEF Upto
    <3>5. Upto(S, i) \subseteq S /\ Upto(S, j) \subseteq S
      BY DEF Upto
    <3> QED BY <3>3, <3>4, <3>5
  <2>2. IsFiniteSet(Upto(S, j))
    BY <2>1, <1>3
  <2>3. /\ Cardinality(Upto(S, i)) <= Cardinality(Upto(S, j))
        /\ Cardinality(Upto(S, i)) = Cardinality(Upto(S, j)) => Upto(S, i) = Upto(S, j)
    BY <2>1, <2>2, FS_Subset
  <2>4. Upto(S, i) # Upto(S, j)
    BY <2>1
  <2>5. Cardinality(Upto(S, i)) \in Nat /\ Cardinality(Upto(S, j)) \in Nat
    BY <2>1, <1>3
  <2> QED BY <2>3, <2>4, <2>5
<1> QED BY <1>2, <1>4, <1>5

-----------------------------------------------------------------------------
(* Among the m oldest Syms of the stack s, whose contents are y, the       *)
(* newest of name n is p, or there is none and p is null.                  *)
IsNewest(null, s, y, n, m, p) ==
    \/ p = null /\ \A i \in 1 .. m : y[s[i]].v # n
    \/ \E k \in 1 .. m :
          /\ s[k] = p /\ y[p].v = n
          /\ \A i \in k + 1 .. m : y[s[i]].v # n

(* ident is the scope rule of the stack s, and every Sym hides the next    *)
(* older one of its name.                                                  *)
IsScope(N, null, s, y, ident) ==
    /\ \A n \in N : IsNewest(null, s, y, n, Len(s), ident[n])
    /\ \A i \in 1 .. Len(s) : y[s[i]].v \in N =>
          IsNewest(null, s, y, y[s[i]].v, i - 1, y[s[i]].prev_tok)

(* A name has one newest Sym at most.                                      *)
LEMMA NewestUnique ==
    ASSUME NEW A, NEW null, null \notin A,
           NEW s \in Seq(A), NEW y, NEW n, NEW m \in 0 .. Len(s), NEW p, NEW q,
           IsNewest(null, s, y, n, m, p), IsNewest(null, s, y, n, m, q)
    PROVE  p = q
<1>1. \A k \in 1 .. m : s[k] # null
  OBVIOUS
<1>2. CASE p = null \/ q = null
  BY <1>1, <1>2 DEF IsNewest
<1>3. CASE p # null /\ q # null
  <2>1. PICK k \in 1 .. m : /\ s[k] = p /\ y[p].v = n
                            /\ \A i \in k + 1 .. m : y[s[i]].v # n
    BY <1>3 DEF IsNewest
  <2>2. PICK l \in 1 .. m : /\ s[l] = q /\ y[q].v = n
                            /\ \A i \in l + 1 .. m : y[s[i]].v # n
    BY <1>3 DEF IsNewest
  <2>3. ~(k < l) /\ ~(l < k)
    BY <2>1, <2>2
  <2> QED BY <2>1, <2>2, <2>3
<1> QED BY <1>2, <1>3

(* What is newest is a matter of the m oldest Syms and of their names.     *)
LEMMA NewestSame ==
    ASSUME NEW null, NEW s, NEW t, NEW y, NEW z, NEW n, NEW m \in Nat, NEW p,
           \A i \in 1 .. m : t[i] = s[i] /\ z[s[i]].v = y[s[i]].v,
           IsNewest(null, s, y, n, m, p)
    PROVE  IsNewest(null, t, z, n, m, p)
<1>1. CASE p = null /\ \A i \in 1 .. m : y[s[i]].v # n
  BY <1>1 DEF IsNewest
<1>2. CASE \E k \in 1 .. m : /\ s[k] = p /\ y[p].v = n
                             /\ \A i \in k + 1 .. m : y[s[i]].v # n
  <2>1. PICK k \in 1 .. m : /\ s[k] = p /\ y[p].v = n
                            /\ \A i \in k + 1 .. m : y[s[i]].v # n
    BY <1>2
  <2>2. t[k] = p /\ z[p].v = n
    BY <2>1
  <2>3. \A i \in k + 1 .. m : z[t[i]].v # n
    <3> TAKE i \in k + 1 .. m
    <3>1. i \in 1 .. m
      OBVIOUS
    <3> QED BY <3>1, <2>1
  <2> QED BY <2>2, <2>3 DEF IsNewest
<1> QED BY <1>1, <1>2 DEF IsNewest

(* Syms of other names above change nothing.                               *)
LEMMA NewestAbove ==
    ASSUME NEW null, NEW s, NEW y, NEW n, NEW m \in Nat, NEW l \in Nat, NEW p, m <= l,
           \A i \in m + 1 .. l : y[s[i]].v # n
    PROVE  IsNewest(null, s, y, n, m, p) <=> IsNewest(null, s, y, n, l, p)
<1>1. \A i \in 1 .. l : i \in 1 .. m \/ i \in m + 1 .. l
  OBVIOUS
<1>2. \A i \in 1 .. m : i \in 1 .. l
  OBVIOUS
<1>3. ASSUME IsNewest(null, s, y, n, m, p) PROVE IsNewest(null, s, y, n, l, p)
  <2>1. CASE p = null /\ \A i \in 1 .. m : y[s[i]].v # n
    BY <2>1, <1>1 DEF IsNewest
  <2>2. ASSUME NEW k \in 1 .. m, s[k] = p /\ y[p].v = n,
               \A i \in k + 1 .. m : y[s[i]].v # n
        PROVE  IsNewest(null, s, y, n, l, p)
    <3>1. \A i \in k + 1 .. l : y[s[i]].v # n
      <4> TAKE i \in k + 1 .. l
      <4>1. i \in k + 1 .. m \/ i \in m + 1 .. l
        OBVIOUS
      <4> QED BY <4>1, <2>2
    <3> QED BY <3>1, <2>2, <1>2 DEF IsNewest
  <2> QED BY <2>1, <2>2, <1>3 DEF IsNewest
<1>4. ASSUME IsNewest(null, s, y, n, l, p) PROVE IsNewest(null, s, y, n, m, p)
  <2>1. CASE p = null /\ \A i \in 1 .. l : y[s[i]].v # n
    BY <2>1, <1>2 DEF IsNewest
  <2>2. ASSUME NEW k \in 1 .. l, s[k] = p /\ y[p].v = n,
               \A i \in k + 1 .. l : y[s[i]].v # n
        PROVE  IsNewest(null, s, y, n, m, p)
    <3>1. k \in 1 .. m
      BY <2>2, <1>1
    <3>2. \A i \in k + 1 .. m : i \in k + 1 .. l
      OBVIOUS
    <3> QED BY <3>1, <3>2, <2>2 DEF IsNewest
  <2> QED BY <2>1, <2>2, <1>4 DEF IsNewest
<1> QED BY <1>3, <1>4

(* A Sym on top is the newest of its name.                                 *)
LEMMA NewestOnTop ==
    ASSUME NEW null, NEW s, NEW y, NEW n, NEW m \in Nat \ {0}, y[s[m]].v = n
    PROVE  IsNewest(null, s, y, n, m, s[m])
<1>1. m \in 1 .. m /\ \A i \in m + 1 .. m : FALSE
  OBVIOUS
<1> QED BY <1>1 DEF IsNewest

-----------------------------------------------------------------------------
(* The contents of the Syms of s are, but for what the scope rule does not *)
(* look at, the same in y and z.                                           *)
SameSyms(s, y, z) ==
    \A i \in 1 .. Len(s) : z[s[i]].v = y[s[i]].v /\ z[s[i]].prev_tok = y[s[i]].prev_tok

(* Then it holds of both or of none.                                       *)
LEMMA ScopeSame ==
    ASSUME NEW A, NEW N, NEW null, NEW s \in Seq(A), NEW y, NEW z, NEW ident,
           SameSyms(s, y, z), IsScope(N, null, s, y, ident)
    PROVE  IsScope(N, null, s, z, ident)
<1>1. \A n \in N : IsNewest(null, s, z, n, Len(s), ident[n])
  <2> TAKE n \in N
  <2>1. IsNewest(null, s, y, n, Len(s), ident[n]) /\ Len(s) \in Nat
    BY DEF IsScope
  <2>2. \A i \in 1 .. Len(s) : z[s[i]].v = y[s[i]].v
    BY DEF SameSyms
  <2> QED BY <2>1, <2>2, NewestSame
<1>2. ASSUME NEW i \in 1 .. Len(s), z[s[i]].v \in N
      PROVE  IsNewest(null, s, z, z[s[i]].v, i - 1, z[s[i]].prev_tok)
  <2>1. IsNewest(null, s, y, z[s[i]].v, i - 1, z[s[i]].prev_tok)
    BY <1>2 DEF IsScope, SameSyms
  <2>2. \A j \in 1 .. i - 1 : z[s[j]].v = y[s[j]].v
    BY DEF SameSyms
  <2>3. i - 1 \in Nat
    OBVIOUS
  <2> QED BY <2>1, <2>2, <2>3, NewestSame
<1> QED BY <1>1, <1>2 DEF IsScope

(* Pushing a Sym a of name n, which hides what n meant.                    *)
Pushes(A, N, s, y, z, ident, jdent, n, a) ==
    /\ s \in Seq(A) /\ a \in A
    /\ SameSyms(s, y, z)
    /\ z[a].v = n /\ (n \in N => z[a].prev_tok = ident[n])
    /\ \A w \in N : jdent[w] = IF w = n THEN a ELSE ident[w]

(* The rule holds of the stack it is pushed on.                            *)
LEMMA ScopePush ==
    ASSUME NEW A, NEW N, NEW null,
           NEW s, NEW y, NEW z, NEW ident, NEW jdent, NEW n, NEW a,
           Pushes(A, N, s, y, z, ident, jdent, n, a), IsScope(N, null, s, y, ident)
    PROVE  IsScope(N, null, Append(s, a), z, jdent)
<1> USE DEF Pushes
<1> DEFINE t == Append(s, a)
           L == Len(s)
<1>1. /\ L \in Nat /\ Len(t) = L + 1 /\ t[L + 1] = a
      /\ \A i \in 1 .. L : t[i] = s[i]
  OBVIOUS
<1> HIDE DEF t
<1>2. ASSUME NEW w, NEW m \in 0 .. L, NEW p, IsNewest(null, s, y, w, m, p)
      PROVE  IsNewest(null, t, z, w, m, p)
  <2>1. \A i \in 1 .. m : t[i] = s[i] /\ z[s[i]].v = y[s[i]].v
    BY <1>1 DEF SameSyms
  <2>2. m \in Nat
    BY <1>1
  <2> QED BY <1>2, <2>1, <2>2, NewestSame
<1>3. \A w \in N : IsNewest(null, s, y, w, L, ident[w])
  BY DEF IsScope
<1>4. \A w \in N : IsNewest(null, t, z, w, L + 1, jdent[w])
  <2> TAKE w \in N
  <2>1. CASE w = n
    <3>1. L + 1 \in Nat \ {0} /\ z[t[L + 1]].v = w /\ jdent[w] = t[L + 1]
      BY <2>1, <1>1
    <3> QED BY <3>1, NewestOnTop
  <2>2. CASE w # n
    <3>1. IsNewest(null, t, z, w, L, ident[w])
      BY <1>1, <1>2, <1>3
    <3>2. \A i \in L + 1 .. L + 1 : z[t[i]].v # w
      BY <2>2, <1>1
    <3>3. L + 1 \in Nat /\ L <= L + 1
      BY <1>1
    <3> QED BY <3>1, <3>2, <3>3, <2>2, <1>1, NewestAbove
  <2> QED BY <2>1, <2>2
<1>5. ASSUME NEW i \in 1 .. L + 1, z[t[i]].v \in N
      PROVE  IsNewest(null, t, z, z[t[i]].v, i - 1, z[t[i]].prev_tok)
  <2>1. CASE i = L + 1
    BY <2>1, <1>1, <1>2, <1>3, <1>5
  <2>2. CASE i \in 1 .. L
    <3>1. /\ t[i] = s[i] /\ z[t[i]].v = y[s[i]].v
          /\ z[t[i]].prev_tok = y[s[i]].prev_tok
      BY <2>2, <1>1 DEF SameSyms
    <3>2. IsNewest(null, s, y, z[t[i]].v, i - 1, z[t[i]].prev_tok)
      BY <2>2, <3>1, <1>5 DEF IsScope
    <3>3. i - 1 \in 0 .. L
      BY <2>2, <1>1
    <3> QED BY <3>2, <3>3, <1>2
  <2> QED BY <2>1, <2>2, <1>1
<1> QED BY <1>1, <1>4, <1>5 DEF IsScope, t

(* Popping to height h: a name of which Syms are popped means again what   *)
(* the oldest of them hid.                                                 *)
Pops(A, N, s, y, z, ident, jdent, h) ==
    /\ s \in Seq(A) /\ h \in 0 .. Len(s)
    /\ \A i \in 1 .. h : z[s[i]].v = y[s[i]].v /\ z[s[i]].prev_tok = y[s[i]].prev_tok
    /\ \A w \in N :
          \/ /\ \A i \in h + 1 .. Len(s) : y[s[i]].v # w
             /\ jdent[w] = ident[w]
          \/ \E k \in h + 1 .. Len(s) :
                /\ y[s[k]].v = w /\ jdent[w] = y[s[k]].prev_tok
                /\ \A i \in h + 1 .. k - 1 : y[s[i]].v # w

(* The rule holds of the Syms that are left.                               *)
LEMMA ScopePop ==
    ASSUME NEW A, NEW N, NEW null,
           NEW s, NEW y, NEW z, NEW ident, NEW jdent, NEW h,
           Pops(A, N, s, y, z, ident, jdent, h), IsScope(N, null, s, y, ident)
    PROVE  IsScope(N, null, SubSeq(s, 1, h), z, jdent)
<1> USE DEF Pops
<1> DEFINE t == SubSeq(s, 1, h)
<1>1. h \in Nat /\ Len(t) = h /\ \A i \in 1 .. h : t[i] = s[i] /\ i \in 1 .. Len(s)
  OBVIOUS
<1> HIDE DEF t
<1>2. ASSUME NEW w, NEW m \in 0 .. h, NEW p, IsNewest(null, s, y, w, m, p)
      PROVE  IsNewest(null, t, z, w, m, p)
  <2>1. \A i \in 1 .. m : t[i] = s[i] /\ z[s[i]].v = y[s[i]].v
    BY <1>1
  <2>2. m \in Nat
    BY <1>1
  <2> QED BY <1>2, <2>1, <2>2, NewestSame
<1>3. ASSUME NEW w \in N PROVE IsNewest(null, s, y, w, h, jdent[w])
  <2>1. CASE (\A i \in h + 1 .. Len(s) : y[s[i]].v # w) /\ jdent[w] = ident[w]
    <3>1. IsNewest(null, s, y, w, Len(s), jdent[w]) /\ Len(s) \in Nat /\ h <= Len(s)
      BY <2>1 DEF IsScope
    <3> QED BY <3>1, <2>1, <1>1, NewestAbove
  <2>2. ASSUME NEW k \in h + 1 .. Len(s), y[s[k]].v = w, jdent[w] = y[s[k]].prev_tok,
               \A i \in h + 1 .. k - 1 : y[s[i]].v # w
        PROVE  IsNewest(null, s, y, w, h, jdent[w])
    <3>1. k \in 1 .. Len(s) /\ k - 1 \in Nat /\ h <= k - 1
      BY <1>1
    <3>2. IsNewest(null, s, y, w, k - 1, jdent[w])
      BY <3>1, <2>2 DEF IsScope
    <3> QED BY <3>1, <3>2, <2>2, <1>1, NewestAbove
  <2> QED BY <2>1, <2>2
<1>4. \A w \in N : IsNewest(null, t, z, w, h, jdent[w])
  BY <1>1, <1>2, <1>3
<1>5. ASSUME NEW i \in 1 .. h, z[t[i]].v \in N
      PROVE  IsNewest(null, t, z, z[t[i]].v, i - 1, z[t[i]].prev_tok)
  <2>1. /\ t[i] = s[i] /\ z[t[i]].v = y[s[i]].v /\ z[t[i]].prev_tok = y[s[i]].prev_tok
    BY <1>1
  <2>2. IsNewest(null, s, y, z[t[i]].v, i - 1, z[t[i]].prev_tok)
    BY <2>1, <1>1, <1>5 DEF IsScope
  <2>3. i - 1 \in 0 .. h
    BY <1>1
  <2> QED BY <2>2, <2>3, <1>2
<1> QED BY <1>1, <1>4, <1>5 DEF IsScope, t

(* A Sym that a call puts above the G globals and below the locals: its    *)
(* name had no Sym, so nothing is hidden, and any other name finds the     *)
(* Sym it found, whose place has moved.                                    *)
Inserts(s, t, y, z, n, G, m) ==
    /\ G \in Nat /\ m \in Nat /\ G <= m
    /\ \A i \in 1 .. G : t[i] = s[i]
    /\ \A i \in G + 1 .. m : t[i + 1] = s[i]
    /\ \A i \in 1 .. m : z[s[i]].v = y[s[i]].v
    /\ z[t[G + 1]].v = n

(* What is newest below height m is then newest below height m + 1.        *)
LEMMA NewestInsert ==
    ASSUME NEW null, NEW s, NEW t, NEW y, NEW z, NEW n, NEW G, NEW m,
           Inserts(s, t, y, z, n, G, m)
    PROVE  /\ \A w, p : w # n /\ IsNewest(null, s, y, w, m, p) => IsNewest(null, t, z, w, m + 1, p)
           /\ IsNewest(null, s, y, n, m, null) /\ null \notin {s[i] : i \in 1 .. m}
                => IsNewest(null, t, z, n, m + 1, t[G + 1])
<1> USE DEF Inserts
<1>0. \A j \in 1 .. m + 1 :
         \/ j \in 1 .. G /\ j \in 1 .. m /\ t[j] = s[j]
         \/ j = G + 1
         \/ j - 1 \in G + 1 .. m /\ j - 1 \in 1 .. m /\ t[j] = s[j - 1]
  <2> TAKE j \in 1 .. m + 1
  <2>1. CASE j <= G
    BY <2>1
  <2>2. CASE j > G + 1
    <3>1. j - 1 \in G + 1 .. m /\ j - 1 \in 1 .. m /\ (j - 1) + 1 = j
      BY <2>2
    <3> QED BY <3>1
  <2> QED BY <2>1, <2>2
<1>1. ASSUME NEW w, NEW p, w # n, IsNewest(null, s, y, w, m, p)
      PROVE  IsNewest(null, t, z, w, m + 1, p)
  <2>1. CASE p = null /\ \A i \in 1 .. m : y[s[i]].v # w
    <3>1. \A j \in 1 .. m + 1 : z[t[j]].v # w
      BY <1>0, <1>1, <2>1
    <3> QED BY <3>1, <2>1 DEF IsNewest
  <2>2. ASSUME NEW k \in 1 .. m, s[k] = p, y[p].v = w,
               \A i \in k + 1 .. m : y[s[i]].v # w
        PROVE  IsNewest(null, t, z, w, m + 1, p)
    <3> DEFINE l == IF k <= G THEN k ELSE k + 1
    <3>1. l \in 1 .. m + 1 /\ t[l] = p /\ z[p].v = w
      <4>1. CASE k <= G
        BY <4>1, <2>2
      <4>2. CASE k > G
        BY <4>2, <2>2
      <4> QED BY <4>1, <4>2
    <3>2. \A j \in l + 1 .. m + 1 : z[t[j]].v # w
      <4> TAKE j \in l + 1 .. m + 1
      <4>1. j \in 1 .. m + 1
        OBVIOUS
      <4>2. CASE j \in 1 .. G /\ j \in 1 .. m /\ t[j] = s[j]
        <5>1. j \in k + 1 .. m
          BY <4>2
        <5> QED BY <5>1, <4>2, <2>2
      <4>3. CASE j = G + 1
        BY <4>3, <1>1
      <4>4. CASE j - 1 \in G + 1 .. m /\ j - 1 \in 1 .. m /\ t[j] = s[j - 1]
        <5>1. j - 1 \in k + 1 .. m
          BY <4>4
        <5> QED BY <5>1, <4>4, <2>2
      <4> QED BY <4>1, <4>2, <4>3, <4>4, <1>0
    <3> HIDE DEF l
    <3> QED BY <3>1, <3>2 DEF IsNewest
  <2> QED BY <2>1, <2>2, <1>1 DEF IsNewest
<1>2. ASSUME IsNewest(null, s, y, n, m, null), null \notin {s[i] : i \in 1 .. m}
      PROVE  IsNewest(null, t, z, n, m + 1, t[G + 1])
  <2>1. \A i \in 1 .. m : y[s[i]].v # n
    BY <1>2 DEF IsNewest
  <2>2. \A j \in G + 2 .. m + 1 : z[t[j]].v # n
    <3> TAKE j \in G + 2 .. m + 1
    <3>1. j \in 1 .. m + 1 /\ j \notin 1 .. G /\ j # G + 1
      OBVIOUS
    <3> QED BY <3>1, <2>1, <1>0
  <2>3. G + 1 \in 1 .. m + 1 /\ (G + 1) + 1 = G + 2
    OBVIOUS
  <2> QED BY <2>2, <2>3 DEF IsNewest
<1> QED BY <1>1, <1>2

(* So the rule holds of the stacks with that Sym between them.             *)
InsertsName(A, N, null, g, l, y, z, ident, jdent, n, a) ==
    /\ null \notin A /\ g \in Seq(A) /\ l \in Seq(A) /\ n \in N /\ a \in A
    /\ SameSyms(g \o l, y, z)
    /\ ident[n] = null /\ z[a].v = n /\ z[a].prev_tok = null
    /\ \A w \in N : jdent[w] = IF w = n THEN a ELSE ident[w]

(* The two stacks are one on the other, with the Sym between them.         *)
LEMMA ScopeInsert ==
    ASSUME NEW A, NEW N, NEW null,
           NEW g, NEW l, NEW y, NEW z, NEW ident, NEW jdent, NEW n, NEW a,
           InsertsName(A, N, null, g, l, y, z, ident, jdent, n, a),
           IsScope(N, null, g \o l, y, ident)
    PROVE  IsScope(N, null, Append(g, a) \o l, z, jdent)
<1> USE DEF InsertsName
<1> DEFINE s == g \o l
           t == Append(g, a) \o l
           G == Len(g)
           L == Len(s)
<1>1. /\ G \in Nat /\ L \in Nat /\ G <= L /\ Len(t) = L + 1
      /\ t[G + 1] = a
      /\ \A i \in 1 .. G : t[i] = s[i]
      /\ \A i \in G + 1 .. L : t[i + 1] = s[i]
      /\ \A i \in 1 .. L : s[i] \in A
  OBVIOUS
<1> HIDE DEF s, t, G
<1>2. \A i \in 1 .. L : z[s[i]].v = y[s[i]].v /\ z[s[i]].prev_tok = y[s[i]].prev_tok
  BY DEF SameSyms, s
<1>3. null \notin {s[i] : i \in 1 .. L}
  BY <1>1
<1>4. ASSUME NEW m \in G .. L
      PROVE  /\ \A w, p : w # n /\ IsNewest(null, s, y, w, m, p) => IsNewest(null, t, z, w, m + 1, p)
             /\ IsNewest(null, s, y, n, m, null) => IsNewest(null, t, z, n, m + 1, a)
  <2>1. m \in Nat /\ G <= m /\ \A i \in 1 .. m : i \in 1 .. L
    BY <1>1
  <2>2. \A i \in G + 1 .. m : i \in G + 1 .. L
    BY <1>1
  <2>3. Inserts(s, t, y, z, n, G, m) /\ null \notin {s[i] : i \in 1 .. m}
    BY <2>1, <2>2, <1>1, <1>2, <1>3 DEF Inserts
  <2> HIDE DEF InsertsName
  <2>4. /\ \A w, p : w # n /\ IsNewest(null, s, y, w, m, p) => IsNewest(null, t, z, w, m + 1, p)
        /\ IsNewest(null, s, y, n, m, null) /\ null \notin {s[i] : i \in 1 .. m}
             => IsNewest(null, t, z, n, m + 1, t[G + 1])
    <3>1. Inserts(s, t, y, z, n, G, m)
      BY <2>3
    <3> QED BY <3>1, NewestInsert
  <2>5. t[G + 1] = a
    BY <1>1
  <2> QED BY <2>3, <2>4, <2>5
<1>5. \A w \in N : IsNewest(null, s, y, w, L, ident[w])
  BY DEF IsScope, s
<1>6. \A w \in N : IsNewest(null, t, z, w, L + 1, jdent[w])
  <2>1. L \in G .. L
    BY <1>1
  <2> QED BY <2>1, <1>4, <1>5
<1>7. \A i \in 1 .. L : y[s[i]].v # n
  BY <1>1, <1>3, <1>5 DEF IsNewest
<1>8. ASSUME NEW j \in 1 .. L + 1, z[t[j]].v \in N
      PROVE  IsNewest(null, t, z, z[t[j]].v, j - 1, z[t[j]].prev_tok)
  <2>1. CASE j <= G
    <3>1. j \in 1 .. L /\ j - 1 \in Nat /\ t[j] = s[j]
      BY <2>1, <1>1
    <3>2. IsNewest(null, s, y, z[t[j]].v, j - 1, z[t[j]].prev_tok)
      BY <3>1, <1>2, <1>8, SMTT(30) DEF IsScope, s
    <3>3. \A i \in 1 .. j - 1 : t[i] = s[i] /\ z[s[i]].v = y[s[i]].v
      BY <2>1, <1>1, <1>2
    <3> QED BY <3>1, <3>2, <3>3, NewestSame
  <2>2. CASE j = G + 1
    <3>1. \A i \in 1 .. G : z[t[i]].v # n
      <4> TAKE i \in 1 .. G
      <4>1. i \in 1 .. L
        BY <1>1
      <4> QED BY <4>1, <1>1, <1>2, <1>7
    <3>2. t[j] = a /\ j - 1 = G
      BY <2>2, <1>1
    <3> QED BY <3>1, <3>2 DEF IsNewest
  <2>3. CASE j > G + 1
    <3>1. /\ j - 1 \in G + 1 .. L /\ j - 1 \in 1 .. L /\ (j - 1) - 1 \in G .. L
          /\ ((j - 1) - 1) + 1 = j - 1 /\ (j - 1) + 1 = j
      BY <2>3, <1>1
    <3>2. t[j] = s[j - 1] /\ z[t[j]].v = y[s[j - 1]].v
          /\ z[t[j]].prev_tok = y[s[j - 1]].prev_tok
      BY <3>1, <1>1, <1>2, ZenonT(60)
    <3>3. IsNewest(null, s, y, z[t[j]].v, (j - 1) - 1, z[t[j]].prev_tok)
      BY <3>1, <3>2, <1>8 DEF IsScope, s
    <3>4. z[t[j]].v # n
      BY <3>1, <3>2, <1>7
    <3> QED BY <3>1, <3>3, <3>4, <1>4
  <2> QED BY <2>1, <2>2, <2>3, <1>1
<1> QED BY <1>1, <1>6, <1>8 DEF IsScope, t

-----------------------------------------------------------------------------
(* A Sym is on the stack s, once, or on the free list f.                   *)
Allotted(A, f, s) ==
    /\ \A i, j \in 1 .. Len(s) : i # j => s[i] # s[j]
    /\ f = A \ {s[i] : i \in 1 .. Len(s)}

(* A Sym put on top of the stack: taken from the free list, on the stack   *)
(* once.                                                                   *)
LEMMA AllottedPush ==
    ASSUME NEW A, NEW f, NEW s \in Seq(A), NEW a \in f, Allotted(A, f, s)
    PROVE  Allotted(A, f \ {a}, Append(s, a))
<1> DEFINE t == Append(s, a)
           e == f \ {a}
<1>1. t = Append(s, a)
  OBVIOUS
<1> HIDE DEF t
<1>2. /\ Len(t) = Len(s) + 1 /\ t[Len(s) + 1] = a
      /\ \A i \in 1 .. Len(s) : t[i] = s[i]
      /\ Len(s) \in Nat
  BY <1>1
<1>3. \A i \in 1 .. Len(t) : i \in 1 .. Len(s) \/ i = Len(s) + 1
  BY <1>2
<1>4. \A i \in 1 .. Len(s) : i \in 1 .. Len(t) /\ s[i] # a
  BY <1>2 DEF Allotted
<1>5. Len(s) + 1 \in 1 .. Len(t)
  BY <1>2
<1>6. {t[i] : i \in 1 .. Len(t)} = {s[i] : i \in 1 .. Len(s)} \union {a}
  BY <1>2, <1>3, <1>4, <1>5
<1>7. \A i, j \in 1 .. Len(t) : i # j => t[i] # t[j]
  BY <1>2, <1>3, <1>4 DEF Allotted
<1>8. e = A \ {t[i] : i \in 1 .. Len(t)}
  BY <1>6 DEF Allotted
<1> QED BY <1>7, <1>8 DEF Allotted

(* A Sym put between two stacks, one on the other.                         *)
LEMMA AllottedInsert ==
    ASSUME NEW A, NEW f, NEW g \in Seq(A), NEW l \in Seq(A), NEW a \in f,
           Allotted(A, f, g \o l)
    PROVE  Allotted(A, f \ {a}, Append(g, a) \o l)
<1> DEFINE s == g \o l
           t == Append(g, a) \o l
           e == f \ {a}
           G == Len(g)
           L == Len(s)
<1>1. /\ s \in Seq(A) /\ a \in A /\ G \in Nat /\ L \in Nat /\ G <= L
  BY DEF Allotted
<1>2. /\ Len(t) = L + 1 /\ t[G + 1] = a
      /\ \A i \in 1 .. G : t[i] = s[i]
      /\ \A i \in G + 2 .. L + 1 : t[i] = s[i - 1]
  BY <1>1
<1>0. Allotted(A, f, s)
  OBVIOUS
<1> HIDE DEF s, t
<1>3. \A i \in 1 .. L + 1 : \/ i \in 1 .. G /\ i \in 1 .. L
                            \/ i = G + 1
                            \/ i \in G + 2 .. L + 1 /\ i - 1 \in 1 .. L /\ i - 1 > G
  BY <1>1
<1>4. \A i \in 1 .. L : s[i] # a
  BY <1>0 DEF Allotted
<1>5. \A i, j \in 1 .. Len(t) : i # j => t[i] # t[j]
  <2> SUFFICES ASSUME NEW i \in 1 .. L + 1, NEW j \in 1 .. L + 1, i # j
               PROVE  t[i] # t[j]
    BY <1>2
  <2> DEFINE old(k) == IF k <= G THEN k ELSE k - 1
  <2>1. ASSUME NEW k \in 1 .. L + 1, k # G + 1
        PROVE  old(k) \in 1 .. L /\ t[k] = s[old(k)]
    <3>1. CASE k <= G
      BY <3>1, <1>1, <1>2, <1>3
    <3>2. CASE k > G + 1
      BY <3>2, <1>1, <1>2, <1>3
    <3> QED BY <3>1, <3>2, <2>1, <1>1
  <2>2. i # G + 1 /\ j # G + 1 => old(i) # old(j)
    BY <1>1
  <2> HIDE DEF old
  <2>3. CASE i = G + 1
    <3>1. j # G + 1
      BY <2>3
    <3>2. t[i] = a /\ t[j] # a
      BY <3>1, <2>1, <2>3, <1>2, <1>4
    <3> QED BY <3>2
  <2>4. CASE j = G + 1
    <3>1. i # G + 1
      BY <2>4
    <3>2. t[j] = a /\ t[i] # a
      BY <3>1, <2>1, <2>4, <1>2, <1>4
    <3> QED BY <3>2
  <2>5. CASE i # G + 1 /\ j # G + 1
    <3>1. s[old(i)] # s[old(j)]
      BY <1>0, <2>1, <2>2, <2>5 DEF Allotted
    <3> QED BY <3>1, <2>1, <2>5
  <2> QED BY <2>3, <2>4, <2>5
<1>6. {t[i] : i \in 1 .. Len(t)} = {s[i] : i \in 1 .. L} \union {a}
  <2>1. \A i \in 1 .. L + 1 : t[i] = a \/ \E k \in 1 .. L : t[i] = s[k]
    BY <1>2, <1>3
  <2>2. \A k \in 1 .. L : \E i \in 1 .. L + 1 : t[i] = s[k]
    <3> TAKE k \in 1 .. L
    <3>1. CASE k <= G
      <4>1. k \in 1 .. G /\ k \in 1 .. L + 1
        BY <3>1, <1>1
      <4> QED BY <4>1, <1>2
    <3>2. CASE ~(k <= G)
      <4>1. k + 1 \in G + 2 .. L + 1 /\ k + 1 \in 1 .. L + 1 /\ (k + 1) - 1 = k
        BY <3>2, <1>1
      <4> QED BY <4>1, <1>2
    <3> QED BY <3>1, <3>2
  <2>3. G + 1 \in 1 .. L + 1
    BY <1>1
  <2>4. Len(t) = L + 1 /\ t[G + 1] = a
    BY <1>2
  <2> HIDE DEF L
  <2>5. {t[i] : i \in 1 .. L + 1} = {s[i] : i \in 1 .. L} \union {a}
    <3>1. ASSUME NEW x
          PROVE  x \in {t[i] : i \in 1 .. L + 1}
                    <=> x \in {s[i] : i \in 1 .. L} \union {a}
      <4>1. CASE x = a
        BY <4>1, <2>3, <2>4
      <4>2. CASE x # a
        <5>1. x \in {t[i] : i \in 1 .. L + 1} => x \in {s[i] : i \in 1 .. L}
          BY <4>2, <2>1
        <5>2. x \in {s[i] : i \in 1 .. L} => x \in {t[i] : i \in 1 .. L + 1}
          BY <2>2
        <5> QED BY <4>2, <5>1, <5>2
      <4> QED BY <4>1, <4>2
    <3> QED BY <3>1
  <2> QED BY <2>4, <2>5
<1>7. e = A \ {t[i] : i \in 1 .. Len(t)}
  BY <1>0, <1>6 DEF Allotted
<1> QED BY <1>5, <1>7 DEF Allotted, t

(* The Syms above height m freed.                                          *)
LEMMA AllottedPop ==
    ASSUME NEW A, NEW f, NEW s \in Seq(A), NEW m \in 0 .. Len(s), Allotted(A, f, s)
    PROVE  Allotted(A, f \union {s[i] : i \in m + 1 .. Len(s)}, SubSeq(s, 1, m))
<1> DEFINE t == SubSeq(s, 1, m)
           e == f \union {s[i] : i \in m + 1 .. Len(s)}
<1>1. /\ s \in Seq(A) /\ Len(s) \in Nat
      /\ Len(t) = m /\ \A i \in 1 .. m : t[i] = s[i]
  OBVIOUS
<1> HIDE DEF t
<1>2. \A i, j \in 1 .. Len(t) : i # j => t[i] # t[j]
  BY <1>1 DEF Allotted
<1>3. \A i \in 1 .. Len(s) : i \in 1 .. m \/ i \in m + 1 .. Len(s)
  BY <1>1
<1>4. \A i \in 1 .. m, j \in m + 1 .. Len(s) : s[i] # s[j]
  BY <1>1 DEF Allotted
<1>5. ASSUME NEW x
      PROVE  x \in e <=> x \in A \ {t[i] : i \in 1 .. m}
  <2>1. x \in f <=> x \in A /\ \A i \in 1 .. Len(s) : x # s[i]
    BY DEF Allotted
  <2>2. x \in e <=> x \in f \/ \E i \in m + 1 .. Len(s) : x = s[i]
    OBVIOUS
  <2>3. x \in A \ {t[i] : i \in 1 .. m}
           <=> x \in A /\ \A i \in 1 .. m : x # s[i]
    BY <1>1
  <2>4. \A i \in m + 1 .. Len(s) : s[i] \in A /\ i \in 1 .. Len(s)
    BY <1>1
  <2>5. \A i \in 1 .. m : i \in 1 .. Len(s)
    BY <1>1
  <2> QED BY <2>1, <2>2, <2>3, <2>4, <2>5, <1>3, <1>4
<1>6. e = A \ {t[i] : i \in 1 .. Len(t)}
  BY <1>1, <1>5
<1> QED BY <1>2, <1>6 DEF Allotted

(* The Syms of the lower stack freed.                                      *)
LEMMA AllottedRest ==
    ASSUME NEW A, NEW f, NEW g \in Seq(A), NEW l \in Seq(A), Allotted(A, f, g \o l)
    PROVE  Allotted(A, f \union {g[i] : i \in 1 .. Len(g)}, l)
<1> DEFINE s == g \o l
           e == f \union {g[i] : i \in 1 .. Len(g)}
           G == Len(g)
           N == Len(l)
<1>1. /\ s \in Seq(A) /\ G \in Nat /\ N \in Nat /\ Len(s) = G + N
      /\ \A i \in 1 .. G : s[i] = g[i]
      /\ \A i \in 1 .. N : s[G + i] = l[i]
  OBVIOUS
<1>0. Allotted(A, f, s)
  OBVIOUS
<1> HIDE DEF G, N, s
<1>3. \A i \in 1 .. N : G + i \in 1 .. Len(s)
  BY <1>1
<1>4. \A i, j \in 1 .. N : i # j => G + i # G + j
  BY <1>1
<1>5. \A i, j \in 1 .. N : i # j => l[i] # l[j]
  BY <1>0, <1>1, <1>3, <1>4 DEF Allotted
<1>6. \A i \in 1 .. Len(s) : i \in 1 .. G \/ (i - G \in 1 .. N /\ i = G + (i - G))
  BY <1>1
<1>7. \A i \in 1 .. G : i \in 1 .. Len(s) /\ \A j \in 1 .. N : G + j # i
  BY <1>1
<1>8. ASSUME NEW x
      PROVE  x \in e <=> x \in A \ {l[i] : i \in 1 .. N}
  <2>1. x \in f <=> x \in A /\ \A i \in 1 .. Len(s) : x # s[i]
    BY <1>0 DEF Allotted
  <2>2. x \in e <=> x \in f \/ \E i \in 1 .. G : x = s[i]
    BY <1>1 DEF G
  <2>3. \A i \in 1 .. G : s[i] \in A /\ \A j \in 1 .. N : l[j] # s[i]
    BY <1>0, <1>1, <1>3, <1>7 DEF Allotted
  <2>4. (\A i \in 1 .. Len(s) : x # s[i])
           <=> (\A i \in 1 .. G : x # s[i]) /\ \A j \in 1 .. N : x # l[j]
    <3>1. ASSUME \A i \in 1 .. Len(s) : x # s[i]
          PROVE  (\A i \in 1 .. G : x # s[i]) /\ \A j \in 1 .. N : x # l[j]
      <4>1. \A i \in 1 .. G : x # s[i]
        BY <3>1, <1>7
      <4>2. \A j \in 1 .. N : x # l[j]
        BY <3>1, <1>1, <1>3
      <4> QED BY <4>1, <4>2
    <3>2. ASSUME \A i \in 1 .. G : x # s[i], \A j \in 1 .. N : x # l[j], NEW i \in 1 .. Len(s)
          PROVE  x # s[i]
      <4>1. CASE i \in 1 .. G
        BY <4>1, <3>2
      <4>2. CASE i - G \in 1 .. N /\ i = G + (i - G)
        BY <4>2, <3>2, <1>1
      <4> QED BY <4>1, <4>2, <1>6
    <3> QED BY <3>1, <3>2
  <2> QED BY <2>1, <2>2, <2>3, <2>4
<1>9. e = A \ {l[i] : i \in 1 .. N}
  BY <1>8
<1> QED BY <1>5, <1>9 DEF Allotted, N
=============================================================================
