-------------------------- MODULE ElfSymbolsProofs --------------------------
(***************************************************************************)
(* Proofs about ElfSymbols, for all programs, sizes of things and hash     *)
(* functions: what the table finds, that no two things share storage, that *)
(* the first initialized definition of a name counts, and that a reference *)
(* goes to what its unit means.                                            *)
(***************************************************************************)
EXTENDS ElfSymbols, StackFacts, FiniteSetTheorems

Named == Names \union Linker
Entry == [name : Named \union {"file"}, bind : {"local", "global"},
          shndx : {"undef", "abs", "text", "data", "bss", "common"}, value : Nat, size : Nat]

(* How many buckets a table has, and the one of a name.                    *)
Nb(t) == Cardinality(DOMAIN t.buckets)
Bucket(t, name) == elf_hash[name] % Nb(t)

(* A table: its chains lead down.                                          *)
Tables(nb) == [symtab : Seq(Entry), buckets : [0 .. nb - 1 -> Nat], chain : Seq(Nat)]
Table(t) ==
    /\ \E nb \in Nat \ {0} : t \in Tables(nb)
    /\ Len(t.chain) = Len(t.symtab)
    /\ \A i \in 1 .. Len(t.symtab) : t.chain[i] \in 0 .. i - 1
    /\ \A h \in DOMAIN t.buckets : t.buckets[h] \in 0 .. Len(t.symtab)

-----------------------------------------------------------------------------
(* The parts of a table.                                                   *)
LEMMA TableParts ==
    ASSUME NEW t, Table(t)
    PROVE  /\ t.symtab \in Seq(Entry) /\ Len(t.symtab) \in Nat
           /\ DOMAIN t.symtab = 1 .. Len(t.symtab) /\ DOMAIN t.chain = 1 .. Len(t.symtab)
           /\ \A i \in 1 .. Len(t.symtab) : t.symtab[i] \in Entry
           /\ t.chain \in Seq(Nat) /\ Nb(t) \in Nat \ {0} /\ t \in Tables(Nb(t))
           /\ DOMAIN t.buckets = 0 .. Nb(t) - 1
           /\ \A name \in Named : Bucket(t, name) \in 0 .. Nb(t) - 1
<1>1. PICK nb \in Nat \ {0} : t \in Tables(nb)
  BY DEF Table
<1>2. /\ t.symtab \in Seq(Entry) /\ t.chain \in Seq(Nat) /\ t.buckets \in [0 .. nb - 1 -> Nat]
  BY <1>1 DEF Tables
<1>3. Nb(t) = nb
  <2>1. DOMAIN t.buckets = 0 .. nb - 1
    BY <1>2
  <2>2. Cardinality(0 .. nb - 1) = nb
    BY FS_Interval
  <2> QED BY <2>1, <2>2 DEF Nb
<1>4. \A name \in Named : Bucket(t, name) \in 0 .. nb - 1
  <2>1. \A name \in Named : elf_hash[name] \in Nat
    BY ElfAssumption DEF Named
  <2> QED BY <2>1, <1>3 DEF Bucket
<1>5. Len(t.chain) = Len(t.symtab)
  BY DEF Table
<1> QED BY <1>1, <1>2, <1>3, <1>4, <1>5

(* How find_elf_sym goes down a chain.                                     *)
Steps(t, name, w, i) ==
    w[i] = IF i = 0 \/ t.symtab[i].name = name THEN i ELSE w[t.chain[i]]

(* There is a way down from every symbol.                                  *)
LEMMA WalkExists ==
    ASSUME NEW t, Table(t), NEW name, NEW m \in 0 .. Len(t.symtab)
    PROVE  \E w : w = [i \in 0 .. m |->
                         IF i = 0 \/ t.symtab[i].name = name THEN i ELSE w[t.chain[i]]]
<1> DEFINE W(w, k) == w = [i \in 0 .. k |->
                        IF i = 0 \/ t.symtab[i].name = name THEN i ELSE w[t.chain[i]]]
           N == Len(t.symtab)
           I == {k \in 0 .. N : ~\E w : W(w, k)}
<1>0. N \in Nat /\ \A i \in 1 .. N : t.chain[i] \in 0 .. i - 1
  BY TableParts DEF Table
<1>1. I \subseteq Nat
  OBVIOUS
<1>2. ASSUME I # {} PROVE FALSE
  <2> HIDE DEF I
  <2>1. PICK k \in I : \A j \in I : k <= j
    BY <1>1, <1>2, LeastNat
  <2>2. k \in 0 .. N /\ ~\E w : W(w, k)
    BY DEF I
  <2>3. CASE k = 0
    <3>1. PICK w : w = [i \in 0 .. 0 |-> 0]
      OBVIOUS
    <3>2. w = [i \in 0 .. 0 |-> IF i = 0 \/ t.symtab[i].name = name THEN i ELSE w[t.chain[i]]]
      BY <3>1
    <3> QED BY <2>2, <2>3, <3>2
  <2>4. CASE k # 0
    <3>1. k - 1 \in 0 .. N /\ ~(k <= k - 1) /\ k \in 1 .. N
      BY <2>2, <2>4, <1>0
    <3>2. \E w : W(w, k - 1)
      BY <3>1, <2>1 DEF I
    <3>3. PICK w : W(w, k - 1)
      BY <3>2
    <3>4. PICK v : v = [i \in 0 .. k |->
                          IF i < k THEN w[i]
                          ELSE IF t.symtab[k].name = name THEN k ELSE w[t.chain[k]]]
      OBVIOUS
    <3>5. \A i \in 0 .. k - 1 : i \in 0 .. k /\ i < k /\ v[i] = w[i]
      BY <3>1, <3>4
    <3>6. \A i \in 0 .. k : v[i] = IF i = 0 \/ t.symtab[i].name = name THEN i ELSE v[t.chain[i]]
      <4> TAKE i \in 0 .. k
      <4>1. CASE i = k
        <5>1. t.chain[k] \in 0 .. k - 1
          BY <3>1, <1>0
        <5> QED BY <4>1, <5>1, <3>4, <3>5, <3>1
      <4>2. CASE i # k
        <5>1. i \in 0 .. k - 1
          BY <4>2, <3>1
        <5>2. w[i] = IF i = 0 \/ t.symtab[i].name = name THEN i ELSE w[t.chain[i]]
          BY <5>1, <3>3
        <5>3. i # 0 => t.chain[i] \in 0 .. k - 1
          BY <5>1, <3>1, <1>0
        <5> QED BY <5>1, <5>2, <5>3, <3>5
      <4> QED BY <4>1, <4>2
    <3>7. W(v, k)
      BY <3>4, <3>6
    <3> QED BY <3>7, <2>2
  <2> QED BY <2>3, <2>4
<1>3. m \in 0 .. N /\ m \notin I
  BY <1>2
<1> QED BY <1>3

(* What find_elf_sym computes.                                             *)
LEMMA FindWalks ==
    ASSUME NEW t, Table(t), NEW name
    PROVE  \E w : /\ find_elf_sym(t, name) = w[t.buckets[Bucket(t, name)]]
                  /\ \A i \in 0 .. Len(t.symtab) : Steps(t, name, w, i)
<1> DEFINE W(w) == w = [i \in 0 .. Len(t.symtab) |->
                        IF i = 0 \/ t.symtab[i].name = name THEN i ELSE w[t.chain[i]]]
<1>1. find_elf_sym(t, name) = (CHOOSE w : W(w))[t.buckets[Bucket(t, name)]]
  BY DEF find_elf_sym, Bucket, Nb
<1>2. \E w : W(w)
  <2>1. Len(t.symtab) \in 0 .. Len(t.symtab)
    BY TableParts
  <2> QED BY <2>1, WalkExists
<1> HIDE DEF W
<1>3. PICK w : w = CHOOSE v : W(v)
  OBVIOUS
<1>4. W(w)
  BY <1>2, <1>3
<1>5. \A i \in 0 .. Len(t.symtab) : Steps(t, name, w, i)
  BY <1>4 DEF W, Steps
<1> QED BY <1>1, <1>3, <1>5

(* It finds a symbol of the name, or none.                                 *)
LEMMA FindTypes ==
    ASSUME NEW t, Table(t), NEW name \in Named
    PROVE  LET i == find_elf_sym(t, name)
           IN  i \in 0 .. Len(t.symtab) /\ (i # 0 => t.symtab[i].name = name)
<1> DEFINE N == Len(t.symtab)
<1>1. PICK w : /\ find_elf_sym(t, name) = w[t.buckets[Bucket(t, name)]]
               /\ \A i \in 0 .. N : Steps(t, name, w, i)
  BY FindWalks
<1> DEFINE Good(i) == w[i] \in 0 .. N /\ (w[i] # 0 => t.symtab[w[i]].name = name)
           I == {i \in 0 .. N : ~Good(i)}
<1>0. N \in Nat /\ \A i \in 1 .. N : t.chain[i] \in 0 .. i - 1
  BY TableParts DEF Table
<1>2. ASSUME I # {} PROVE FALSE
  <2> I \subseteq Nat
    OBVIOUS
  <2> HIDE DEF I
  <2>1. PICK i \in I : \A j \in I : i <= j
    BY <1>2, LeastNat
  <2>2. i \in 0 .. N /\ ~Good(i)
    BY DEF I
  <2>3. w[i] = IF i = 0 \/ t.symtab[i].name = name THEN i ELSE w[t.chain[i]]
    BY <2>2, <1>1 DEF Steps
  <2>4. CASE i = 0 \/ t.symtab[i].name = name
    BY <2>2, <2>3, <2>4
  <2>5. CASE i # 0 /\ t.symtab[i].name # name
    <3>1. t.chain[i] \in 0 .. N /\ ~(i <= t.chain[i])
      BY <2>2, <2>5, <1>0
    <3>2. Good(t.chain[i])
      BY <3>1, <2>1 DEF I
    <3> QED BY <3>2, <2>2, <2>3, <2>5
  <2> QED BY <2>4, <2>5
<1>3. t.buckets[Bucket(t, name)] \in 0 .. N
  BY TableParts DEF Table
<1>4. Good(t.buckets[Bucket(t, name)])
  BY <1>2, <1>3
<1> QED BY <1>1, <1>4

-----------------------------------------------------------------------------
(* p is the newest global symbol of bucket h among the first m, or 0.      *)
InBucket(t, i, h) == t.symtab[i].bind = "global" /\ Bucket(t, t.symtab[i].name) = h
IsLast(t, m, h, p) ==
    /\ p \in 0 .. m /\ (p # 0 => InBucket(t, p, h))
    /\ \A j \in p + 1 .. m : ~InBucket(t, j, h)

(* A table that is hashed well, and has a global name once.                *)
Hashed(t) ==
    /\ \A h \in 0 .. Nb(t) - 1 : IsLast(t, Len(t.symtab), h, t.buckets[h])
    /\ \A i \in 1 .. Len(t.symtab) : t.symtab[i].bind = "global" =>
          /\ t.symtab[i].name \in Named
          /\ IsLast(t, i - 1, Bucket(t, t.symtab[i].name), t.chain[i])
Once(t) ==
    \A i, j \in 1 .. Len(t.symtab) :
       /\ t.symtab[i].bind = "global" /\ t.symtab[j].bind = "global"
       /\ t.symtab[i].name = t.symtab[j].name
       => i = j

(* i is the global symbol of a name, 0 if it has none.                     *)
IsGlobal(t, i, name) == t.symtab[i].bind = "global" /\ t.symtab[i].name = name
IsFound(t, m, name, i) ==
    \/ i = 0 /\ \A j \in 1 .. m : ~IsGlobal(t, j, name)
    \/ i \in 1 .. m /\ IsGlobal(t, i, name)

(* find_elf_sym finds the global symbol of a name, if there is one.        *)
LEMMA FindGlobal ==
    ASSUME NEW t, Table(t), Hashed(t), NEW name \in Named
    PROVE  IsFound(t, Len(t.symtab), name, find_elf_sym(t, name))
<1> DEFINE N == Len(t.symtab)
           h == Bucket(t, name)
<1>1. PICK w : /\ find_elf_sym(t, name) = w[t.buckets[h]]
               /\ \A i \in 0 .. N : Steps(t, name, w, i)
  BY FindWalks
<1> DEFINE Good(i) == \A m \in i .. N : IsLast(t, m, h, i) => IsFound(t, m, name, w[i])
           I == {i \in 0 .. N : ~Good(i)}
<1>0. N \in Nat /\ \A i \in 1 .. N : t.chain[i] \in 0 .. i - 1
  BY TableParts DEF Table
<1>2. ASSUME I # {} PROVE FALSE
  <2> I \subseteq Nat
    OBVIOUS
  <2> HIDE DEF I
  <2>1. PICK i \in I : \A j \in I : i <= j
    BY <1>2, LeastNat
  <2>2. i \in 0 .. N /\ ~Good(i)
    BY DEF I
  <2>3. PICK m \in i .. N : IsLast(t, m, h, i) /\ ~IsFound(t, m, name, w[i])
    BY <2>2
  <2>4. w[i] = IF i = 0 \/ t.symtab[i].name = name THEN i ELSE w[t.chain[i]]
    BY <2>2, <1>1 DEF Steps
  <2>5. \A j \in i + 1 .. m : ~IsGlobal(t, j, name)
    BY <2>3 DEF IsLast, InBucket, IsGlobal
  <2>6. CASE i = 0
    <3>1. \A j \in 1 .. m : ~IsGlobal(t, j, name)
      BY <2>5, <2>6
    <3> QED BY <3>1, <2>3, <2>4, <2>6 DEF IsFound
  <2>7. CASE i # 0
    <3>0. i \in 1 .. m /\ m \in Nat /\ i \in Nat
      BY <2>2, <2>7, <1>0
    <3>1. InBucket(t, i, h)
      BY <2>3, <2>7 DEF IsLast
    <3>2. CASE t.symtab[i].name = name
      <4>1. IsFound(t, m, name, i)
        BY <3>0, <3>1, <3>2 DEF IsFound, InBucket, IsGlobal
      <4> QED BY <4>1, <3>2, <2>3, <2>4
    <3>3. CASE t.symtab[i].name # name
      <4>1. IsLast(t, i - 1, h, t.chain[i])
        <5>1. i \in 1 .. Len(t.symtab)
          BY <2>2, <2>7
        <5> QED BY <5>1, <3>1 DEF Hashed, InBucket
      <4>2. t.chain[i] \in 0 .. N /\ ~(i <= t.chain[i]) /\ i - 1 \in t.chain[i] .. N
        <5>1. i \in 1 .. N
          BY <2>2, <2>7
        <5>2. PICK c \in 0 .. i - 1 : c = t.chain[i]
          BY <5>1, <1>0
        <5>3. c \in 0 .. N /\ ~(i <= c) /\ i - 1 \in c .. N
          BY <5>1, <1>0
        <5> QED BY <5>2, <5>3
      <4>3. Good(t.chain[i])
        BY <4>2, <2>1 DEF I
      <4>4. IsFound(t, i - 1, name, w[i])
        BY <4>1, <4>2, <4>3, <3>3, <2>4, <2>7
      <4>5. \A j \in 1 .. m : j \in 1 .. i - 1 \/ j = i \/ j \in i + 1 .. m
        BY <3>0
      <4>6. 1 .. i - 1 \subseteq 1 .. m
        BY <3>0
      <4>7. IsFound(t, m, name, w[i])
        BY <4>4, <4>5, <4>6, <2>5, <3>3 DEF IsFound, IsGlobal
      <4> QED BY <4>7, <2>3
    <3> QED BY <3>2, <3>3
  <2> QED BY <2>6, <2>7
<1>3. h \in 0 .. Nb(t) - 1 /\ DOMAIN t.buckets = 0 .. Nb(t) - 1
  BY TableParts
<1>4. t.buckets[h] \in 0 .. N /\ IsLast(t, N, h, t.buckets[h])
  BY <1>3 DEF Table, Hashed
<1>5. N \in t.buckets[h] .. N
  BY <1>0, <1>4
<1>6. Good(t.buckets[h])
  BY <1>2, <1>4
<1> QED BY <1>1, <1>4, <1>5, <1>6

-----------------------------------------------------------------------------
(* The newest symbol of a bucket.                                          *)
LEMMA NewestIs ==
    ASSUME NEW s \in Seq(Entry), NEW m \in 0 .. Len(s), NEW nb, NEW h, NEW q,
           q = Newest(s, 1 .. m, h, nb)
    PROVE  /\ q \in 0 .. m /\ (q # 0 => s[q].bind = "global" /\ elf_hash[s[q].name] % nb = h)
           /\ \A j \in q + 1 .. m : ~(s[j].bind = "global" /\ elf_hash[s[j].name] % nb = h)
<1> DEFINE InB(j) == s[j].bind = "global" /\ elf_hash[s[j].name] % nb = h
           B == {i \in (1 .. m) \intersect Global(s) : elf_hash[s[i].name] % nb = h} \union {0}
           p == CHOOSE x \in B : \A y \in B : x >= y
<1>1. /\ Len(s) \in Nat /\ DOMAIN s = 1 .. Len(s) /\ m \in Nat
      /\ \A i \in 1 .. Len(s) : s[i].bind \in {"local", "global"}
  <2>1. \A i \in 1 .. Len(s) : s[i] \in Entry
    OBVIOUS
  <2> QED BY <2>1 DEF Entry
<1>2. \A i : i \in B <=> i = 0 \/ (i \in 1 .. m /\ InB(i))
  <2>1. \A i \in 1 .. m : i \in Global(s) <=> s[i].bind = "global"
    BY <1>1 DEF Global
  <2> QED BY <2>1
<1>3. p = q
  BY DEF Newest, Max
<1> HIDE DEF B, InB
<1>4. B \subseteq 0 .. m /\ B # {}
  BY <1>1, <1>2, SMTT(30)
<1>5. PICK r \in B : \A j \in B : j <= r
  BY <1>1, <1>4, GreatestNat
<1>6. \A y \in B : r >= y
  BY <1>4, <1>5
<1>7. p \in B /\ \A y \in B : p >= y
  BY <1>6
<1> HIDE DEF p
<1>8. p \in 0 .. m /\ (p # 0 => InB(p))
  BY <1>2, <1>4, <1>7
<1>9. \A j \in p + 1 .. m : ~InB(j)
  <2> TAKE j \in p + 1 .. m
  <2>1. j \in 1 .. m /\ ~(p >= j)
    BY <1>8, <1>1
  <2> QED BY <2>1, <1>2, <1>7
<1> QED BY <1>3, <1>8, <1>9 DEF InB

(* rebuild_hash makes a table of the symbols it is given.                  *)
LEMMA RebuildIs ==
    ASSUME NEW s \in Seq(Entry), NEW nb \in Nat \ {0}
    PROVE  LET u == rebuild_hash(s, nb)
           IN  /\ Table(u) /\ u.symtab = s
               /\ (\A i \in 1 .. Len(s) : s[i].bind = "global" => s[i].name \in Named) => Hashed(u)
<1>1. PICK u : u = rebuild_hash(s, nb)
  OBVIOUS
<1>2. /\ u.symtab = s /\ Len(s) \in Nat /\ DOMAIN s = 1 .. Len(s)
      /\ u.buckets = [h \in 0 .. nb - 1 |-> Newest(s, 1 .. Len(s), h, nb)]
      /\ u.chain = [i \in 1 .. Len(s) |->
           IF i \in Global(s) THEN Newest(s, 1 .. i - 1, elf_hash[s[i].name] % nb, nb) ELSE 0]
      /\ u = [symtab |-> s, buckets |-> u.buckets, chain |-> u.chain]
  BY <1>1 DEF rebuild_hash
<1>3. \A i \in 1 .. Len(s) : s[i].bind \in {"local", "global"}
  <2>1. \A i \in 1 .. Len(s) : s[i] \in Entry
    BY <1>2
  <2> QED BY <2>1 DEF Entry
<1>4. Nb(u) = nb
  <2>1. Cardinality(0 .. nb - 1) = nb
    BY FS_Interval
  <2> QED BY <2>1, <1>2 DEF Nb
<1>5. ASSUME NEW m \in 0 .. Len(s), NEW h
      PROVE  IsLast(u, m, h, Newest(s, 1 .. m, h, nb))
  <2>1. PICK p : p = Newest(s, 1 .. m, h, nb)
    OBVIOUS
  <2>2. /\ p \in 0 .. m /\ (p # 0 => s[p].bind = "global" /\ elf_hash[s[p].name] % nb = h)
        /\ \A j \in p + 1 .. m : ~(s[j].bind = "global" /\ elf_hash[s[j].name] % nb = h)
    BY <2>1, NewestIs
  <2>3. \A j : InBucket(u, j, h) <=> s[j].bind = "global" /\ elf_hash[s[j].name] % nb = h
    BY <1>2, <1>4 DEF InBucket, Bucket
  <2> QED BY <2>1, <2>2, <2>3 DEF IsLast
<1>6. \A h \in 0 .. nb - 1 : u.buckets[h] \in 0 .. Len(s) /\ IsLast(u, Len(s), h, u.buckets[h])
  <2>1. Len(s) \in 0 .. Len(s)
    BY <1>2
  <2> QED BY <2>1, <1>2, <1>5 DEF IsLast
<1>7. ASSUME NEW i \in 1 .. Len(s)
      PROVE  /\ u.chain[i] \in 0 .. i - 1
             /\ s[i].bind = "global" => IsLast(u, i - 1, Bucket(u, s[i].name), u.chain[i])
  <2>1. i - 1 \in 0 .. Len(s)
    OBVIOUS
  <2>2. CASE i \in Global(s)
    <3>1. u.chain[i] = Newest(s, 1 .. i - 1, Bucket(u, s[i].name), nb)
      BY <2>2, <1>2, <1>4 DEF Bucket
    <3>2. IsLast(u, i - 1, Bucket(u, s[i].name), u.chain[i])
      BY <2>1, <3>1, <1>5
    <3> QED BY <3>2 DEF IsLast
  <2>3. CASE i \notin Global(s)
    <3>1. s[i].bind = "local" /\ u.chain[i] = 0
      BY <2>3, <1>2, <1>3 DEF Global
    <3> QED BY <3>1
  <2> QED BY <2>2, <2>3
<1>8. Table(u)
  <2>1. u.buckets \in [0 .. nb - 1 -> Nat]
    BY <1>2, <1>6
  <2>2. \A i \in 1 .. Len(s) : u.chain[i] \in Nat
    BY <1>7
  <2>3. u.chain \in Seq(Nat) /\ Len(u.chain) = Len(s)
    BY <2>2, <1>2
  <2>4. u \in Tables(nb)
    BY <2>1, <2>3, <1>2 DEF Tables
  <2> QED BY <2>1, <2>3, <2>4, <1>2, <1>6, <1>7 DEF Table
<1>9. ASSUME \A i \in 1 .. Len(s) : s[i].bind = "global" => s[i].name \in Named
      PROVE  Hashed(u)
  BY <1>2, <1>4, <1>6, <1>7, <1>9 DEF Hashed
<1> QED BY <1>1, <1>2, <1>8, <1>9

(* One more symbol.                                                        *)
LEMMA PutIs ==
    ASSUME NEW t, Table(t), NEW s \in Entry, s.bind = "local" \/ s.name \in Named
    PROVE  LET u == put_elf_sym(t, s)
           IN  Table(u) /\ u.symtab = Append(t.symtab, s) /\ (Hashed(t) => Hashed(u))
<1> DEFINE N == Len(t.symtab)
           nb == Nb(t)
           h == Bucket(t, s.name)
           a == Append(t.symtab, s)
<1>0. PICK u : u = put_elf_sym(t, s)
  OBVIOUS
<1>1. /\ t.symtab \in Seq(Entry) /\ N \in Nat /\ nb \in Nat \ {0} /\ t \in Tables(nb)
      /\ DOMAIN t.buckets = 0 .. nb - 1 /\ t.chain \in Seq(Nat) /\ Len(t.chain) = N
      /\ \A i \in 1 .. N : t.chain[i] \in 0 .. i - 1
      /\ \A k \in 0 .. nb - 1 : t.buckets[k] \in 0 .. N
      /\ \A n \in Named : Bucket(t, n) \in 0 .. nb - 1
  BY TableParts DEF Table
<1>2. /\ a \in Seq(Entry) /\ Len(a) = N + 1 /\ a[N + 1] = s
      /\ \A i \in 1 .. N : a[i] = t.symtab[i] /\ i \in 1 .. N + 1
      /\ \A i \in 1 .. N + 1 : i \in 1 .. N \/ i = N + 1
      /\ N + 1 \in 1 .. N + 1
  <2>1. \A q \in Seq(Entry) : /\ Append(q, s) \in Seq(Entry) /\ Len(Append(q, s)) = Len(q) + 1
                              /\ Append(q, s)[Len(q) + 1] = s
                              /\ \A i \in 1 .. Len(q) : Append(q, s)[i] = q[i]
    OBVIOUS
  <2>2. \A k \in Nat : /\ k + 1 \in 1 .. k + 1
                       /\ \A i \in 1 .. k : i \in 1 .. k + 1
                       /\ \A i \in 1 .. k + 1 : i \in 1 .. k \/ i = k + 1
    OBVIOUS
  <2> QED BY <2>1, <2>2, <1>1
<1>3. s.bind \in {"local", "global"}
  BY DEF Entry
<1>4. u = IF s.bind = "local" THEN [t EXCEPT !.symtab = a, !.chain = Append(@, 0)]
          ELSE IF Cardinality(Global(a)) > 2 * nb THEN rebuild_hash(a, 2 * nb)
          ELSE [symtab |-> a, chain |-> Append(t.chain, t.buckets[h]),
                buckets |-> [t.buckets EXCEPT ![h] = N + 1]]
  <2>1. Len(a) = N + 1
    BY <1>2
  <2> QED BY <1>0, <2>1 DEF put_elf_sym, Nb, Bucket
<1> HIDE DEF N, nb, a, h
<1>5. CASE s.bind # "local" /\ Cardinality(Global(a)) > 2 * nb
  <2>1. u = rebuild_hash(a, 2 * nb) /\ 2 * nb \in Nat \ {0}
    BY <1>1, <1>4, <1>5
  <2>2. /\ Table(u) /\ u.symtab = a
        /\ (\A i \in 1 .. Len(a) : a[i].bind = "global" => a[i].name \in Named) => Hashed(u)
    BY <2>1, <1>2, RebuildIs
  <2>3. ASSUME Hashed(t) PROVE \A i \in 1 .. Len(a) : a[i].bind = "global" => a[i].name \in Named
    <3>1. \A i \in 1 .. N : t.symtab[i].bind = "global" => t.symtab[i].name \in Named
      BY <2>3 DEF Hashed, N
    <3> QED BY <3>1, <1>2, <1>5
  <2> QED BY <2>2, <2>3, <1>0 DEF a
<1>6. CASE ~(s.bind # "local" /\ Cardinality(Global(a)) > 2 * nb)
  <2>1. PICK c \in Nat, b \in [0 .. nb - 1 -> Nat] :
           /\ u = [symtab |-> a, buckets |-> b, chain |-> Append(t.chain, c)]
           /\ c \in 0 .. N /\ \A k \in 0 .. nb - 1 : b[k] \in 0 .. N + 1
           /\ \/ s.bind = "local" /\ b = t.buckets
              \/ s.bind = "global" /\ c = t.buckets[h] /\ b = [t.buckets EXCEPT ![h] = N + 1]
    <3>1. CASE s.bind = "local"
      <4>1. u = [symtab |-> a, buckets |-> t.buckets, chain |-> Append(t.chain, 0)]
        BY <3>1, <1>1, <1>4 DEF Tables
      <4>2. t.buckets \in [0 .. nb - 1 -> Nat] /\ 0 \in 0 .. N
            /\ \A k \in 0 .. nb - 1 : t.buckets[k] \in 0 .. N + 1
        BY <1>1 DEF Tables
      <4> QED BY <3>1, <4>1, <4>2
    <3>2. CASE s.bind # "local"
      <4>1. h \in 0 .. nb - 1 /\ t.buckets \in [0 .. nb - 1 -> Nat]
        BY <3>2, <1>1 DEF h, Tables
      <4>2. PICK b : b = [t.buckets EXCEPT ![h] = N + 1]
        OBVIOUS
      <4>3. b \in [0 .. nb - 1 -> Nat] /\ \A k \in 0 .. nb - 1 : b[k] \in 0 .. N + 1
        BY <4>1, <4>2, <1>1
      <4>4. u = [symtab |-> a, buckets |-> b, chain |-> Append(t.chain, t.buckets[h])]
        BY <3>2, <4>2, <1>4, <1>6
      <4>5. t.buckets[h] \in 0 .. N /\ t.buckets[h] \in Nat
        BY <4>1, <1>1
      <4> QED BY <3>2, <4>2, <4>3, <4>4, <4>5, <1>3
    <3> QED BY <3>1, <3>2
  <2>2. /\ u.symtab = a /\ u.buckets = b /\ DOMAIN b = 0 .. nb - 1
        /\ u.chain \in Seq(Nat) /\ Len(u.chain) = N + 1 /\ u.chain[N + 1] = c
        /\ \A i \in 1 .. N : u.chain[i] = t.chain[i]
    BY <2>1, <1>1
  <2>3. Table(u)
    <3>1. u \in Tables(nb)
      BY <2>1, <2>2, <1>2 DEF Tables
    <3>2. \A i \in 1 .. N + 1 : u.chain[i] \in 0 .. i - 1
      BY <2>1, <2>2, <1>1, <1>2
    <3> QED BY <3>1, <3>2, <2>1, <2>2, <1>1, <1>2 DEF Table
  <2>4. Nb(u) = nb
    <3>1. Cardinality(0 .. nb - 1) = nb
      BY <1>1, FS_Interval
    <3> QED BY <3>1, <2>2 DEF Nb
  <2>5. \A k : \A i \in 1 .. N : InBucket(u, i, k) <=> InBucket(t, i, k)
    BY <2>2, <2>4, <1>2 DEF InBucket, Bucket, nb
  <2>6. \A k : InBucket(u, N + 1, k) <=> s.bind = "global" /\ h = k
    BY <2>2, <2>4, <1>2 DEF InBucket, Bucket, h, nb
  <2>7. ASSUME NEW m \in 0 .. N, NEW k, NEW p, IsLast(t, m, k, p)
        PROVE  IsLast(u, m, k, p)
    <3>1. p \in 0 .. m /\ (p # 0 => p \in 1 .. N) /\ \A j \in p + 1 .. m : j \in 1 .. N
      BY <2>7, <1>1 DEF IsLast
    <3> QED BY <3>1, <2>5, <2>7 DEF IsLast
  <2>8. ASSUME Hashed(t) PROVE Hashed(u)
    <3>0. /\ \A k \in 0 .. nb - 1 : IsLast(t, N, k, t.buckets[k])
          /\ \A i \in 1 .. N : t.symtab[i].bind = "global" =>
                /\ t.symtab[i].name \in Named
                /\ IsLast(t, i - 1, Bucket(t, t.symtab[i].name), t.chain[i])
      BY <2>8 DEF Hashed, N, nb
    <3>1. \A k \in 0 .. nb - 1 : IsLast(u, N, k, t.buckets[k])
      <4>1. N \in 0 .. N
        BY <1>1
      <4> QED BY <4>1, <3>0, <2>7
    <3>2. ASSUME NEW k \in 0 .. nb - 1 PROVE IsLast(u, N + 1, k, b[k])
      <4>1. CASE s.bind = "global" /\ h = k
        <5>1. b[k] = N + 1
          BY <4>1, <2>1, <1>1 DEF Tables
        <5>2. N + 1 \in 0 .. N + 1 /\ ~(N + 1 = 0) /\ \A j \in (N + 1) + 1 .. N + 1 : FALSE
          BY <1>1
        <5> QED BY <5>1, <5>2, <4>1, <2>6 DEF IsLast
      <4>2. CASE ~(s.bind = "global" /\ h = k)
        <5>1. b[k] = t.buckets[k]
          BY <4>2, <2>1, <1>1 DEF Tables
        <5>2. b[k] \in 0 .. N /\ b[k] \in 0 .. N + 1
              /\ \A j \in b[k] + 1 .. N + 1 : j \in b[k] + 1 .. N \/ j = N + 1
          BY <5>1, <1>1
        <5>3. IsLast(u, N, k, b[k])
          BY <5>1, <3>1
        <5> QED BY <5>2, <5>3, <4>2, <2>6 DEF IsLast
      <4> QED BY <4>1, <4>2
    <3>3. ASSUME NEW i \in 1 .. N + 1, a[i].bind = "global"
          PROVE  a[i].name \in Named /\ IsLast(u, i - 1, Bucket(u, a[i].name), u.chain[i])
      <4>1. Bucket(u, a[i].name) = Bucket(t, a[i].name)
        BY <2>4 DEF Bucket, nb
      <4>2. CASE i \in 1 .. N
        <5>1. i - 1 \in 0 .. N
          BY <4>2, <1>1
        <5>2. a[i] = t.symtab[i] /\ u.chain[i] = t.chain[i]
          BY <4>2, <1>2, <2>2
        <5>3. a[i].name \in Named /\ IsLast(t, i - 1, Bucket(t, a[i].name), u.chain[i])
          BY <3>0, <3>3, <4>2, <5>2
        <5> QED BY <5>1, <5>3, <4>1, <2>7
      <4>3. CASE i = N + 1
        <5>1. a[i] = s /\ s.bind = "global" /\ s.name \in Named
          BY <4>3, <3>3, <1>2
        <5>2. c = t.buckets[h] /\ h \in 0 .. nb - 1 /\ u.chain[i] = c
          BY <4>3, <5>1, <2>1, <2>2, <1>1 DEF h
        <5>3. i - 1 = N
          BY <4>3, <1>1
        <5>4. IsLast(u, N, h, c)
          BY <5>2, <3>1
        <5> QED BY <5>1, <5>2, <5>3, <5>4, <4>1 DEF h
      <4> QED BY <4>2, <4>3, <1>2
    <3> QED BY <3>2, <3>3, <2>2, <2>4, <1>2 DEF Hashed
  <2> QED BY <2>2, <2>3, <2>8, <1>0 DEF a
<1> QED BY <1>5, <1>6

-----------------------------------------------------------------------------
(* The symbols q are those of p but for the one at i, which may be a new   *)
(* one, and is as it was or has a new section, offset and size.  The names *)
(* stay.                                                                   *)
Alters(p, q, i, shndx, value, size) ==
    /\ Len(p) <= Len(q) /\ i \in 1 .. Len(q)
    /\ \A j \in 1 .. Len(q) : j # i => j \in 1 .. Len(p) /\ q[j] = p[j]
    /\ i \in 1 .. Len(p) => q[i].name = p[i].name
    /\ \/ q[i].shndx = shndx /\ q[i].value = value /\ q[i].size = size
       \/ i \in 1 .. Len(p) /\ q[i] = p[i]

Good(t) == Hashed(t) /\ Once(t)

(* Symbols rewritten in their place, with the names they had.              *)
LEMMA RewriteIs ==
    ASSUME NEW t, Table(t), NEW q \in Seq(Entry), Len(q) = Len(t.symtab)
    PROVE  LET u == [t EXCEPT !.symtab = q]
           IN  /\ Table(u) /\ u.symtab = q
               /\ Good(t) /\ (\A i \in 1 .. Len(q) : q[i].name = t.symtab[i].name
                                                     /\ q[i].bind = t.symtab[i].bind) => Good(u)
<1>0. PICK u : u = [t EXCEPT !.symtab = q]
  OBVIOUS
<1>1. t \in Tables(Nb(t)) /\ Nb(t) \in Nat \ {0}
  BY TableParts
<1>2. /\ u.symtab = q /\ u.buckets = t.buckets /\ u.chain = t.chain /\ u \in Tables(Nb(t))
  BY <1>0, <1>1 DEF Tables
<1>3. Nb(u) = Nb(t) /\ \A name : Bucket(u, name) = Bucket(t, name)
  BY <1>2 DEF Nb, Bucket
<1>4. Table(u)
  BY <1>1, <1>2 DEF Table
<1>5. ASSUME Good(t), \A i \in 1 .. Len(q) : q[i].name = t.symtab[i].name
                                             /\ q[i].bind = t.symtab[i].bind
      PROVE  Good(u)
  <2>1. \A k : \A i \in 1 .. Len(q) : InBucket(u, i, k) <=> InBucket(t, i, k)
    BY <1>2, <1>3, <1>5 DEF InBucket
  <2>2. ASSUME NEW m \in 0 .. Len(q), NEW k, NEW p, IsLast(t, m, k, p) PROVE IsLast(u, m, k, p)
    <3>1. p \in 0 .. m /\ (p # 0 => p \in 1 .. Len(q)) /\ \A j \in p + 1 .. m : j \in 1 .. Len(q)
      BY <2>2 DEF IsLast
    <3> QED BY <3>1, <2>1, <2>2 DEF IsLast
  <2>3. Len(q) \in 0 .. Len(q) /\ \A i \in 1 .. Len(q) : i - 1 \in 0 .. Len(q)
    OBVIOUS
  <2>4. \A h \in 0 .. Nb(t) - 1 : IsLast(u, Len(q), h, t.buckets[h])
    BY <2>2, <2>3, <1>5 DEF Good, Hashed
  <2>5. ASSUME NEW i \in 1 .. Len(q), q[i].bind = "global"
        PROVE  q[i].name \in Named /\ IsLast(u, i - 1, Bucket(t, q[i].name), t.chain[i])
    <3>1. q[i].name \in Named /\ IsLast(t, i - 1, Bucket(t, q[i].name), t.chain[i])
      BY <2>5, <1>5 DEF Good, Hashed
    <3> QED BY <3>1, <2>2, <2>3
  <2>6. Hashed(u)
    BY <2>4, <2>5, <1>2, <1>3 DEF Hashed
  <2>7. Once(u)
    BY <1>2, <1>5 DEF Once, Good
  <2> QED BY <2>6, <2>7 DEF Good
<1> QED BY <1>0, <1>2, <1>4, <1>5

(* A new symbol, of a name that has none.                                  *)
LEMMA PutGood ==
    ASSUME NEW t, Table(t), NEW s \in Entry, s.bind = "local" \/ s.name \in Named,
           Good(t), s.bind = "global" => IsFound(t, Len(t.symtab), s.name, 0)
    PROVE  Good(put_elf_sym(t, s))
<1>1. PICK u : u = put_elf_sym(t, s)
  OBVIOUS
<1>2. Table(u) /\ u.symtab = Append(t.symtab, s) /\ Hashed(u)
  BY <1>1, PutIs DEF Good
<1>3. /\ Len(t.symtab) \in Nat /\ Len(u.symtab) = Len(t.symtab) + 1
      /\ u.symtab[Len(t.symtab) + 1] = s
      /\ \A i \in 1 .. Len(t.symtab) : u.symtab[i] = t.symtab[i]
      /\ \A i \in 1 .. Len(t.symtab) + 1 : i \in 1 .. Len(t.symtab) \/ i = Len(t.symtab) + 1
  BY <1>2, TableParts
<1>4. s.bind = "global" => \A j \in 1 .. Len(t.symtab) : ~IsGlobal(t, j, s.name)
  <2>1. 0 \notin 1 .. Len(t.symtab)
    OBVIOUS
  <2> QED BY <2>1 DEF IsFound
<1>5. Once(u)
  <2> SUFFICES ASSUME NEW i \in 1 .. Len(u.symtab), NEW j \in 1 .. Len(u.symtab),
                      u.symtab[i].bind = "global", u.symtab[j].bind = "global",
                      u.symtab[i].name = u.symtab[j].name
               PROVE  i = j
    BY DEF Once
  <2>1. CASE i \in 1 .. Len(t.symtab) /\ j \in 1 .. Len(t.symtab)
    BY <2>1, <1>3 DEF Good, Once
  <2>2. CASE i = Len(t.symtab) + 1 /\ j \in 1 .. Len(t.symtab)
    BY <2>2, <1>3, <1>4 DEF IsGlobal
  <2>3. CASE j = Len(t.symtab) + 1 /\ i \in 1 .. Len(t.symtab)
    BY <2>3, <1>3, <1>4 DEF IsGlobal
  <2> QED BY <2>1, <2>2, <2>3, <1>3
<1> QED BY <1>1, <1>2, <1>5 DEF Good

(* A symbol is in this section, at this offset.                            *)
Has(s, shndx, value) == s.shndx = shndx /\ s.value = value

(* add_elf_sym: a new symbol, or the one there is, which is taken for the  *)
(* definition when it had none.                                            *)
LEMMA AddIs ==
    ASSUME NEW t, Table(t), NEW s \in Entry, s.name \in Named
    PROVE  LET r == add_elf_sym(t, s)
           IN  /\ Table(r.table) /\ (Good(t) => Good(r.table))
               /\ Alters(t.symtab, r.table.symtab, r.i, s.shndx, s.value, s.size)
               /\ r = Result(r.table, r.i, r.twice)
               /\ r.table.symtab[r.i].name = s.name
               /\ s.shndx # "undef" => r.twice = TRUE \/ Has(r.table.symtab[r.i], s.shndx, s.value)
<1> DEFINE N == Len(t.symtab)
           i == find_elf_sym(t, s.name)
<1>0. PICK r : r = add_elf_sym(t, s)
  OBVIOUS
<1>1. /\ t.symtab \in Seq(Entry) /\ N \in Nat /\ DOMAIN t.symtab = 1 .. N
      /\ i \in 0 .. N /\ (i # 0 => t.symtab[i].name = s.name)
  BY TableParts, FindTypes
<1>2. r = IF s.bind = "local" \/ i = 0 THEN Result(put_elf_sym(t, s), N + 1, FALSE)
          ELSE IF t.symtab[i].shndx = "undef" THEN Result([t EXCEPT !.symtab[i] = s], i, FALSE)
          ELSE Result(t, i, s.shndx # "undef")
  BY <1>0 DEF add_elf_sym
<1>3. s.bind \in {"local", "global"}
  BY DEF Entry
<1>4. Good(t) => IsFound(t, N, s.name, i)
  BY FindGlobal DEF Good
<1> HIDE DEF i
<1>5. CASE s.bind = "local" \/ i = 0
  <2>1. r.table = put_elf_sym(t, s) /\ r.i = N + 1 /\ r = Result(r.table, r.i, r.twice)
    BY <1>2, <1>5 DEF Result
  <2>2. Table(r.table) /\ r.table.symtab = Append(t.symtab, s)
    BY <2>1, PutIs
  <2>3. Good(t) => Good(r.table)
    BY <2>1, <1>3, <1>4, <1>5, PutGood
  <2>4. /\ Len(r.table.symtab) = N + 1 /\ r.table.symtab[N + 1] = s
        /\ \A j \in 1 .. N : r.table.symtab[j] = t.symtab[j]
    BY <2>2, <1>1
  <2>5. N <= N + 1 /\ N + 1 \in 1 .. N + 1 /\ \A j \in 1 .. N + 1 : j # N + 1 => j \in 1 .. N
    BY <1>1
  <2>6. Alters(t.symtab, r.table.symtab, r.i, s.shndx, s.value, s.size)
    BY <2>1, <2>4, <2>5, <1>1 DEF Alters
  <2>7. r.table.symtab[r.i] = s
    BY <2>1, <2>4
  <2> QED BY <2>1, <2>2, <2>3, <2>6, <2>7, <1>0 DEF Has
<1>6. CASE ~(s.bind = "local" \/ i = 0) /\ t.symtab[i].shndx = "undef"
  <2>0. i \in 1 .. N
    BY <1>1, <1>6
  <2>1. PICK q : q = [t.symtab EXCEPT ![i] = s]
    OBVIOUS
  <2>2. q \in Seq(Entry) /\ Len(q) = N /\ q[i] = s /\ \A j \in 1 .. N : j # i => q[j] = t.symtab[j]
    BY <2>0, <2>1, <1>1
  <2>3. r.table = [t EXCEPT !.symtab = q] /\ r.i = i /\ r = Result(r.table, r.i, r.twice)
    BY <2>1, <1>2, <1>6 DEF Result
  <2>4. /\ Table(r.table) /\ r.table.symtab = q
        /\ Good(t) /\ (\A j \in 1 .. N : q[j].name = t.symtab[j].name
                                         /\ q[j].bind = t.symtab[j].bind) => Good(r.table)
    BY <2>2, <2>3, RewriteIs
  <2>5. Good(t) => Good(r.table)
    <3>1. ASSUME Good(t) PROVE t.symtab[i].bind = "global" /\ t.symtab[i].name = s.name
      BY <3>1, <1>4, <2>0 DEF IsFound, IsGlobal
    <3>2. s.bind = "global"
      BY <1>3, <1>6
    <3> QED BY <3>1, <3>2, <2>2, <2>4
  <2>6. Alters(t.symtab, r.table.symtab, r.i, s.shndx, s.value, s.size)
    BY <2>0, <2>2, <2>3, <2>4, <1>1 DEF Alters
  <2>7. r.table.symtab[r.i] = s
    BY <2>2, <2>3, <2>4
  <2> QED BY <2>3, <2>4, <2>5, <2>6, <2>7, <1>0 DEF Has
<1>7. CASE ~(s.bind = "local" \/ i = 0) /\ t.symtab[i].shndx # "undef"
  <2>1. r.table = t /\ r.i = i /\ r = Result(r.table, r.i, r.twice)
    BY <1>2, <1>7 DEF Result
  <2>2. i \in 1 .. N /\ N <= N
    BY <1>1, <1>7
  <2>3. Alters(t.symtab, r.table.symtab, r.i, s.shndx, s.value, s.size)
    BY <2>1, <2>2 DEF Alters
  <2>4. r.table.symtab[r.i].name = s.name
    BY <2>1, <2>2, <1>1
  <2>5. ASSUME s.shndx # "undef" PROVE r.twice = TRUE
    <3>1. r = Result(t, i, TRUE)
      BY <2>5, <1>2, <1>7
    <3> QED BY <3>1 DEF Result
  <2> QED BY <2>1, <2>3, <2>4, <2>5, <1>0
<1> QED BY <1>5, <1>6, <1>7

(* put_extern_sym2: the same, and the symbol of c rewritten.  A definition *)
(* is refused, or its symbol is where it should be.                        *)
Sections == {"undef", "abs", "text", "data", "bss", "common"}
Taken(r, shndx, value) ==
    shndx # "undef" => r.twice = TRUE \/ Has(r.table.symtab[r.i], shndx, value)

(* That it is.                                                             *)
LEMMA ExternIs ==
    ASSUME Table(table), NEW s, s.c \in 0 .. Len(table.symtab), NEW n \in Names,
           s.c # 0 => table.symtab[s.c].name = n,
           NEW shndx \in Sections, NEW value \in Nat, NEW size \in Nat
    PROVE  LET r == put_extern_sym2(s, n, shndx, value, size)
           IN  /\ Table(r.table) /\ (Good(table) => Good(r.table))
               /\ Alters(table.symtab, r.table.symtab, r.i, shndx, value, size)
               /\ r = Result(r.table, r.i, r.twice)
               /\ r.table.symtab[r.i].name = n
               /\ Taken(r, shndx, value)
<1> DEFINE p == table.symtab
<1>0. PICK r : r = put_extern_sym2(s, n, shndx, value, size)
  OBVIOUS
<1>1. p \in Seq(Entry) /\ Len(p) \in Nat /\ DOMAIN p = 1 .. Len(p)
  BY TableParts
<1>2. CASE s.c = 0
  <2>1. PICK e : e = Symbol(n, IF s.static THEN "local" ELSE "global", shndx, value, size)
    OBVIOUS
  <2>2. e \in Entry /\ e.name \in Named /\ e.shndx = shndx /\ e.value = value /\ e.size = size
    BY <2>1 DEF Symbol, Entry, Named, Sections
  <2>3. r = add_elf_sym(table, e)
    BY <2>1, <1>0, <1>2 DEF put_extern_sym2
  <2>4. e.name = n
    BY <2>1 DEF Symbol
  <2>5. /\ Table(r.table) /\ (Good(table) => Good(r.table))
        /\ Alters(p, r.table.symtab, r.i, e.shndx, e.value, e.size)
        /\ r = Result(r.table, r.i, r.twice)
        /\ r.table.symtab[r.i].name = e.name
        /\ e.shndx # "undef" => r.twice = TRUE \/ Has(r.table.symtab[r.i], e.shndx, e.value)
    BY <2>2, <2>3, AddIs
  <2>6. Taken(r, shndx, value)
    BY <2>2, <2>5 DEF Taken
  <2> QED BY <2>2, <2>4, <2>5, <2>6, <1>0
<1>3. CASE s.c # 0
  <2>1. PICK i \in 1 .. Len(p) : i = s.c
    BY <1>3
  <2>2. PICK e : e = [p[i] EXCEPT !.shndx = shndx, !.value = value, !.size = size]
    OBVIOUS
  <2>3. p[i] \in Entry
    BY <2>1, <1>1
  <2>4. /\ e \in Entry /\ e.name = p[i].name /\ e.bind = p[i].bind
        /\ e.shndx = shndx /\ e.value = value /\ e.size = size
    BY <2>2, <2>3 DEF Entry, Sections
  <2>5. PICK q : q = [p EXCEPT ![i] = e]
    OBVIOUS
  <2>6. q \in Seq(Entry) /\ Len(q) = Len(p) /\ q[i] = e /\ \A j \in 1 .. Len(p) : j # i => q[j] = p[j]
    BY <2>1, <2>4, <2>5, <1>1
  <2>7. r = Result([table EXCEPT !.symtab[s.c] =
                       [@ EXCEPT !.shndx = shndx, !.value = value, !.size = size]], s.c, FALSE)
    BY <1>0, <1>3 DEF put_extern_sym2
  <2>8. r.table = [table EXCEPT !.symtab = q] /\ r.i = i /\ r = Result(r.table, r.i, r.twice)
    BY <2>1, <2>2, <2>5, <2>7 DEF Result
  <2>9. /\ Table(r.table) /\ r.table.symtab = q
        /\ Good(table) /\ (\A j \in 1 .. Len(q) : q[j].name = p[j].name
                                                  /\ q[j].bind = p[j].bind) => Good(r.table)
    BY <2>6, <2>8, RewriteIs
  <2>10. \A j \in 1 .. Len(q) : q[j].name = p[j].name /\ q[j].bind = p[j].bind
    BY <2>4, <2>6
  <2>11. Alters(p, q, i, shndx, value, size)
    BY <2>1, <2>4, <2>6, <1>1 DEF Alters
  <2>12. q[i].name = n /\ Has(q[i], shndx, value)
    BY <2>1, <2>4, <2>6, <1>3 DEF Has
  <2>13. Taken(r, shndx, value)
    BY <2>8, <2>9, <2>12 DEF Taken
  <2> QED BY <2>8, <2>9, <2>10, <2>11, <2>12, <2>13, <1>0
<1> QED BY <1>2, <1>3

-----------------------------------------------------------------------------
(* What is in a section lies below its data_offset, and nothing overlaps.  *)
(* The sizes of symbols of the names x do not count.                       *)
Kept == {"text", "data", "bss"}
Room(s, x) == IF s.name \in x THEN 0 ELSE s.size
Apart(a, b, x) == a.value + Room(a, x) <= b.value \/ b.value + Room(b, x) <= a.value
Placed(p, end, x) ==
    /\ \A i \in 1 .. Len(p) :
          p[i].shndx \in Kept => p[i].value + Room(p[i], x) <= end[p[i].shndx]
    /\ \A i, j \in 1 .. Len(p) :
          i # j /\ p[i].shndx = p[j].shndx /\ p[i].shndx \in Kept => Apart(p[i], p[j], x)

(* If they are fewer that count it holds all the more.                     *)
LEMMA PlacedFewer ==
    ASSUME NEW p \in Seq(Entry), NEW e \in [Kept -> Nat], NEW x, NEW y, x \subseteq y, Placed(p, e, x)
    PROVE  Placed(p, e, y)
<1>1. \A j \in 1 .. Len(p) : p[j] \in Entry
  OBVIOUS
<1>2. \A j \in 1 .. Len(p) :
         /\ p[j].value \in Nat /\ Room(p[j], x) \in Nat /\ Room(p[j], y) \in Nat
         /\ Room(p[j], y) <= Room(p[j], x)
  BY <1>1 DEF Room, Entry
<1>3. ASSUME NEW i \in 1 .. Len(p), p[i].shndx \in Kept
      PROVE  p[i].value + Room(p[i], y) <= e[p[i].shndx]
  <2>1. p[i].value + Room(p[i], x) <= e[p[i].shndx] /\ e[p[i].shndx] \in Nat
    BY <1>3 DEF Placed
  <2> QED BY <2>1, <1>2
<1>4. ASSUME NEW i \in 1 .. Len(p), NEW j \in 1 .. Len(p), Apart(p[i], p[j], x)
      PROVE  Apart(p[i], p[j], y)
  <2>1. /\ p[i].value \in Nat /\ Room(p[i], x) \in Nat /\ Room(p[i], y) \in Nat
        /\ p[j].value \in Nat /\ Room(p[j], x) \in Nat /\ Room(p[j], y) \in Nat
        /\ Room(p[i], y) <= Room(p[i], x) /\ Room(p[j], y) <= Room(p[j], x)
    BY <1>2
  <2>2. \A a, b, c, d \in Nat : a + b <= d /\ c <= b => a + c <= d
    OBVIOUS
  <2> QED BY <2>1, <2>2, <1>4 DEF Apart
<1>5. ASSUME NEW i \in 1 .. Len(p), NEW j \in 1 .. Len(p),
             i # j, p[i].shndx = p[j].shndx, p[i].shndx \in Kept
      PROVE  Apart(p[i], p[j], y)
  <2>1. Apart(p[i], p[j], x)
    BY <1>5 DEF Placed
  <2> QED BY <2>1, <1>4
<1> QED BY <1>3, <1>5, Zenon DEF Placed

(* Or if the sections are longer.                                          *)
LEMMA PlacedHigher ==
    ASSUME NEW p \in Seq(Entry), NEW e \in [Kept -> Nat], NEW f \in [Kept -> Nat], NEW x,
           Placed(p, e, x), \A s \in Kept : e[s] <= f[s]
    PROVE  Placed(p, f, x)
<1>1. \A j \in 1 .. Len(p) : p[j] \in Entry
  OBVIOUS
<1>2. \A j \in 1 .. Len(p) : p[j].value \in Nat /\ Room(p[j], x) \in Nat
  BY <1>1 DEF Room, Entry
<1>3. ASSUME NEW i \in 1 .. Len(p), p[i].shndx \in Kept
      PROVE  p[i].value + Room(p[i], x) <= f[p[i].shndx]
  <2>1. PICK s \in Kept : s = p[i].shndx
    BY <1>3
  <2>2. p[i].value + Room(p[i], x) <= e[s]
    BY <2>1, <1>3 DEF Placed
  <2>3. e[s] \in Nat /\ f[s] \in Nat /\ e[s] <= f[s]
    OBVIOUS
  <2>4. \A a, b, c, d \in Nat : a + b <= c /\ c <= d => a + b <= d
    OBVIOUS
  <2> QED BY <2>1, <2>2, <2>3, <2>4, <1>2
<1> QED BY <1>3, Zenon DEF Placed

(* A section that gets something is longer by it, and none is shorter.     *)
Longer(e, f, shndx, value, size) ==
    /\ \A s \in Kept : e[s] <= f[s]
    /\ shndx \in Kept => value = e[shndx] /\ value + size <= f[shndx]

(* A symbol that goes to the end of its section, which grows by its size,  *)
(* or to none.                                                             *)
LEMMA PlacedLonger ==
    ASSUME NEW p \in Seq(Entry), NEW q \in Seq(Entry), NEW i, NEW shndx, NEW value, NEW size,
           Alters(p, q, i, shndx, value, size),
           NEW e \in [Kept -> Nat], NEW f \in [Kept -> Nat], NEW x, Placed(p, e, x),
           Longer(e, f, shndx, value, size)
    PROVE  Placed(q, f, x)
<1>l. /\ \A s \in Kept : e[s] <= f[s]
      /\ shndx \in Kept => value = e[shndx] /\ value + size <= f[shndx]
  BY DEF Longer
<1>1. /\ \A j \in 1 .. Len(p) : p[j] \in Entry /\ p[j].value \in Nat /\ p[j].size \in Nat
      /\ \A j \in 1 .. Len(q) : q[j] \in Entry /\ q[j].value \in Nat /\ q[j].size \in Nat
  <2>1. \A j \in 1 .. Len(p) : p[j] \in Entry
    OBVIOUS
  <2>2. \A j \in 1 .. Len(q) : q[j] \in Entry
    OBVIOUS
  <2> QED BY <2>1, <2>2 DEF Entry
<1>r. /\ \A j \in 1 .. Len(p) : Room(p[j], x) \in Nat
      /\ \A j \in 1 .. Len(q) : Room(q[j], x) \in Nat /\ Room(q[j], x) <= q[j].size
  BY <1>1 DEF Room
<1>2. i \in 1 .. Len(q) /\ \A j \in 1 .. Len(q) : j # i => j \in 1 .. Len(p) /\ q[j] = p[j]
  BY DEF Alters
<1>3. CASE i \in 1 .. Len(p) /\ q[i] = p[i]
  <2>1. \A j \in 1 .. Len(q) : j \in 1 .. Len(p) /\ q[j] = p[j]
    BY <1>2, <1>3
  <2>2. ASSUME NEW j \in 1 .. Len(q), q[j].shndx \in Kept
        PROVE  q[j].value + Room(q[j], x) <= f[q[j].shndx]
    <3>1. q[j].value + Room(q[j], x) <= e[q[j].shndx]
      BY <2>1, <2>2 DEF Placed
    <3>2. e[q[j].shndx] \in Nat /\ f[q[j].shndx] \in Nat /\ e[q[j].shndx] <= f[q[j].shndx]
      BY <1>l, <2>2
    <3>3. q[j].value + Room(q[j], x) \in Nat
      BY <1>1, <1>r
    <3> QED BY <3>1, <3>2, <3>3
  <2> QED BY <2>1, <2>2 DEF Placed
<1>4. CASE q[i].shndx = shndx /\ q[i].value = value /\ q[i].size = size
  <2>1. ASSUME NEW j \in 1 .. Len(q), q[j].shndx \in Kept
        PROVE  q[j].value + Room(q[j], x) <= f[q[j].shndx]
    <3>1. CASE j = i
      <4>1. shndx \in Kept /\ q[i].value = value /\ q[i].size = size
        BY <3>1, <2>1, <1>4
      <4>2. value + size <= f[shndx] /\ f[shndx] \in Nat
        BY <1>l, <4>1
      <4>3. Room(q[i], x) \in Nat /\ q[i].value \in Nat /\ q[i].size \in Nat
            /\ Room(q[i], x) <= q[i].size
        BY <1>1, <1>2, <1>r
      <4>4. q[i].value + Room(q[i], x) <= f[shndx]
        BY <4>1, <4>2, <4>3
      <4> QED BY <4>4, <3>1, <1>4
    <3>2. CASE j # i
      <4>1. q[j].value + Room(q[j], x) <= e[q[j].shndx]
        BY <3>2, <2>1, <1>2 DEF Placed
      <4>2. e[q[j].shndx] \in Nat /\ f[q[j].shndx] \in Nat /\ e[q[j].shndx] <= f[q[j].shndx]
        BY <1>l, <2>1
      <4>3. q[j].value + Room(q[j], x) \in Nat
        BY <1>1, <1>r
      <4> QED BY <4>1, <4>2, <4>3
    <3> QED BY <3>1, <3>2
  <2>2. ASSUME NEW j \in 1 .. Len(q), j # i, q[j].shndx = shndx, shndx \in Kept
        PROVE  q[j].value + Room(q[j], x) <= q[i].value
    BY <1>l, <2>2, <1>2, <1>4 DEF Placed
  <2>3. ASSUME NEW j \in 1 .. Len(q), NEW k \in 1 .. Len(q),
               j # k, q[j].shndx = q[k].shndx, q[j].shndx \in Kept
        PROVE  Apart(q[j], q[k], x)
    <3>1. CASE j # i /\ k # i
      BY <3>1, <2>3, <1>2 DEF Placed
    <3>2. CASE j = i
      BY <3>2, <2>2, <2>3, <1>4 DEF Apart
    <3>3. CASE k = i
      BY <3>3, <2>2, <2>3, <1>4 DEF Apart
    <3> QED BY <3>1, <3>2, <3>3
  <2> QED BY <2>1, <2>3 DEF Placed
<1> QED BY <1>3, <1>4 DEF Alters

(* The same.                                                               *)
LEMMA PlacedAlter ==
    ASSUME NEW p \in Seq(Entry), NEW q \in Seq(Entry), NEW i, NEW shndx, NEW value, NEW size,
           Alters(p, q, i, shndx, value, size),
           NEW e \in [Kept -> Nat], NEW f \in [Kept -> Nat], NEW x, Placed(p, e, x),
           \A s \in Kept : e[s] <= f[s],
           shndx \in Kept => value = e[shndx] /\ value + size <= f[shndx]
    PROVE  Placed(q, f, x)
<1>1. Longer(e, f, shndx, value, size)
  BY DEF Longer
<1> QED BY <1>1, PlacedLonger

-----------------------------------------------------------------------------
(* The offsets that common symbols get.                                    *)
Grows(p, o, i) == o[i] = o[i - 1] + IF p[i].shndx = "common" THEN p[i].size ELSE 0
Offsets(p, o, m, base) == o[0] = base /\ \A i \in 1 .. m : Grows(p, o, i)

(* There are such offsets.                                                 *)
LEMMA OffsetsExist ==
    ASSUME NEW p \in Seq(Entry), NEW base, NEW m \in 0 .. Len(p)
    PROVE  \E o : o = [i \in 0 .. m |->
                         IF i = 0 THEN base
                         ELSE o[i - 1] + IF p[i].shndx = "common" THEN p[i].size ELSE 0]
<1> DEFINE W(o, k) == o = [i \in 0 .. k |->
                         IF i = 0 THEN base
                         ELSE o[i - 1] + IF p[i].shndx = "common" THEN p[i].size ELSE 0]
           N == Len(p)
           I == {k \in 0 .. N : ~\E o : W(o, k)}
<1>0. N \in Nat
  OBVIOUS
<1>1. ASSUME I # {} PROVE FALSE
  <2> I \subseteq Nat
    OBVIOUS
  <2> HIDE DEF I
  <2>1. PICK k \in I : \A j \in I : k <= j
    BY <1>1, LeastNat
  <2>2. k \in 0 .. N /\ ~\E o : W(o, k)
    BY DEF I
  <2>3. CASE k = 0
    <3>1. PICK o : o = [i \in 0 .. 0 |-> base]
      OBVIOUS
    <3>2. o = [i \in 0 .. 0 |->
                 IF i = 0 THEN base
                 ELSE o[i - 1] + IF p[i].shndx = "common" THEN p[i].size ELSE 0]
      BY <3>1
    <3> QED BY <2>2, <2>3, <3>2
  <2>4. CASE k # 0
    <3>1. k - 1 \in 0 .. N /\ ~(k <= k - 1) /\ k \in 1 .. N
      BY <2>2, <2>4, <1>0
    <3>2. \E o : W(o, k - 1)
      BY <3>1, <2>1 DEF I
    <3>3. PICK o : W(o, k - 1)
      BY <3>2
    <3>4. PICK v : v = [i \in 0 .. k |->
                          IF i < k THEN o[i]
                          ELSE o[k - 1] + IF p[k].shndx = "common" THEN p[k].size ELSE 0]
      OBVIOUS
    <3>5. \A i \in 0 .. k - 1 : i \in 0 .. k /\ i < k /\ v[i] = o[i]
      BY <3>1, <3>4
    <3>6. \A i \in 0 .. k :
             v[i] = IF i = 0 THEN base
                    ELSE v[i - 1] + IF p[i].shndx = "common" THEN p[i].size ELSE 0
      <4> TAKE i \in 0 .. k
      <4>1. CASE i = k
        <5>1. k - 1 \in 0 .. k - 1 /\ i \in 0 .. k /\ ~(i < k) /\ i # 0
          BY <3>1, <4>1
        <5>2. v[i] = o[k - 1] + IF p[k].shndx = "common" THEN p[k].size ELSE 0
          BY <5>1, <3>4
        <5> QED BY <4>1, <5>1, <5>2, <3>5
      <4>2. CASE i # k
        <5>1. i \in 0 .. k - 1
          BY <4>2, <3>1
        <5>2. o[i] = IF i = 0 THEN base
                     ELSE o[i - 1] + IF p[i].shndx = "common" THEN p[i].size ELSE 0
          BY <5>1, <3>3
        <5>3. i # 0 => i - 1 \in 0 .. k - 1
          BY <5>1, <3>1
        <5> QED BY <5>1, <5>2, <5>3, <3>5
      <4> QED BY <4>1, <4>2
    <3>7. W(v, k)
      BY <3>4, <3>6
    <3> QED BY <3>7, <2>2
  <2> QED BY <2>3, <2>4
<1>2. m \in 0 .. N /\ m \notin I
  BY <1>1
<1> QED BY <1>2

(* They begin at data_offset and never go back.                            *)
LEMMA OffsetsGrow ==
    ASSUME NEW p \in Seq(Entry), top.bss \in Nat, NEW o, o = bss_offset(p)
    PROVE  /\ Offsets(p, o, Len(p), top.bss)
           /\ \A j \in 0 .. Len(p) : o[j] \in Nat /\ \A i \in 0 .. j : o[i] <= o[j]
<1> DEFINE N == Len(p)
           W(f) == f = [i \in 0 .. N |->
                         IF i = 0 THEN top.bss
                         ELSE f[i - 1] + IF p[i].shndx = "common" THEN p[i].size ELSE 0]
<1>0. N \in Nat /\ N \in 0 .. N /\ \A i \in 1 .. N : p[i].size \in Nat
  <2>1. \A i \in 1 .. N : p[i] \in Entry
    OBVIOUS
  <2> QED BY <2>1 DEF Entry
<1>1. o = CHOOSE f : W(f)
  BY DEF bss_offset
<1>2. \E f : W(f)
  BY <1>0, OffsetsExist
<1> HIDE DEF W
<1>3. W(o)
  BY <1>1, <1>2
<1>4. Offsets(p, o, N, top.bss)
  <2>1. 0 \in 0 .. N /\ \A i \in 1 .. N : i \in 0 .. N /\ i # 0
    BY <1>0
  <2> QED BY <2>1, <1>3 DEF W, Offsets, Grows
<1> DEFINE Up(j) == o[j] \in Nat /\ \A i \in 0 .. j : o[i] <= o[j]
           I == {j \in 0 .. N : ~Up(j)}
<1>5. ASSUME I # {} PROVE FALSE
  <2> I \subseteq Nat
    OBVIOUS
  <2> HIDE DEF I
  <2>1. PICK k \in I : \A j \in I : k <= j
    BY <1>5, LeastNat
  <2>2. k \in 0 .. N /\ ~Up(k)
    BY DEF I
  <2>3. CASE k = 0
    <3>1. o[0] \in Nat
      BY <1>4 DEF Offsets
    <3>2. \A i \in 0 .. 0 : i = 0
      OBVIOUS
    <3> QED BY <3>1, <3>2, <2>2, <2>3
  <2>4. CASE k # 0
    <3>1. k - 1 \in 0 .. N /\ ~(k <= k - 1) /\ k \in 1 .. N
      BY <2>2, <2>4, <1>0
    <3>2. Up(k - 1)
      BY <3>1, <2>1 DEF I
    <3>3. PICK s \in Nat : o[k] = o[k - 1] + s
      <4>1. Grows(p, o, k)
        BY <3>1, <1>4 DEF Offsets
      <4> QED BY <4>1, <3>1, <1>0 DEF Grows
    <3>4. o[k] \in Nat /\ o[k - 1] <= o[k] /\ o[k] <= o[k]
      BY <3>2, <3>3
    <3>5. ASSUME NEW i \in 0 .. k PROVE o[i] <= o[k]
      <4>1. CASE i = k
        BY <4>1, <3>4
      <4>2. CASE i # k
        <5>1. i \in 0 .. k - 1 /\ i \in 0 .. N /\ ~(k <= i)
          BY <4>2, <3>1, <1>0
        <5>2. Up(i)
          BY <5>1, <2>1 DEF I
        <5>3. o[i] \in Nat /\ o[i] <= o[k - 1] /\ o[k - 1] \in Nat
          BY <5>1, <5>2, <3>2
        <5> QED BY <5>3, <3>4
      <4> QED BY <4>1, <4>2
    <3> QED BY <3>4, <3>5, <2>2
  <2> QED BY <2>3, <2>4
<1>6. \A j \in 0 .. N : Up(j)
  BY <1>5
<1> QED BY <1>4, <1>6

(* relocate_common_syms: every common symbol gets room of its own.         *)
LEMMA CommonIs ==
    ASSUME NEW p \in Seq(Entry), top \in [Kept -> Nat], NEW x, Placed(p, top, x),
           NEW q, q = relocate_common_syms(p), NEW o, o = bss_offset(p)
    PROVE  /\ q \in Seq(Entry) /\ Len(q) = Len(p) /\ o[Len(p)] \in Nat /\ top.bss <= o[Len(p)]
           /\ \A i \in 1 .. Len(q) : q[i].name = p[i].name /\ q[i].bind = p[i].bind
           /\ Placed(q, [top EXCEPT !.bss = o[Len(p)]], x)
<1> DEFINE N == Len(p)
<1>0. N \in Nat /\ DOMAIN p = 1 .. N /\ \A i \in 1 .. N : p[i] \in Entry
  OBVIOUS
<1>1. \A i \in 1 .. N : p[i].value \in Nat /\ p[i].size \in Nat
  BY <1>0 DEF Entry
<1>r. /\ \A i \in 1 .. N : Room(p[i], x) \in Nat /\ Room(p[i], x) <= p[i].size
      /\ \A i \in 1 .. N : \A s : s.name = p[i].name /\ s.size = p[i].size => Room(s, x) = Room(p[i], x)
  BY <1>1 DEF Room
<1>2. top.bss \in Nat /\ top.text \in Nat /\ top.data \in Nat
  BY DEF Kept
<1>3. /\ Offsets(p, o, N, top.bss)
      /\ \A j \in 0 .. N : o[j] \in Nat /\ \A i \in 0 .. j : o[i] <= o[j]
  BY <1>2, OffsetsGrow
<1>4. /\ DOMAIN q = 1 .. N /\ q = [i \in 1 .. N |-> q[i]]
      /\ \A i \in 1 .. N : q[i] = IF p[i].shndx = "common"
                                 THEN Symbol(p[i].name, p[i].bind, "bss", o[i - 1], p[i].size)
                                 ELSE p[i]
  BY <1>0 DEF relocate_common_syms
<1>5. \A i \in 1 .. N : i - 1 \in 0 .. N /\ i \in 0 .. N
  BY <1>0
<1>6. \A i \in 1 .. N :
         /\ q[i] \in Entry /\ q[i].name = p[i].name /\ q[i].bind = p[i].bind
         /\ p[i].shndx # "common" => q[i] = p[i]
         /\ p[i].shndx = "common" =>
               q[i].shndx = "bss" /\ q[i].value = o[i - 1] /\ q[i].size = p[i].size
  <2> TAKE i \in 1 .. N
  <2>1. CASE p[i].shndx # "common"
    BY <2>1, <1>0, <1>4
  <2>2. CASE p[i].shndx = "common"
    <3>1. q[i] = Symbol(p[i].name, p[i].bind, "bss", o[i - 1], p[i].size)
      BY <2>2, <1>4
    <3>2. o[i - 1] \in Nat /\ p[i] \in Entry
      BY <1>0, <1>3, <1>5
    <3> QED BY <3>1, <3>2, <2>2 DEF Entry, Symbol
  <2> QED BY <2>1, <2>2
<1>7. q \in Seq(Entry) /\ Len(q) = N
  BY <1>0, <1>4, <1>6
<1>8. 0 \in 0 .. N /\ N \in 0 .. N /\ o[0] = top.bss
  BY <1>0, <1>3 DEF Offsets
<1>9. o[N] \in Nat /\ top.bss <= o[N]
  BY <1>3, <1>8
<1>10. ASSUME NEW i \in 1 .. N, p[i].shndx = "common"
       PROVE  /\ q[i].shndx = "bss" /\ q[i].value = o[i - 1]
              /\ q[i].value \in Nat /\ Room(q[i], x) \in Nat /\ top.bss <= q[i].value
              /\ q[i].value + Room(q[i], x) <= o[i] /\ o[i] \in Nat /\ o[i] <= o[N]
  <2>1. q[i].shndx = "bss" /\ q[i].value = o[i - 1] /\ q[i].size = p[i].size
    BY <1>6, <1>10
  <2>2. o[i] = o[i - 1] + p[i].size
    BY <1>3, <1>10 DEF Offsets, Grows
  <2>3. o[i - 1] \in Nat /\ o[i] \in Nat /\ o[i] <= o[N]
    BY <1>3, <1>5, <1>8
  <2>4. 0 \in 0 .. i - 1
    BY <1>5
  <2>5. top.bss <= o[i - 1]
    BY <2>4, <1>3, <1>5, <1>8
  <2>6. Room(q[i], x) = Room(p[i], x)
    BY <2>1, <1>6, <1>r
  <2>7. PICK a \in Nat, b \in Nat, c \in Nat :
           a = o[i - 1] /\ b = p[i].size /\ c = Room(q[i], x) /\ c <= b
    BY <2>3, <2>6, <1>1, <1>r
  <2>8. q[i].value = a /\ o[i] = a + b
    BY <2>1, <2>2, <2>7
  <2>9. a + c <= a + b
    BY <2>7
  <2> QED BY <2>1, <2>3, <2>5, <2>7, <2>8, <2>9
<1>11. \A i \in 1 .. N : q[i].shndx \in Kept =>
          \/ p[i].shndx = "common" /\ q[i].shndx = "bss"
          \/ p[i].shndx # "common" /\ q[i] = p[i] /\ p[i].shndx \in Kept
  BY <1>6
<1>12. PICK f : f = [top EXCEPT !.bss = o[N]]
  OBVIOUS
<1>13. f \in [Kept -> Nat] /\ f.bss = o[N] /\ f.text = top.text /\ f.data = top.data
  BY <1>9, <1>12 DEF Kept
<1>14. ASSUME NEW i \in 1 .. N, q[i].shndx \in Kept
       PROVE  q[i].value + Room(q[i], x) <= f[q[i].shndx]
  <2>1. CASE p[i].shndx = "common"
    <3>1. PICK a \in Nat, b \in Nat, c \in Nat :
             a = q[i].value + Room(q[i], x) /\ b = o[i] /\ c = o[N] /\ a <= b /\ b <= c
      BY <2>1, <1>9, <1>10
    <3>2. a <= c
      BY <3>1
    <3>3. f[q[i].shndx] = c
      BY <2>1, <3>1, <1>10, <1>13
    <3> QED BY <3>1, <3>2, <3>3
  <2>2. CASE p[i].shndx # "common"
    <3>1. q[i] = p[i] /\ p[i].shndx \in Kept
      BY <2>2, <1>11, <1>14
    <3>2. /\ p[i].value + Room(p[i], x) <= top[p[i].shndx]
          /\ p[i].value + Room(p[i], x) \in Nat
      BY <3>1, <1>1, <1>r DEF Placed
    <3>3. CASE p[i].shndx = "bss"
      BY <3>1, <3>2, <3>3, <1>2, <1>9, <1>13
    <3>4. CASE p[i].shndx # "bss"
      <4>1. f[p[i].shndx] = top[p[i].shndx]
        BY <3>1, <3>4, <1>13 DEF Kept
      <4> QED BY <3>1, <3>2, <4>1
    <3> QED BY <3>3, <3>4
  <2> QED BY <2>1, <2>2
<1>15. ASSUME NEW i \in 1 .. N, NEW j \in 1 .. N, i # j,
              q[i].shndx = q[j].shndx, q[i].shndx \in Kept
       PROVE  Apart(q[i], q[j], x)
  <2>1. CASE p[i].shndx = "common" /\ p[j].shndx = "common"
    <3>1. ASSUME NEW a \in 1 .. N, NEW b \in 1 .. N, a < b, p[a].shndx = "common",
                 p[b].shndx = "common"
          PROVE  q[a].value + Room(q[a], x) <= q[b].value
      <4>1. a \in 0 .. b - 1 /\ b - 1 \in 0 .. N
        BY <3>1, <1>0
      <4>2. o[a] <= o[b - 1]
        BY <4>1, <1>3
      <4>3. o[b - 1] \in Nat
        BY <4>1, <1>3
      <4>4. q[b].value = o[b - 1]
        BY <3>1, <1>10
      <4>5. /\ q[a].value \in Nat /\ Room(q[a], x) \in Nat /\ o[a] \in Nat
            /\ q[a].value + Room(q[a], x) <= o[a]
        BY <3>1, <1>10
      <4>6. \A u, v, w, z \in Nat : u + v <= w /\ w <= z => u + v <= z
        OBVIOUS
      <4> QED BY <4>2, <4>3, <4>4, <4>5, <4>6
    <3>2. i < j \/ j < i
      BY <1>15
    <3> QED BY <3>1, <3>2, <2>1 DEF Apart
  <2>2. ASSUME NEW a \in 1 .. N, NEW b \in 1 .. N, p[a].shndx = "common", p[b].shndx # "common",
               q[a].shndx = q[b].shndx
        PROVE  q[b].value + Room(q[b], x) <= q[a].value
    <3>1. q[a].shndx = "bss" /\ top.bss <= q[a].value /\ q[a].value \in Nat
      BY <2>2, <1>10
    <3>2. q[b] = p[b] /\ p[b].shndx = "bss" /\ p[b].shndx \in Kept
      BY <3>1, <2>2, <1>6 DEF Kept
    <3>3. p[b].value + Room(p[b], x) <= top[p[b].shndx]
      BY <3>2 DEF Placed
    <3>4. top[p[b].shndx] = top.bss
      BY <3>2
    <3>5. PICK v \in Nat, z \in Nat : v = p[b].value /\ z = Room(p[b], x)
      BY <1>1, <1>r
    <3>6. PICK m \in Nat, w \in Nat : m = top.bss /\ w = q[a].value
      BY <3>1, <1>2
    <3>7. v + z <= m /\ m <= w
      BY <3>1, <3>3, <3>4, <3>5, <3>6
    <3>8. v + z <= w
      BY <3>7
    <3> QED BY <3>2, <3>5, <3>6, <3>8
  <2>3. CASE p[i].shndx = "common" /\ p[j].shndx # "common"
    BY <2>2, <2>3, <1>15 DEF Apart
  <2>4. CASE p[i].shndx # "common" /\ p[j].shndx = "common"
    BY <2>2, <2>4, <1>15 DEF Apart
  <2>5. CASE p[i].shndx # "common" /\ p[j].shndx # "common"
    <3>1. q[i] = p[i] /\ q[j] = p[j]
      BY <2>5, <1>6
    <3> QED BY <3>1, <1>15 DEF Placed
  <2> QED BY <2>1, <2>3, <2>4, <2>5
<1>16. Placed(q, f, x)
  BY <1>7, <1>14, <1>15 DEF Placed
<1> QED BY <1>6, <1>7, <1>9, <1>12, <1>16

(* A symbol for the end of a section.                                      *)
LEMMA EndIs ==
    ASSUME NEW t, Table(t), NEW n \in Linker, NEW s \in Kept, NEW e \in [Kept -> Nat],
           NEW x, Placed(t.symtab, e, x), NEW value, value = e[s]
    PROVE  LET u == add_elf_sym(t, Symbol(n, "global", s, value, 0)).table
           IN  /\ Table(u) /\ (Good(t) => Good(u)) /\ Placed(u.symtab, e, x)
               /\ Len(t.symtab) <= Len(u.symtab)
<1>1. PICK y : y = Symbol(n, "global", s, value, 0)
  OBVIOUS
<1>2. y \in Entry /\ y.name \in Named /\ y.shndx = s /\ y.value = e[s] /\ y.size = 0 /\ e[s] \in Nat
  BY <1>1 DEF Symbol, Entry, Named, Kept
<1>3. PICK r : r = add_elf_sym(t, y)
  OBVIOUS
<1>4. /\ Table(r.table) /\ (Good(t) => Good(r.table))
      /\ Alters(t.symtab, r.table.symtab, r.i, s, e[s], 0)
  BY <1>2, <1>3, AddIs
<1>5. t.symtab \in Seq(Entry) /\ r.table.symtab \in Seq(Entry)
  BY <1>4, TableParts
<1>6. e[s] + 0 <= e[s] /\ \A k \in Kept : e[k] <= e[k]
  BY <1>2
<1>7. Placed(r.table.symtab, e, x)
  BY <1>4, <1>5, <1>6, PlacedAlter
<1>8. Len(t.symtab) <= Len(r.table.symtab)
  BY <1>4 DEF Alters
<1> QED BY <1>1, <1>3, <1>4, <1>7, <1>8

(* The linker's symbols lie at the ends of the sections.                   *)
LEMMA LinkerIs ==
    ASSUME NEW t, Table(t), top \in [Kept -> Nat], NEW bss \in Nat, NEW x,
           Placed(t.symtab, [top EXCEPT !.bss = bss], x)
    PROVE  LET u == tcc_add_linker_symbols(t, bss)
           IN  /\ Table(u) /\ (Good(t) => Good(u)) /\ Placed(u.symtab, [top EXCEPT !.bss = bss], x)
               /\ Len(t.symtab) <= Len(u.symtab)
<1>1. PICK e : e = [top EXCEPT !.bss = bss]
  OBVIOUS
<1>2. e \in [Kept -> Nat] /\ e["text"] = top.text /\ e["data"] = top.data /\ e["bss"] = bss
  BY <1>1 DEF Kept
<1>3. "text" \in Kept /\ "data" \in Kept /\ "bss" \in Kept
      /\ "_etext" \in Linker /\ "_edata" \in Linker /\ "_end" \in Linker
  BY DEF Kept, Linker
<1>4. PICK t1 : t1 = add_elf_sym(t, Symbol("_etext", "global", "text", top.text, 0)).table
  OBVIOUS
<1>5. PICK t2 : t2 = add_elf_sym(t1, Symbol("_edata", "global", "data", top.data, 0)).table
  OBVIOUS
<1>6. PICK t3 : t3 = add_elf_sym(t2, Symbol("_end", "global", "bss", bss, 0)).table
  OBVIOUS
<1>7. t3 = tcc_add_linker_symbols(t, bss)
  BY <1>4, <1>5, <1>6 DEF tcc_add_linker_symbols
<1>8. /\ Table(t1) /\ (Good(t) => Good(t1)) /\ Placed(t1.symtab, e, x)
      /\ Len(t.symtab) <= Len(t1.symtab)
  BY <1>1, <1>2, <1>3, <1>4, EndIs
<1>9. /\ Table(t2) /\ (Good(t1) => Good(t2)) /\ Placed(t2.symtab, e, x)
      /\ Len(t1.symtab) <= Len(t2.symtab)
  BY <1>2, <1>3, <1>5, <1>8, EndIs
<1>10. /\ Table(t3) /\ (Good(t2) => Good(t3)) /\ Placed(t3.symtab, e, x)
       /\ Len(t2.symtab) <= Len(t3.symtab)
  BY <1>2, <1>3, <1>6, <1>9, EndIs
<1>11. Len(t.symtab) <= Len(t3.symtab)
  <2>1. Len(t.symtab) \in Nat /\ Len(t1.symtab) \in Nat
    BY <1>8, TableParts
  <2>2. Len(t2.symtab) \in Nat /\ Len(t3.symtab) \in Nat
    BY <1>9, <1>10, TableParts
  <2>3. /\ Len(t.symtab) <= Len(t1.symtab) /\ Len(t1.symtab) <= Len(t2.symtab)
        /\ Len(t2.symtab) <= Len(t3.symtab)
    BY <1>8, <1>9, <1>10
  <2>4. \A a, b, c, d \in Nat : a <= b /\ b <= c /\ c <= d => a <= d
    OBVIOUS
  <2> QED BY <2>1, <2>2, <2>3, <2>4
<1> QED BY <1>1, <1>7, <1>8, <1>9, <1>10, <1>11

-----------------------------------------------------------------------------
(* The new places of the symbols are a permutation of the old ones.        *)
NewPlace(p, i) ==
    LET locals == DOMAIN p \ Global(p)
    IN  IF i \in locals THEN Cardinality({j \in locals : j <= i})
        ELSE Cardinality(locals) + Cardinality({j \in Global(p) : j <= i})

(* sort_syms gives each symbol a place of its own.                         *)
LEMMA Permutes ==
    ASSUME NEW p, NEW N \in Nat, DOMAIN p = 1 .. N
    PROVE  /\ \A i \in 1 .. N : NewPlace(p, i) \in 1 .. N
           /\ \A i, j \in 1 .. N : NewPlace(p, i) = NewPlace(p, j) => i = j
           /\ \A k \in 1 .. N : \E i \in 1 .. N : NewPlace(p, i) = k
<1> DEFINE G == Global(p)
           L == (1 .. N) \ Global(p)
<1>1. G \in SUBSET (1 .. N) /\ L \in SUBSET (1 .. N)
  BY DEF Global
<1>2. PICK a \in Nat, b \in Nat : a = Cardinality(L) /\ b = Cardinality(G)
  BY <1>1, CountUpto
<1>3. a + b = N
  <2>1. IsFiniteSet(1 .. N) /\ Cardinality(1 .. N) = N
    BY FS_Interval
  <2>2. Cardinality((1 .. N) \ G) = Cardinality(1 .. N) - Cardinality((1 .. N) \intersect G)
    BY <2>1, FS_Difference
  <2>3. (1 .. N) \intersect G = G
    BY <1>1
  <2>4. a = N - b
    BY <2>1, <2>2, <2>3, <1>2
  <2> QED BY <2>4
<1>4. PICK F : F = [i \in 1 .. N |-> NewPlace(p, i)]
  OBVIOUS
<1>5. /\ \A i \in L : F[i] = Cardinality(Upto(L, i)) /\ i \in 1 .. N
      /\ \A i \in G : F[i] = a + Cardinality(Upto(G, i)) /\ i \in 1 .. N
      /\ \A i \in 1 .. N : i \in L \/ i \in G
  BY <1>1, <1>2, <1>4 DEF NewPlace, Upto
<1> HIDE DEF L, G
<1>6. /\ \A i \in L : Cardinality(Upto(L, i)) \in 1 .. a
      /\ \A i, j \in L : i < j => Cardinality(Upto(L, i)) < Cardinality(Upto(L, j))
  BY <1>1, <1>2, CountUpto
<1>7. /\ \A i \in G : Cardinality(Upto(G, i)) \in 1 .. b
      /\ \A i, j \in G : i < j => Cardinality(Upto(G, i)) < Cardinality(Upto(G, j))
  BY <1>1, <1>2, CountUpto
<1>8. \A i \in L : F[i] \in 1 .. a
  BY <1>5, <1>6
<1>9. \A i \in G : F[i] \in a + 1 .. N
  <2> TAKE i \in G
  <2>1. PICK c \in 1 .. b : c = Cardinality(Upto(G, i))
    BY <1>7
  <2>2. F[i] = a + c
    BY <2>1, <1>5
  <2> QED BY <2>2, <1>3
<1>10. \A i \in 1 .. N : F[i] \in 1 .. N
  <2>1. 1 .. a \subseteq 1 .. N /\ a + 1 .. N \subseteq 1 .. N
    BY <1>3
  <2> QED BY <2>1, <1>5, <1>8, <1>9
<1>11. ASSUME NEW i \in 1 .. N, NEW j \in 1 .. N, i < j PROVE F[i] # F[j]
  <2>1. CASE i \in L /\ j \in L
    <3>1. PICK c \in 1 .. a, d \in 1 .. a : c = F[i] /\ d = F[j]
      BY <2>1, <1>8
    <3>2. c < d
      BY <3>1, <2>1, <1>5, <1>6, <1>11
    <3> QED BY <3>1, <3>2
  <2>2. CASE i \in G /\ j \in G
    <3>1. PICK c \in 1 .. b, d \in 1 .. b : c = Cardinality(Upto(G, i)) /\ d = Cardinality(Upto(G, j))
      BY <2>2, <1>7
    <3>2. c < d /\ F[i] = a + c /\ F[j] = a + d
      BY <3>1, <2>2, <1>5, <1>7, <1>11
    <3> QED BY <3>2
  <2>3. \A c \in 1 .. a, d \in a + 1 .. N : c # d
    OBVIOUS
  <2>4. CASE i \in L /\ j \in G
    BY <2>3, <2>4, <1>8, <1>9
  <2>5. CASE i \in G /\ j \in L
    BY <2>3, <2>5, <1>8, <1>9
  <2> QED BY <2>1, <2>2, <2>4, <2>5, <1>5
<1>12. \A i, j \in 1 .. N : F[i] = F[j] => i = j
  <2>1. \A i, j \in 1 .. N : i < j \/ j < i \/ i = j
    OBVIOUS
  <2> QED BY <2>1, <1>11
<1>13. F \in [1 .. N -> 1 .. N]
  BY <1>4, <1>10
<1>14. F \in Injection(1 .. N, 1 .. N)
  BY <1>12, <1>13 DEF Injection, IsInjective
<1>15. F \in Surjection(1 .. N, 1 .. N)
  <2>1. IsFiniteSet(1 .. N)
    BY FS_Interval
  <2> QED BY <2>1, <1>14, FS_Injection
<1>16. \A k \in 1 .. N : \E i \in 1 .. N : F[i] = k
  BY <1>15 DEF Surjection
<1> QED BY <1>4, <1>10, <1>12, <1>16

(* sort_syms puts the symbols in another order, and the relocations still  *)
(* have one.                                                               *)
LEMMA SortIs ==
    ASSUME Table(table), sort_syms
    PROVE  /\ \E g \in [1 .. Len(table.symtab) -> 1 .. Len(table.symtab)] :
                 /\ \A k, m \in 1 .. Len(table.symtab) : g[k] = g[m] => k = m
                 /\ table' = [table EXCEPT !.symtab =
                                 [k \in 1 .. Len(table.symtab) |-> table.symtab[g[k]]]]
           /\ refs' = [r \in DOMAIN refs |-> refs'[r]]
           /\ \A r \in DOMAIN refs : refs[r].sym \in 1 .. Len(table.symtab) =>
                 \E i \in 1 .. Len(table.symtab) : refs'[r] = [refs[r] EXCEPT !.sym = i]
<1> DEFINE p == table.symtab
<1>0. PICK N \in Nat : N = Len(p) /\ DOMAIN p = 1 .. N
  BY TableParts
<1>1. /\ \A i \in 1 .. N : NewPlace(p, i) \in 1 .. N
      /\ \A k \in 1 .. N : \E i \in 1 .. N : NewPlace(p, i) = k
  BY <1>0, Permutes
<1>2. PICK g : g = [k \in 1 .. N |-> CHOOSE i \in 1 .. N : NewPlace(p, i) = k]
  OBVIOUS
<1>3. \A k \in 1 .. N : g[k] \in 1 .. N /\ NewPlace(p, g[k]) = k
  BY <1>1, <1>2
<1>4. g \in [1 .. N -> 1 .. N] /\ \A k, m \in 1 .. N : g[k] = g[m] => k = m
  BY <1>2, <1>3
<1>5. /\ table' = [table EXCEPT !.symtab =
                     [k \in 1 .. N |-> p[CHOOSE i \in 1 .. N : NewPlace(p, i) = k]]]
      /\ refs' = [r \in DOMAIN refs |-> [refs[r] EXCEPT !.sym = NewPlace(p, refs[r].sym)]]
  BY <1>0 DEF sort_syms, NewPlace
<1>6. [k \in 1 .. N |-> p[CHOOSE i \in 1 .. N : NewPlace(p, i) = k]] = [k \in 1 .. N |-> p[g[k]]]
  BY <1>2
<1>7. \A r \in DOMAIN refs : refs'[r] = [refs[r] EXCEPT !.sym = NewPlace(p, refs[r].sym)]
  BY <1>5
<1>8. refs' = [r \in DOMAIN refs |-> refs'[r]]
  <2>1. refs' = [r \in DOMAIN refs |-> [refs[r] EXCEPT !.sym = NewPlace(p, refs[r].sym)]]
    BY <1>5
  <2>2. [r \in DOMAIN refs |-> [refs[r] EXCEPT !.sym = NewPlace(p, refs[r].sym)]]
          = [r \in DOMAIN refs |-> refs'[r]]
    BY <1>7
  <2> QED BY <2>1, <2>2
<1>9. table' = [table EXCEPT !.symtab = [k \in 1 .. Len(p) |-> p[g[k]]]]
  BY <1>0, <1>5, <1>6
<1>10. g \in [1 .. Len(p) -> 1 .. Len(p)] /\ \A k, m \in 1 .. Len(p) : g[k] = g[m] => k = m
  BY <1>0, <1>4
<1>11. \A r \in DOMAIN refs : refs[r].sym \in 1 .. Len(p) =>
          \E i \in 1 .. Len(p) : refs'[r] = [refs[r] EXCEPT !.sym = i]
  BY <1>0, <1>1, <1>7
<1> QED BY <1>8, <1>9, <1>10, <1>11

-----------------------------------------------------------------------------
(* The invariant.  Laid: the table is one, and things have their storage   *)
(* to themselves, but for the size of a function that was refused.         *)
Sym == [c : Nat, static : BOOLEAN, extern : BOOLEAN, own : Int]
Ref == [sym : Nat, name : Names, own : Int]

Refused == complaints \intersect Fn
Laid == Table(table) /\ top \in [Kept -> Nat] /\ Placed(table.symtab, top, Refused)

(* What a unit, and the relocations, hold are symbols.                     *)
Units ==
    /\ syms \in [Names -> Sym]
    /\ \A n \in Names : syms[n].c \in 0 .. Len(table.symtab) /\ (Declared(n) => compiling)
    /\ unit \in 0 .. MaxUnits /\ compiling \in BOOLEAN /\ complaints \subseteq Names
    /\ compiling => ended = "no"
Called == \A n \in Names : syms[n].c # 0 => table.symtab[syms[n].c].name = n
Refs ==
    /\ refs \in Seq(Ref)
    /\ \A r \in 1 .. Len(refs) : refs[r].sym \in 1 .. Len(table.symtab)

(* Until an object is written the hash table is that of the symbols; then  *)
(* it is of the order they had, and with "output" avoided it is not used.  *)
Fresh == "output" \in Avoided /\ ended # "object" => Good(table)

(* The function whose body is compiled has a symbol, at the end of .text   *)
(* unless it was refused.                                                  *)
Open ==
    /\ func \subseteq Fn /\ \A n, m \in func : n = m
    /\ \A n \in func :
          /\ compiling /\ syms[n].c # 0
          /\ n \in complaints \/ Has(table.symtab[syms[n].c], "text", top.text)

IInv == Laid /\ Units /\ Called /\ Refs /\ Fresh /\ Open

(* The first table.                                                        *)
LEMMA InitInv == Init => IInv
<1> SUFFICES ASSUME Init PROVE IInv
  OBVIOUS
<1>1. /\ table.symtab = <<>> /\ table.chain = <<>> /\ table.buckets = [h \in {0} |-> 0]
      /\ table = [symtab |-> table.symtab, buckets |-> table.buckets, chain |-> table.chain]
  BY DEF Init
<1>2. {0} = 0 .. 1 - 1 /\ 1 \in Nat \ {0} /\ Len(table.symtab) = 0 /\ Len(table.chain) = 0
  BY <1>1
<1>3. table.symtab \in Seq(Entry) /\ table.chain \in Seq(Nat)
  BY <1>1
<1>4. table.buckets \in [0 .. 1 - 1 -> Nat] /\ \A h \in DOMAIN table.buckets : table.buckets[h] = 0
  BY <1>1, <1>2
<1>5. table \in Tables(1)
  BY <1>1, <1>3, <1>4 DEF Tables
<1>6. \A i \in 1 .. 0 : FALSE
  OBVIOUS
<1>7. Table(table)
  BY <1>2, <1>4, <1>5, <1>6 DEF Table
<1>8. Nb(table) = 1
  <2>1. Nb(table) \in Nat \ {0} /\ DOMAIN table.buckets = 0 .. Nb(table) - 1
    BY <1>7, TableParts
  <2>2. DOMAIN table.buckets = {0}
    BY <1>1
  <2>3. \A b \in Nat \ {0} : 0 .. b - 1 = {0} => b = 1
    <3> SUFFICES ASSUME NEW b \in Nat \ {0}, 0 .. b - 1 = {0} PROVE b = 1
      OBVIOUS
    <3>1. b - 1 \in 0 .. b - 1
      OBVIOUS
    <3>2. b - 1 = 0
      BY <3>1
    <3> QED BY <3>2
  <2> QED BY <2>1, <2>2, <2>3
<1>9. Good(table)
  <2>1. \A h \in 0 .. Nb(table) - 1 : h \in DOMAIN table.buckets
    BY <1>4, <1>8
  <2>2. \A h \in 0 .. Nb(table) - 1 : IsLast(table, 0, h, table.buckets[h])
    BY <2>1, <1>4 DEF IsLast
  <2> QED BY <2>2, <1>2, <1>6 DEF Good, Hashed, Once
<1>10. Laid
  <2>1. Placed(table.symtab, top, Refused)
    BY <1>2, <1>6 DEF Placed
  <2> QED BY <1>7, <2>1 DEF Laid, Kept, Init
<1>11. Units
  <2>1. syms = [n \in Names |-> NoSym] /\ NoSym \in Sym /\ NoSym.c = 0
    BY DEF Init, NoSym, Sym
  <2>2. compiling \in BOOLEAN /\ (compiling => ended = "no")
    BY Zenon DEF Init
  <2>3. \A n \in Names : syms[n] = NoSym
    BY <2>1
  <2>4. \A n \in Names : syms[n].c \in 0 .. Len(table.symtab)
    BY <2>1, <2>3, <1>2
  <2>5. \A n \in Names : Declared(n) => compiling
    BY <2>3 DEF Declared
  <2>6. syms \in [Names -> Sym]
    BY <2>1
  <2>7. unit \in 0 .. MaxUnits /\ complaints \subseteq Names
    BY ElfAssumption DEF Init
  <2> QED BY <2>2, <2>4, <2>5, <2>6, <2>7 DEF Units
<1>12. Refs
  BY <1>2 DEF Init, Refs
<1>13. Called /\ Open
  BY DEF Init, NoSym, Called, Open
<1> QED BY <1>9, <1>10, <1>11, <1>12, <1>13 DEF IInv, Fresh

(* What a unit and the relocations hold stay symbols when there are more.  *)
LEMMA Grown ==
    ASSUME Units, Refs, Table(table), Table(table'), Len(table.symtab) <= Len(table'.symtab)
    PROVE  /\ \A i : i \in 0 .. Len(table.symtab) => i \in 0 .. Len(table'.symtab)
           /\ UNCHANGED refs => Refs'
<1>1. PICK a \in Nat : a = Len(table.symtab)
  BY TableParts
<1>2. PICK b \in Nat : b = Len(table'.symtab)
  BY TableParts
<1>3. a <= b
  BY <1>1, <1>2
<1>4. \A i : i \in 0 .. a => i \in 0 .. b
  BY <1>3
<1>5. \A i : i \in 1 .. a => i \in 1 .. b
  BY <1>3
<1>6. UNCHANGED refs => Refs'
  BY <1>1, <1>2, <1>5 DEF Refs
<1> QED BY <1>1, <1>2, <1>4, <1>6

(* What is compiled is compiled before an object is written.               *)
LEMMA Begun == ASSUME IInv, compiling \/ Usable, "output" \in Avoided PROVE Good(table)
BY DEF IInv, Units, Fresh, Usable

(* The symbol of a name in its Sym, when it has another one.               *)
LEMMA CalledStep ==
    ASSUME Called, Units, NEW n \in Names, NEW i, NEW shndx, NEW value, NEW size,
           Alters(table.symtab, table'.symtab, i, shndx, value, size),
           table'.symtab[i].name = n, syms'[n].c = i,
           \A m \in Names : m # n => syms'[m].c = syms[m].c
    PROVE  Called'
<1>1. ASSUME NEW m \in Names, m # n, syms'[m].c # 0
      PROVE  table'.symtab[syms'[m].c].name = m
  <2>1. PICK c : c = syms[m].c
    OBVIOUS
  <2>2. c \in 1 .. Len(table.symtab) /\ table.symtab[c].name = m /\ syms'[m].c = c
    BY <1>1, <2>1 DEF Called, Units
  <2>3. c \in 1 .. Len(table'.symtab)
    BY <2>2 DEF Alters
  <2>4. CASE c = i
    BY <2>2, <2>4 DEF Alters
  <2>5. CASE c # i
    BY <2>2, <2>3, <2>5 DEF Alters
  <2> QED BY <2>2, <2>4, <2>5, <1>1
<1> QED BY <1>1 DEF Called

(* Outside a unit no name has one.                                         *)
LEMMA CalledNone ==
    ASSUME \A n \in Names : syms'[n] = NoSym, func' = {}
    PROVE  Called' /\ Open'
BY DEF Called, Open, NoSym

(* And before it and after it no function has a body.                      *)
LEMMA BodyClosed == ASSUME IInv, ~compiling PROVE func = {} /\ \A n \in Names : syms[n] = NoSym
BY DEF IInv, Open, Units, Declared

(* A definition: the Sym of the name holds its symbol.                     *)
LEMMA DefinedStep ==
    ASSUME IInv, NEW n \in Names, NEW s \in Sym, NEW r, NEW shndx, NEW value,
           Table(r.table), Good(table) => Good(r.table),
           Len(table.symtab) <= Len(r.table.symtab), r.i \in 1 .. Len(r.table.symtab),
           NEW a, NEW b, NEW c, Alters(table.symtab, r.table.symtab, r.i, a, b, c),
           r.table.symtab[r.i].name = n,
           Defined(n, s, r, shndx, value)
    PROVE  /\ Table(table') /\ Units' /\ Called' /\ Refs' /\ Fresh'
           /\ func = {} /\ Refused \subseteq Refused' /\ syms'[n].c = r.i
<1>1. /\ compiling /\ table' = r.table /\ UNCHANGED <<refs, unit, compiling, ended>>
      /\ syms' = [syms EXCEPT ![n] = [s EXCEPT !.c = r.i, !.extern = FALSE]]
      /\ complaints' \subseteq complaints \union {n}
  BY DEF Defined
<1>2. Table(table) /\ Units /\ Refs
  BY DEF IInv, Laid
<1>3. /\ \A i : i \in 0 .. Len(table.symtab) => i \in 0 .. Len(table'.symtab)
      /\ Refs'
  BY <1>1, <1>2, Grown
<1>4. r.i \in Nat /\ r.i \in 0 .. Len(table'.symtab)
  BY <1>1
<1>5. PICK e : e = [s EXCEPT !.c = r.i, !.extern = FALSE]
  OBVIOUS
<1>6. e \in Sym /\ e.c = r.i
  BY <1>4, <1>5 DEF Sym
<1>7. /\ syms' \in [Names -> Sym] /\ \A m \in Names : syms'[m] = IF m = n THEN e ELSE syms[m]
  BY <1>1, <1>2, <1>5, <1>6 DEF Units
<1>8. \A m \in Names : syms'[m].c \in 0 .. Len(table'.symtab)
  BY <1>2, <1>3, <1>4, <1>6, <1>7 DEF Units
<1>9. Units'
  BY <1>1, <1>2, <1>7, <1>8 DEF Units, Declared
<1>10. Fresh'
  BY <1>1, Begun DEF Fresh
<1>11. Called'
  BY <1>1, <1>2, <1>6, <1>7, CalledStep DEF IInv
<1>12. func = {} /\ Refused \subseteq Refused'
  BY DEF Defined, Refused
<1> QED BY <1>1, <1>3, <1>6, <1>7, <1>9, <1>10, <1>11, <1>12

-----------------------------------------------------------------------------
(* One step of each kind.                                                  *)

Commoned(t, i) ==
    [t EXCEPT !.symtab = [t.symtab EXCEPT ![i] = [t.symtab[i] EXCEPT !.shndx = "common"]]]

(* A common symbol, in place of one that has no section.                   *)
LEMMA CommonSym ==
    ASSUME NEW t, Table(t), NEW i \in 1 .. Len(t.symtab), NEW e \in [Kept -> Nat],
           NEW y, Placed(t.symtab, e, y),
           NEW u, u = Commoned(t, i)
    PROVE  /\ Table(u) /\ (Good(t) => Good(u)) /\ Placed(u.symtab, e, y)
           /\ Len(u.symtab) = Len(t.symtab)
<1> DEFINE p == t.symtab
<1>1. p \in Seq(Entry) /\ Len(p) \in Nat /\ DOMAIN p = 1 .. Len(p) /\ p[i] \in Entry
  BY TableParts
<1>2. PICK x : x = [p[i] EXCEPT !.shndx = "common"]
  OBVIOUS
<1>3. /\ x \in Entry /\ x.name = p[i].name /\ x.bind = p[i].bind /\ x.shndx = "common"
      /\ x.value = p[i].value /\ x.size = p[i].size
  BY <1>1, <1>2 DEF Entry
<1>4. PICK q : q = [p EXCEPT ![i] = x]
  OBVIOUS
<1>5. q \in Seq(Entry) /\ Len(q) = Len(p) /\ q[i] = x /\ \A j \in 1 .. Len(p) : j # i => q[j] = p[j]
  BY <1>1, <1>3, <1>4
<1>6. u = [t EXCEPT !.symtab = q]
  BY <1>2, <1>4 DEF Commoned
<1>7. /\ Table(u) /\ u.symtab = q
      /\ Good(t) /\ (\A j \in 1 .. Len(q) : q[j].name = p[j].name
                                          /\ q[j].bind = p[j].bind) => Good(u)
  <2>1. q \in Seq(Entry) /\ Len(q) = Len(t.symtab)
    BY <1>5
  <2>2. PICK v : v = [t EXCEPT !.symtab = q]
    OBVIOUS
  <2>3. /\ Table(v) /\ v.symtab = q
        /\ Good(t) /\ (\A j \in 1 .. Len(q) : q[j].name = t.symtab[j].name
                                            /\ q[j].bind = t.symtab[j].bind) => Good(v)
    BY <2>1, <2>2, RewriteIs
  <2> QED BY <2>2, <2>3, <1>6
<1>8. \A j \in 1 .. Len(q) : q[j].name = p[j].name /\ q[j].bind = p[j].bind
  BY <1>3, <1>5
<1>9. Good(t) => Good(u)
  BY <1>7, <1>8
<1>10. Alters(p, q, i, "common", x.value, x.size)
  BY <1>1, <1>3, <1>5 DEF Alters
<1>11. \A s \in Kept : e[s] \in Nat /\ e[s] <= e[s]
  OBVIOUS
<1>12. Placed(q, e, y)
  BY <1>1, <1>5, <1>10, <1>11, PlacedAlter, SMTT(30) DEF Kept
<1> QED BY <1>5, <1>7, <1>8, <1>9, <1>12

(* A source begins.                                                        *)
LEMMA CompileStep == ASSUME IInv, tcc_compile PROVE IInv'
<1>1. /\ Usable /\ unit < MaxUnits /\ UNCHANGED <<refs, top, complaints>>
      /\ syms' = [n \in Names |-> NoSym] /\ unit' = unit + 1 /\ compiling' = TRUE /\ ended' = "no"
  BY DEF tcc_compile
<1>2. Table(table) /\ Units /\ Refs /\ top \in [Kept -> Nat] /\ Placed(table.symtab, top, Refused)
  BY DEF IInv, Laid
<1>3. PICK x : x = Symbol("file", "local", "abs", 0, 0)
  OBVIOUS
<1>4. x \in Entry /\ x.bind = "local" /\ x.shndx = "abs" /\ x.value = 0 /\ x.size = 0
  BY <1>3 DEF Symbol, Entry
<1>5. table' = put_elf_sym(table, x)
  BY <1>3 DEF tcc_compile
<1>6. Table(table') /\ table'.symtab = Append(table.symtab, x)
  BY <1>2, <1>4, <1>5, PutIs
<1>7. table.symtab \in Seq(Entry) /\ Len(table.symtab) \in Nat
  BY <1>2, TableParts
<1>8. PICK p \in Seq(Entry) : p = table.symtab
  BY <1>7
<1>9. PICK q \in Seq(Entry) : q = table'.symtab
  BY <1>6, TableParts
<1>10. Alters(p, q, Len(p) + 1, "abs", 0, 0)
  <2>1. q = Append(p, x) /\ Len(p) \in Nat
    BY <1>6, <1>7, <1>8, <1>9
  <2>2. Len(q) = Len(p) + 1 /\ q[Len(p) + 1] = x /\ \A j \in 1 .. Len(p) : q[j] = p[j]
    BY <2>1, <1>4
  <2>3. \A j \in 1 .. Len(p) + 1 : j # Len(p) + 1 => j \in 1 .. Len(p)
    BY <2>1
  <2> QED BY <2>1, <2>2, <2>3, <1>4 DEF Alters
<1>11. \A s \in Kept : top[s] \in Nat /\ top[s] <= top[s]
  BY <1>2
<1>12. Placed(q, top, Refused)
  BY <1>2, <1>8, <1>10, <1>11, PlacedAlter DEF Kept
<1>13. Laid'
  BY <1>1, <1>2, <1>6, <1>9, <1>12 DEF Laid, Refused
<1>14. Len(table.symtab) <= Len(table'.symtab)
  BY <1>6, <1>7, <1>4
<1>15. Refs'
  BY <1>1, <1>2, <1>6, <1>14, Grown
<1>16. Units'
  <2>1. NoSym \in Sym /\ NoSym.c = 0 /\ \A n \in Names : syms'[n] = NoSym
    BY <1>1 DEF NoSym, Sym
  <2>2. syms' \in [Names -> Sym]
    BY <2>1, <1>1
  <2>3. Len(table'.symtab) \in Nat
    BY <1>6, TableParts
  <2>4. \A n \in Names : syms'[n].c \in 0 .. Len(table'.symtab)
    BY <2>1, <2>3
  <2>5. unit' \in 0 .. MaxUnits
    BY <1>1, <1>2, ElfAssumption DEF Units
  <2> QED BY <2>2, <2>4, <2>5, <1>1, <1>2 DEF Units, Declared
<1>17. Fresh'
  <2>1. ASSUME "output" \in Avoided PROVE Good(table')
    <3>1. Good(table)
      BY <2>1, <1>1, Begun
    <3> QED BY <3>1, <1>2, <1>4, <1>5, PutGood
  <2> QED BY <2>1 DEF Fresh
<1>18. Called' /\ Open'
  <2>1. ~compiling /\ func' = func /\ \A n \in Names : syms'[n] = NoSym
    BY <1>1 DEF tcc_compile
  <2> QED BY <2>1, BodyClosed, CalledNone
<1> QED BY <1>13, <1>15, <1>16, <1>17, <1>18 DEF IInv

(* The end of one: the table stays.                                        *)
LEMMA EndStep == ASSUME IInv, end_compile PROVE IInv'
<1>1. /\ compiling' = FALSE /\ syms' = [n \in Names |-> NoSym] /\ func' = {}
      /\ UNCHANGED <<table, refs, top, unit, ended, complaints>>
  BY DEF end_compile
<1>2. Laid' /\ Refs' /\ Fresh'
  BY <1>1 DEF IInv, Laid, Refs, Fresh, Refused
<1>3. Units'
  <2>1. NoSym \in Sym /\ NoSym.c = 0 /\ \A n \in Names : syms'[n] = NoSym
    BY <1>1 DEF NoSym, Sym
  <2>2. Len(table.symtab) \in Nat
    BY TableParts DEF IInv, Laid
  <2>3. syms' \in [Names -> Sym]
    BY <2>1, <1>1
  <2>4. \A n \in Names : syms'[n].c \in 0 .. Len(table'.symtab)
    BY <2>1, <2>2, <1>1
  <2>5. \A n \in Names : ~Declared(n)'
    BY <2>1 DEF Declared
  <2>6. compiling' \in BOOLEAN /\ ~compiling'
    BY <1>1
  <2>7. unit' \in 0 .. MaxUnits /\ complaints' \subseteq Names
    BY <1>1 DEF IInv, Units
  <2> QED BY <2>3, <2>4, <2>5, <2>6, <2>7 DEF Units
<1>4. Called' /\ Open'
  BY <1>1, CalledNone
<1> QED BY <1>2, <1>3, <1>4 DEF IInv

(* A unit that is stopped at the end of a body: .text has grown.           *)
LEMMA LabelStep ==
    ASSUME IInv, NEW size \in CodeSize, label_undefined(size)
    PROVE  IInv'
<1>1. /\ compiling' = FALSE /\ syms' = [n \in Names |-> NoSym] /\ func' = {}
      /\ top' = [top EXCEPT !.text = @ + size]
      /\ UNCHANGED <<table, refs, unit, ended, complaints>>
  BY DEF label_undefined
<1>2. Table(table) /\ top \in [Kept -> Nat] /\ Placed(table.symtab, top, Refused)
  BY DEF IInv, Laid
<1>3. PICK f : f = [top EXCEPT !.text = @ + size]
  OBVIOUS
<1>4. f \in [Kept -> Nat] /\ \A k \in Kept : top[k] \in Nat /\ f[k] \in Nat /\ top[k] <= f[k]
  <2>1. size \in Nat /\ top.text \in Nat
    BY <1>2, ElfAssumption DEF Kept
  <2>2. top.text + size \in Nat /\ top.text <= top.text + size
    BY <2>1
  <2>3. /\ f \in [Kept -> Nat] /\ f.text = top.text + size
        /\ \A k \in Kept : k # "text" => f[k] = top[k]
    BY <1>2, <1>3, <2>2
  <2>4. \A a \in Nat : a <= a
    OBVIOUS
  <2> QED BY <2>2, <2>3, <2>4, <1>2
<1>5. Placed(table.symtab, f, Refused)
  BY <1>2, <1>4, TableParts, PlacedHigher
<1>6. Laid' /\ Refs' /\ Fresh'
  BY <1>1, <1>2, <1>3, <1>4, <1>5 DEF IInv, Laid, Refs, Fresh, Refused
<1>7. Units'
  <2>1. NoSym \in Sym /\ NoSym.c = 0 /\ \A n \in Names : syms'[n] = NoSym
    BY <1>1 DEF NoSym, Sym
  <2>2. Len(table.symtab) \in Nat
    BY <1>2, TableParts
  <2>3. syms' \in [Names -> Sym]
    BY <2>1, <1>1
  <2>4. \A n \in Names : syms'[n].c \in 0 .. Len(table'.symtab)
    BY <2>1, <2>2, <1>1
  <2>5. \A n \in Names : ~Declared(n)'
    BY <2>1 DEF Declared
  <2>6. compiling' \in BOOLEAN /\ ~compiling'
    BY <1>1
  <2>7. unit' \in 0 .. MaxUnits /\ complaints' \subseteq Names
    BY <1>1 DEF IInv, Units
  <2> QED BY <2>3, <2>4, <2>5, <2>6, <2>7 DEF Units
<1>8. Called' /\ Open'
  BY <1>1, CalledNone
<1> QED BY <1>6, <1>7, <1>8 DEF IInv

(* What sym_push makes of a name.                                          *)
LEMMA PushedIs ==
    ASSUME Units, NEW static \in BOOLEAN, NEW extern \in BOOLEAN
    PROVE  Pushed(static, extern) \in Sym /\ Pushed(static, extern).c = 0
<1>1. PICK own : own = IF static THEN unit ELSE 0
  OBVIOUS
<1>2. own \in Int
  BY <1>1, ElfAssumption DEF Units
<1>3. Pushed(static, extern) = [c |-> 0, static |-> static, extern |-> extern, own |-> own]
  BY <1>1, Zenon DEF Pushed
<1>4. PICK s : s = [c |-> 0, static |-> static, extern |-> extern, own |-> own]
  OBVIOUS
<1>5. s \in Sym /\ s.c = 0
  BY <1>2, <1>4 DEF Sym
<1> QED BY <1>3, <1>4, <1>5

(* A declaration.                                                          *)
LEMMA DeclareStep ==
    ASSUME IInv, NEW n \in Names, NEW static \in BOOLEAN, external_sym(n, static)
    PROVE  IInv'
<1>1. /\ compiling /\ syms' = [syms EXCEPT ![n] = Pushed(static, TRUE)] /\ ~Declared(n)
      /\ UNCHANGED <<table, refs, top, unit, compiling, func, ended, complaints>>
  BY DEF external_sym
<1>2. Laid' /\ Refs' /\ Fresh'
  BY <1>1 DEF IInv, Laid, Refs, Fresh, Refused
<1>3. PICK s : s = Pushed(static, TRUE)
  OBVIOUS
<1>4. s \in Sym /\ s.c = 0
  BY <1>3, PushedIs DEF IInv
<1>5. /\ syms' \in [Names -> Sym]
      /\ \A m \in Names : syms'[m] = IF m = n THEN s ELSE syms[m]
  BY <1>1, <1>3, <1>4 DEF IInv, Units
<1>6. Len(table.symtab) \in Nat
  BY TableParts DEF IInv, Laid
<1>7. \A m \in Names : syms'[m].c \in 0 .. Len(table'.symtab)
  <2>1. table' = table /\ \A m \in Names : syms[m].c \in 0 .. Len(table.symtab)
    BY <1>1 DEF IInv, Units
  <2>2. 0 \in 0 .. Len(table.symtab)
    BY <1>6
  <2> QED BY <2>1, <2>2, <1>4, <1>5
<1>8. Units'
  BY <1>1, <1>5, <1>7 DEF IInv, Units, Declared
<1>9. syms[n].c = 0 /\ \A m \in Names : syms'[m].c = syms[m].c
  <2>1. syms[n].c = 0
    BY <1>1 DEF Declared, NoSym
  <2> QED BY <2>1, <1>4, <1>5
<1>10. Called' /\ Open'
  <2>1. Called /\ Open
    BY DEF IInv
  <2>2. Called'
    BY <2>1, <1>1, <1>9 DEF Called
  <2>3. Open'
    <3>1. func \subseteq Names
      BY <2>1 DEF Open, Names
    <3> QED BY <2>1, <3>1, <1>1, <1>9 DEF Open
  <2> QED BY <2>2, <2>3
<1> QED BY <1>2, <1>8, <1>10 DEF IInv

(* A use of a name: its symbol, without a section if it is new.            *)
LEMMA GrelocStep == ASSUME IInv, NEW n \in Names, greloc(n) PROVE IInv'
<1>1. PICK s : s = syms[n]
  OBVIOUS
<1>2. PICK r : r = IF s.c = 0 THEN put_extern_sym2(s, n, "undef", 0, 0)
                   ELSE Result(table, s.c, FALSE)
  OBVIOUS
<1>3. /\ compiling /\ table' = r.table /\ syms' = [syms EXCEPT ![n].c = r.i]
      /\ refs' = Append(refs, [sym |-> r.i, name |-> n, own |-> s.own])
      /\ UNCHANGED <<top, unit, compiling, func, ended, complaints>>
  BY <1>1, <1>2 DEF greloc
<1>4. Table(table) /\ Units /\ Refs /\ top \in [Kept -> Nat] /\ Placed(table.symtab, top, Refused)
  BY DEF IInv, Laid
<1>5. s \in Sym /\ s.c \in 0 .. Len(table.symtab) /\ s.own \in Int
  BY <1>1, <1>4 DEF Units, Sym
<1>6. table.symtab \in Seq(Entry) /\ Len(table.symtab) \in Nat
  BY <1>4, TableParts
<1>7. PICK e : e = top
  OBVIOUS
<1>8. e \in [Kept -> Nat] /\ \A k \in Kept : e[k] \in Nat /\ e[k] <= e[k]
  BY <1>4, <1>7
<1>9. /\ Table(r.table) /\ (Good(table) => Good(r.table)) /\ Placed(r.table.symtab, e, Refused)
      /\ Len(table.symtab) <= Len(r.table.symtab) /\ r.i \in 1 .. Len(r.table.symtab)
      /\ Alters(table.symtab, r.table.symtab, r.i, "undef", 0, 0)
      /\ r.table.symtab[r.i].name = n
  <2>1. CASE s.c = 0
    <3>1. /\ Table(r.table) /\ (Good(table) => Good(r.table))
          /\ Alters(table.symtab, r.table.symtab, r.i, "undef", 0, 0)
          /\ r.table.symtab[r.i].name = n
      <4>1. "undef" \in Sections /\ 0 \in Nat
        BY DEF Sections
      <4>2. r = put_extern_sym2(s, n, "undef", 0, 0) /\ (s.c # 0 => table.symtab[s.c].name = n)
        BY <2>1, <1>2
      <4> QED BY <4>1, <4>2, <1>4, <1>5, ExternIs
    <3>2. r.table.symtab \in Seq(Entry)
      BY <3>1, TableParts
    <3>3. Placed(r.table.symtab, e, Refused)
      BY <3>1, <3>2, <1>4, <1>6, <1>7, <1>8, PlacedAlter DEF Kept
    <3> QED BY <3>1, <3>3 DEF Alters
  <2>2. CASE s.c # 0
    <3>1. r.table = table /\ r.i = s.c
      BY <2>2, <1>2 DEF Result
    <3>2. r.i \in 1 .. Len(table.symtab) /\ Len(table.symtab) <= Len(table.symtab)
      BY <3>1, <2>2, <1>5, <1>6
    <3>3. table.symtab[r.i].name = n
      BY <3>1, <2>2, <1>1 DEF IInv, Called
    <3>4. Alters(table.symtab, table.symtab, r.i, "undef", 0, 0)
      BY <3>2 DEF Alters
    <3> QED BY <3>1, <3>2, <3>3, <3>4, <1>4, <1>7
  <2> QED BY <2>1, <2>2
<1>10. Laid'
  BY <1>3, <1>7, <1>8, <1>9 DEF Laid, Refused
<1>11. \A i : i \in 0 .. Len(table.symtab) => i \in 0 .. Len(table'.symtab)
  BY <1>3, <1>4, <1>9, Grown
<1>12. PICK N \in Nat : N = Len(table'.symtab)
  BY <1>3, <1>9, TableParts
<1>13. r.i \in Nat /\ r.i \in 1 .. N /\ r.i \in 0 .. N
  BY <1>3, <1>9, <1>12
<1>14. Refs'
  <2>1. refs \in Seq(Ref) /\ Len(refs) \in Nat
        /\ \A k \in 1 .. Len(refs) : refs[k].sym \in 1 .. Len(table.symtab)
    BY <1>4 DEF Refs
  <2>2. PICK x : x = [sym |-> r.i, name |-> n, own |-> s.own]
    OBVIOUS
  <2>3. x \in Ref /\ x.sym = r.i
    BY <2>2, <1>5, <1>13 DEF Ref
  <2>4. /\ refs' \in Seq(Ref) /\ Len(refs') = Len(refs) + 1 /\ refs'[Len(refs) + 1] = x
        /\ \A k \in 1 .. Len(refs) : refs'[k] = refs[k]
    BY <2>1, <2>2, <2>3, <1>3
  <2>5. \A k \in 1 .. Len(refs) : refs'[k].sym \in 1 .. Len(table'.symtab)
    <3>1. Len(table.symtab) <= N
      BY <1>3, <1>9, <1>12
    <3>2. \A i : i \in 1 .. Len(table.symtab) => i \in 1 .. N
      BY <3>1, <1>6
    <3> QED BY <3>2, <2>1, <2>4, <1>12
  <2>6. \A k \in 1 .. Len(refs') : k \in 1 .. Len(refs) \/ k = Len(refs) + 1
    BY <2>1, <2>4
  <2> QED BY <2>3, <2>4, <2>5, <2>6, <1>12, <1>13 DEF Refs
<1>15. Units' /\ syms'[n].c = r.i /\ \A m \in Names : m # n => syms'[m].c = syms[m].c
  <2>1. PICK x : x = [s EXCEPT !.c = r.i]
    OBVIOUS
  <2>2. x \in Sym /\ x.c = r.i
    BY <2>1, <1>5, <1>13 DEF Sym
  <2>3. /\ syms' \in [Names -> Sym]
        /\ \A m \in Names : syms'[m] = IF m = n THEN x ELSE syms[m]
    BY <2>1, <2>2, <1>1, <1>3, <1>4 DEF Units
  <2>4. \A m \in Names : syms'[m].c \in 0 .. Len(table'.symtab)
    BY <2>2, <2>3, <1>4, <1>11, <1>12, <1>13 DEF Units
  <2>5. syms'[n].c = r.i /\ \A m \in Names : m # n => syms'[m].c = syms[m].c
    BY <2>2, <2>3
  <2>6. Units'
    BY <2>3, <2>4, <1>3, <1>4 DEF Units, Declared
  <2> QED BY <2>5, <2>6
<1>16. Fresh'
  BY <1>3, <1>9, Begun DEF Fresh
<1>17. Called'
  BY <1>3, <1>4, <1>9, <1>15, CalledStep DEF IInv
<1>18. Open'
  <2> SUFFICES ASSUME NEW m \in func, m \notin complaints
               PROVE  syms'[m].c # 0 /\ Has(table'.symtab[syms'[m].c], "text", top.text)
    <3>1. Open /\ func' = func /\ complaints' = complaints /\ compiling' = compiling /\ top' = top
      BY <1>3 DEF IInv
    <3>2. \A m \in func : syms'[m].c # 0
      <4> TAKE m \in func
      <4>1. m \in Names /\ syms[m].c # 0
        BY <3>1 DEF Open, Names
      <4>2. r.i # 0
        BY <1>9
      <4> QED BY <4>1, <4>2, <1>15
    <3> QED BY <3>1, <3>2 DEF Open
  <2>1. /\ m \in Names /\ syms[m].c # 0 /\ compiling
        /\ Has(table.symtab[syms[m].c], "text", top.text)
    BY DEF IInv, Open, Names
  <2>2. PICK k : k = syms[m].c
    OBVIOUS
  <2>3. k \in 1 .. Len(table.symtab) /\ table.symtab[k].name = m
    BY <2>1, <2>2, <1>4 DEF IInv, Called, Units
  <2>4. k \in 1 .. Len(table'.symtab)
    BY <2>3, <1>3, <1>9 DEF Alters
  <2>5. CASE m = n
    <3>1. table' = table /\ r.i = k
      BY <2>1, <2>2, <2>5, <1>1, <1>2, <1>3 DEF Result
    <3> QED BY <3>1, <2>1, <2>2, <2>5, <1>15
  <2>6. CASE m # n
    <3>1. syms'[m].c = k
      BY <2>1, <2>2, <2>6, <1>15
    <3>2. k # r.i
      BY <2>3, <2>6, <1>9 DEF Alters
    <3>3. table'.symtab[k] = table.symtab[k]
      BY <3>2, <2>4, <1>3, <1>9 DEF Alters
    <3> QED BY <3>1, <3>3, <2>1, <2>2
  <2> QED BY <2>5, <2>6
<1> QED BY <1>10, <1>14, <1>15, <1>16, <1>17, <1>18 DEF IInv

(* A section has room for more.                                            *)
LongerBy(k, size) ==
    top' \in [Kept -> Nat] /\ top[k] + size <= top'[k] /\ \A s \in Kept : top[s] <= top'[s]

(* A function or an initialized variable: its section ends after it.  (A   *)
(* function has no size as yet.)                                           *)
LEMMA PlaceStep ==
    ASSUME IInv, NEW n \in Names, NEW s \in Sym, s.c \in 0 .. Len(table.symtab),
           s.c # 0 => table.symtab[s.c].name = n,
           NEW k \in {"text", "data"}, NEW size \in Nat,
           NEW r, r = put_extern_sym2(s, n, k, top[k], size),
           Defined(n, s, r, k, top[k]), LongerBy(k, size)
    PROVE  /\ Laid' /\ Units' /\ Called' /\ Refs' /\ Fresh' /\ func = {}
           /\ r.i # 0 /\ syms'[n].c = r.i /\ table' = r.table /\ Taken(r, k, top[k])
<1>1. Table(table) /\ Units /\ Refs /\ top \in [Kept -> Nat] /\ Placed(table.symtab, top, Refused)
  BY DEF IInv, Laid
<1>2. k \in Kept /\ k \in Sections /\ k # "undef" /\ top[k] \in Nat
  BY <1>1 DEF Kept, Sections
<1>4. /\ Table(r.table) /\ (Good(table) => Good(r.table))
      /\ Alters(table.symtab, r.table.symtab, r.i, k, top[k], size)
      /\ r.table.symtab[r.i].name = n
      /\ Taken(r, k, top[k])
  <2>1. PICK v \in Nat : v = top[k]
    BY <1>2
  <2>2. s.c # 0 => table.symtab[s.c].name = n
    OBVIOUS
  <2>3. /\ Table(r.table) /\ (Good(table) => Good(r.table))
        /\ Alters(table.symtab, r.table.symtab, r.i, k, v, size)
        /\ r.table.symtab[r.i].name = n
        /\ Taken(r, k, v)
    BY <2>1, <2>2, <1>1, <1>2, ExternIs
  <2> QED BY <2>1, <2>3
<1>5. table.symtab \in Seq(Entry) /\ r.table.symtab \in Seq(Entry)
  BY <1>1, <1>4, TableParts
<1>6. PICK e : e = top
  OBVIOUS
<1>8. PICK f \in [Kept -> Nat] : f = top'
  BY DEF LongerBy
<1>9. e \in [Kept -> Nat] /\ \A m \in Kept : e[m] <= f[m]
  BY <1>1, <1>6, <1>8 DEF LongerBy
<1>10. k \in Kept => top[k] = e[k] /\ top[k] + size <= f[k]
  BY <1>6, <1>8 DEF LongerBy
<1>12. Placed(r.table.symtab, f, Refused)
  <2>1. PICK p \in Seq(Entry) : p = table.symtab
    BY <1>5
  <2>2. PICK q \in Seq(Entry) : q = r.table.symtab
    BY <1>5
  <2>3. PICK v : v = top[k]
    OBVIOUS
  <2>4. PICK x : x = Refused
    OBVIOUS
  <2>5. PICK i : i = r.i
    OBVIOUS
  <2>6. Alters(p, q, i, k, v, size) /\ Placed(p, e, x)
    BY <2>1, <2>2, <2>3, <2>4, <2>5, <1>1, <1>4, <1>6
  <2>7. Longer(e, f, k, v, size)
    BY <2>3, <1>9, <1>10 DEF Longer
  <2>8. Placed(q, f, x)
    BY <2>6, <2>7, <1>9, PlacedLonger
  <2> QED BY <2>2, <2>4, <2>8
<1>13. Len(table.symtab) <= Len(r.table.symtab) /\ r.i \in 1 .. Len(r.table.symtab)
  BY <1>4 DEF Alters
<1>14. /\ Table(table') /\ Units' /\ Called' /\ Refs' /\ Fresh'
       /\ func = {} /\ Refused \subseteq Refused' /\ syms'[n].c = r.i
  BY <1>4, <1>13, DefinedStep
<1>15. PICK x : x = Refused'
  OBVIOUS
<1>16. Placed(r.table.symtab, f, x)
  BY <1>5, <1>9, <1>12, <1>14, <1>15, PlacedFewer
<1>17. table' = r.table
  BY DEF Defined
<1>18. Laid'
  BY <1>8, <1>14, <1>15, <1>16, <1>17 DEF Laid
<1>19. r.i # 0
  BY <1>13
<1> QED BY <1>4, <1>14, <1>17, <1>18, <1>19

(* The definition of a function.                                           *)
LEMMA FunctionStep ==
    ASSUME IInv, NEW n \in Names, NEW static \in BOOLEAN, gen_function(n, static)
    PROVE  IInv'
<1>1. PICK s : s = IF Declared(n) THEN [syms[n] EXCEPT !.static = static]
                   ELSE Pushed(static, FALSE)
  OBVIOUS
<1>2. PICK r : r = put_extern_sym2(s, n, "text", top["text"], 0)
  OBVIOUS
<1>3. /\ Defined(n, s, r, "text", top["text"]) /\ top' = top /\ func' = {n} /\ n \in Fn
  BY <1>1, <1>2 DEF gen_function
<1>4. Units /\ Table(table) /\ Called /\ top \in [Kept -> Nat]
  BY DEF IInv, Laid
<1>5. PICK x : x = syms[n]
  OBVIOUS
<1>6. x \in Sym /\ x.c \in 0 .. Len(table.symtab) /\ (x.c # 0 => table.symtab[x.c].name = n)
  BY <1>4, <1>5 DEF Units, Called
<1>7. PICK y : y = Pushed(static, FALSE)
  OBVIOUS
<1>8. y \in Sym /\ y.c = 0
  BY <1>4, <1>7, PushedIs
<1>9. 0 \in 0 .. Len(table.symtab)
  BY <1>4, TableParts
<1>10. s \in Sym /\ s.c \in 0 .. Len(table.symtab) /\ (s.c # 0 => table.symtab[s.c].name = n)
  <2>1. CASE Declared(n)
    <3>1. s = [x EXCEPT !.static = static]
      BY <2>1, <1>1, <1>5
    <3> QED BY <3>1, <1>6 DEF Sym
  <2>2. CASE ~Declared(n)
    BY <2>2, <1>1, <1>7, <1>8, <1>9
  <2> QED BY <2>1, <2>2
<1>11. top["text"] \in Nat /\ "text" \in {"text", "data"}
  BY <1>4 DEF Kept
<1>12. LongerBy("text", 0)
  <2>1. \A a \in Nat : a + 0 <= a /\ a <= a
    OBVIOUS
  <2> QED BY <2>1, <1>3, <1>4, <1>11 DEF LongerBy
<1>13. 0 \in Nat
  OBVIOUS
<1>14. /\ Laid' /\ Units' /\ Called' /\ Refs' /\ Fresh' /\ func = {}
       /\ r.i # 0 /\ syms'[n].c = r.i /\ table' = r.table /\ Taken(r, "text", top["text"])
  BY <1>2, <1>3, <1>10, <1>11, <1>12, <1>13, PlaceStep
<1>15. compiling' /\ (r.twice = TRUE => n \in complaints')
  BY <1>3 DEF Defined
<1>16. r.twice = TRUE \/ Has(table'.symtab[r.i], "text", top["text"])
  BY <1>14 DEF Taken
<1>17. Open'
  BY <1>3, <1>14, <1>15, <1>16 DEF Open
<1> QED BY <1>14, <1>17 DEF IInv

(* The symbols q are those of p but that the one at i has this size.       *)
Resizes(p, q, i, size) ==
    /\ q \in Seq(Entry) /\ Len(q) = Len(p) /\ \A j \in 1 .. Len(p) : j # i => q[j] = p[j]
    /\ q[i].name = p[i].name /\ q[i].bind = p[i].bind
    /\ q[i].shndx = p[i].shndx /\ q[i].value = p[i].value /\ q[i].size = size

(* What end_function does to the table and to .text.                       *)
LEMMA EndFunctionIs ==
    ASSUME IInv, NEW size \in CodeSize, NEW n \in func, end_function(size)
    PROVE  /\ n \in Fn /\ size \in Nat /\ syms[n].c \in 1 .. Len(table.symtab)
           /\ table.symtab[syms[n].c].name = n
           /\ Resizes(table.symtab, table'.symtab, syms[n].c, size)
           /\ Table(table') /\ (Good(table) => Good(table'))
           /\ top' \in [Kept -> Nat] /\ top'.text = top.text + size
           /\ \A s \in Kept : top[s] <= top'[s]
           /\ func' = {} /\ UNCHANGED <<refs, syms, unit, compiling, ended, defs, complaints>>
<1>1. PICK m \in func :
         /\ top' = [top EXCEPT !.text = @ + size]
         /\ table' = [table EXCEPT !.symtab[syms[m].c].size = size]
         /\ func' = {}
         /\ UNCHANGED <<refs, syms, unit, compiling, ended, defs, complaints>>
  BY DEF end_function
<1>2. m = n /\ n \in Fn /\ n \in Names /\ syms[n].c # 0
  BY DEF IInv, Open, Names
<1>3. PICK i : i = syms[n].c
  OBVIOUS
<1>4. Table(table) /\ top \in [Kept -> Nat] /\ i \in 1 .. Len(table.symtab) /\ table.symtab[i].name = n
  BY <1>2, <1>3 DEF IInv, Laid, Units, Called
<1>5. size \in Nat
  BY ElfAssumption
<1>6. PICK p \in Seq(Entry) : p = table.symtab /\ p[i] \in Entry /\ DOMAIN p = 1 .. Len(p)
  BY <1>4, TableParts
<1>7. PICK e : e = [p[i] EXCEPT !.size = size]
  OBVIOUS
<1>8. /\ e \in Entry /\ e.name = p[i].name /\ e.bind = p[i].bind /\ e.shndx = p[i].shndx
      /\ e.value = p[i].value /\ e.size = size
  BY <1>5, <1>6, <1>7 DEF Entry
<1>9. PICK q : q = [p EXCEPT ![i] = e]
  OBVIOUS
<1>10. q \in Seq(Entry) /\ Len(q) = Len(p) /\ q[i] = e /\ \A j \in 1 .. Len(p) : j # i => q[j] = p[j]
  BY <1>4, <1>6, <1>8, <1>9
<1>11. Resizes(p, q, i, size)
  BY <1>8, <1>10 DEF Resizes
<1>12. table' = [table EXCEPT !.symtab = q]
  BY <1>1, <1>2, <1>3, <1>6, <1>7, <1>9
<1>13. /\ Table(table') /\ table'.symtab = q
       /\ Good(table) /\ (\A j \in 1 .. Len(q) : q[j].name = table.symtab[j].name
                                                 /\ q[j].bind = table.symtab[j].bind) => Good(table')
  BY <1>4, <1>6, <1>10, <1>12, RewriteIs
<1>14. \A j \in 1 .. Len(q) : q[j].name = p[j].name /\ q[j].bind = p[j].bind
  BY <1>8, <1>10
<1>15. Good(table) => Good(table')
  BY <1>6, <1>13, <1>14
<1>16. top' \in [Kept -> Nat] /\ top'.text = top.text + size /\ \A s \in Kept : top[s] <= top'[s]
  <2>1. top.text \in Nat
    BY <1>4 DEF Kept
  <2>2. top.text + size \in Nat /\ top.text <= top.text + size
    BY <2>1, <1>5
  <2>3. /\ top' \in [Kept -> Nat] /\ top'.text = top.text + size
        /\ \A s \in Kept : s # "text" => top'[s] = top[s]
    BY <1>1, <1>4, <2>2 DEF Kept
  <2>4. \A a \in Nat : a <= a
    OBVIOUS
  <2> QED BY <2>2, <2>3, <2>4, <1>4
<1> QED BY <1>1, <1>2, <1>3, <1>4, <1>5, <1>6, <1>11, <1>13, <1>15, <1>16

(* The end of a body: the symbol of the function gets the room that .text  *)
(* has grown by, if it is the function's own.                              *)
LEMMA EndFunctionStep ==
    ASSUME IInv, NEW size \in CodeSize, end_function(size)
    PROVE  IInv'
<1>1. PICK n \in func : TRUE
  BY DEF end_function
<1>2. PICK i : i = syms[n].c
  OBVIOUS
<1>3. /\ n \in Fn /\ size \in Nat /\ i \in 1 .. Len(table.symtab)
      /\ table.symtab[i].name = n
      /\ Resizes(table.symtab, table'.symtab, i, size)
      /\ Table(table') /\ (Good(table) => Good(table'))
      /\ top' \in [Kept -> Nat] /\ top'.text = top.text + size
      /\ \A s \in Kept : top[s] <= top'[s]
      /\ func' = {} /\ UNCHANGED <<refs, syms, unit, compiling, ended, defs, complaints>>
  BY <1>1, <1>2, EndFunctionIs
<1>4. Table(table) /\ top \in [Kept -> Nat] /\ Placed(table.symtab, top, Refused)
      /\ Units /\ Refs /\ Called
  BY DEF IInv, Laid
<1>5. PICK p \in Seq(Entry) : p = table.symtab
  BY <1>4, TableParts
<1>6. PICK q \in Seq(Entry) : q = table'.symtab
  BY <1>3, TableParts
<1>7. Len(q) = Len(p) /\ Len(p) \in Nat /\ \A j \in 1 .. Len(p) : q[j].name = p[j].name
  <2>1. Len(q) = Len(p) /\ Len(p) \in Nat
    BY <1>3, <1>5, <1>6 DEF Resizes
  <2>2. q[i].name = p[i].name /\ \A j \in 1 .. Len(p) : j # i => q[j] = p[j]
    BY <1>3, <1>5, <1>6 DEF Resizes
  <2> QED BY <2>1, <2>2
<1>8. PICK f \in [Kept -> Nat] : f = top'
  BY <1>3
<1>9. Placed(q, f, Refused)
  <2>1. CASE n \in complaints
    <3>1. n \in Refused
      BY <2>1, <1>3 DEF Refused
    <3>2. \A j \in 1 .. Len(p) : /\ Room(q[j], Refused) = Room(p[j], Refused)
                                /\ q[j].value = p[j].value /\ q[j].shndx = p[j].shndx
      <4> TAKE j \in 1 .. Len(p)
      <4>1. CASE j = i
        BY <4>1, <3>1, <1>3, <1>5, <1>6 DEF Resizes, Room
      <4>2. CASE j # i
        BY <4>2, <1>3, <1>5, <1>6 DEF Resizes
      <4> QED BY <4>1, <4>2
    <3>3. Placed(q, top, Refused)
      <4>1. ASSUME NEW j \in 1 .. Len(q), q[j].shndx \in Kept
            PROVE  q[j].value + Room(q[j], Refused) <= top[q[j].shndx]
        <5>1. p[j].value + Room(p[j], Refused) <= top[p[j].shndx]
          BY <4>1, <3>2, <1>4, <1>5, <1>7 DEF Placed
        <5> QED BY <5>1, <3>2, <1>7
      <4>2. ASSUME NEW j \in 1 .. Len(q), NEW k \in 1 .. Len(q),
                   j # k, q[j].shndx = q[k].shndx, q[j].shndx \in Kept
            PROVE  Apart(q[j], q[k], Refused)
        <5>1. Apart(p[j], p[k], Refused)
          BY <4>2, <3>2, <1>4, <1>5, <1>7 DEF Placed
        <5> QED BY <5>1, <3>2, <1>7 DEF Apart
      <4> QED BY <4>1, <4>2 DEF Placed
    <3> QED BY <3>3, <1>3, <1>4, <1>8, PlacedHigher
  <2>2. CASE n \notin complaints
    <3>1. Has(p[i], "text", top.text)
      BY <2>2, <1>1, <1>2, <1>5 DEF IInv, Open
    <3>2. PICK e : e = top
      OBVIOUS
    <3>3. e \in [Kept -> Nat] /\ \A s \in Kept : e[s] <= f[s]
      BY <3>2, <1>3, <1>4, <1>8
    <3>4. e["text"] = top.text /\ e["text"] + size <= f["text"]
      <4>1. e["text"] \in Nat
        BY <3>3 DEF Kept
      <4>2. f["text"] = e["text"] + size
        BY <3>2, <1>3, <1>8
      <4> QED BY <3>2, <4>1, <4>2, <1>3
    <3>5. Alters(p, q, i, "text", top.text, size)
      <4>1. /\ \A j \in 1 .. Len(p) : j # i => q[j] = p[j]
            /\ q[i].shndx = "text" /\ q[i].value = top.text /\ q[i].size = size
        BY <3>1, <1>3, <1>5, <1>6 DEF Resizes, Has
      <4>2. i \in 1 .. Len(p) /\ Len(p) <= Len(q)
        BY <1>3, <1>5, <1>7
      <4> QED BY <4>1, <4>2, <1>7 DEF Alters
    <3>6. PICK v : v = top.text
      OBVIOUS
    <3>7. /\ Alters(p, q, i, "text", v, size) /\ Placed(p, e, Refused)
          /\ "text" \in Kept => v = e["text"] /\ v + size <= f["text"]
      BY <3>2, <3>4, <3>5, <3>6, <1>4, <1>5
    <3> QED BY <3>3, <3>7, PlacedAlter DEF Kept
  <2> QED BY <2>1, <2>2
<1>10. Laid'
  BY <1>3, <1>6, <1>8, <1>9 DEF Laid, Refused
<1>11. Len(table'.symtab) = Len(table.symtab)
  BY <1>5, <1>6, <1>7
<1>12. Units' /\ Refs'
  BY <1>3, <1>4, <1>11 DEF Units, Refs, Declared
<1>13. Called'
  <2>1. \A m \in Names : syms'[m].c = syms[m].c /\ syms[m].c \in 0 .. Len(p)
    BY <1>3, <1>4, <1>5 DEF Units
  <2>2. \A k \in 0 .. Len(p) : k # 0 => k \in 1 .. Len(p)
    BY <1>7
  <2> QED BY <2>1, <2>2, <1>4, <1>5, <1>6, <1>7 DEF Called
<1>14. Open'
  BY <1>3 DEF Open
<1>15. Fresh'
  BY <1>3 DEF IInv, Fresh
<1> QED BY <1>10, <1>12, <1>13, <1>14, <1>15 DEF IInv

(* The Sym of a variable.                                                  *)
LEMMA SymOfIs ==
    ASSUME IInv, NEW n \in Names, NEW static \in BOOLEAN
    PROVE  /\ SymOf(n, static) \in Sym /\ SymOf(n, static).c \in 0 .. Len(table.symtab)
           /\ SymOf(n, static).c # 0 => table.symtab[SymOf(n, static).c].name = n
<1>1. Units /\ Table(table) /\ Called
  BY DEF IInv, Laid
<1>2. PICK x : x = syms[n]
  OBVIOUS
<1>3. x \in Sym /\ x.c \in 0 .. Len(table.symtab) /\ (x.c # 0 => table.symtab[x.c].name = n)
  BY <1>1, <1>2 DEF Units, Called
<1>4. PICK y : y = Pushed(static, FALSE)
  OBVIOUS
<1>5. y \in Sym /\ y.c = 0
  BY <1>1, <1>4, PushedIs
<1>6. 0 \in 0 .. Len(table.symtab)
  BY <1>1, TableParts
<1>7. SymOf(n, static) = IF Declared(n) THEN x ELSE y
  BY <1>2, <1>4 DEF SymOf
<1> QED BY <1>3, <1>5, <1>6, <1>7

(* A variable with an initializer.                                         *)
LEMMA InitializedStep ==
    ASSUME IInv, NEW n \in Names, NEW static \in BOOLEAN, initialized(n, static)
    PROVE  IInv'
<1>1. PICK s : s = SymOf(n, static)
  OBVIOUS
<1>2. PICK r : r = put_extern_sym2(s, n, "data", top["data"], Size[n])
  OBVIOUS
<1>3. PICK f : f = [top EXCEPT !["data"] = @ + Size[n]]
  OBVIOUS
<1>4. /\ Defined(n, s, r, "data", top["data"]) /\ top' = f /\ func' = func /\ n \in Var
  BY <1>1, <1>2, <1>3 DEF initialized
<1>5. s \in Sym /\ s.c \in 0 .. Len(table.symtab) /\ (s.c # 0 => table.symtab[s.c].name = n)
  BY <1>1, SymOfIs
<1>6. PICK size \in Nat : size = Size[n]
  BY <1>4, ElfAssumption
<1>7. LongerBy("data", size)
  <2>1. top \in [Kept -> Nat] /\ top["data"] \in Nat
    BY DEF IInv, Laid, Kept
  <2>2. \A a \in Nat : a + size \in Nat /\ a + size <= a + size /\ a <= a + size /\ a <= a
    OBVIOUS
  <2>3. /\ top' \in [Kept -> Nat] /\ top'["data"] = top["data"] + size
        /\ \A k \in Kept : k # "data" => top'[k] = top[k]
    BY <2>1, <2>2, <1>3, <1>4, <1>6 DEF Kept
  <2> QED BY <2>1, <2>2, <2>3 DEF LongerBy
<1>8. r = put_extern_sym2(s, n, "data", top["data"], size) /\ "data" \in {"text", "data"}
  BY <1>2, <1>6
<1>9. Laid' /\ Units' /\ Called' /\ Refs' /\ Fresh' /\ func = {}
  BY <1>4, <1>5, <1>7, <1>8, PlaceStep
<1>10. Open'
  BY <1>4, <1>9 DEF Open
<1> QED BY <1>9, <1>10 DEF IInv

(* A variable without one: a common symbol.                                *)
LEMMA TentativeStep ==
    ASSUME IInv, NEW n \in Names, NEW static \in BOOLEAN, tentative(n, static)
    PROVE  IInv'
<1>1. PICK s : s = SymOf(n, static)
  OBVIOUS
<1>2. PICK r : r = put_extern_sym2(s, n, "undef", 0, Size[n])
  OBVIOUS
<1>3. /\ Defined(n, s, [r EXCEPT !.table.symtab[r.i].shndx = "common"], "common", 0)
      /\ UNCHANGED <<top, func>> /\ n \in Var
  BY <1>1, <1>2 DEF tentative
<1>4. s \in Sym /\ s.c \in 0 .. Len(table.symtab) /\ (s.c # 0 => table.symtab[s.c].name = n)
  BY <1>1, SymOfIs
<1>5. Table(table) /\ top \in [Kept -> Nat] /\ Placed(table.symtab, top, Refused)
  BY DEF IInv, Laid
<1>6. /\ Table(r.table) /\ (Good(table) => Good(r.table))
      /\ Alters(table.symtab, r.table.symtab, r.i, "undef", 0, Size[n])
      /\ r = Result(r.table, r.i, r.twice) /\ r.table.symtab[r.i].name = n
  <2>1. Size[n] \in Nat
    BY <1>3, ElfAssumption
  <2>2. PICK size \in Nat : size = Size[n]
    BY <2>1
  <2>3. "undef" \in Sections /\ 0 \in Nat
    BY DEF Sections
  <2>4. r = put_extern_sym2(s, n, "undef", 0, size)
    BY <2>2, <1>2
  <2>5. /\ Table(r.table) /\ (Good(table) => Good(r.table))
        /\ Alters(table.symtab, r.table.symtab, r.i, "undef", 0, size)
        /\ r = Result(r.table, r.i, r.twice) /\ r.table.symtab[r.i].name = n
    BY <2>3, <2>4, <1>4, <1>5, ExternIs
  <2> QED BY <2>2, <2>5
<1>7. table.symtab \in Seq(Entry) /\ r.table.symtab \in Seq(Entry)
  BY <1>5, <1>6, TableParts
<1>8. PICK e : e = top
  OBVIOUS
<1>9. e \in [Kept -> Nat] /\ \A k \in Kept : e[k] \in Nat /\ e[k] <= e[k]
  BY <1>5, <1>8
<1>10. Placed(r.table.symtab, e, Refused)
  BY <1>5, <1>6, <1>7, <1>8, <1>9, PlacedAlter DEF Kept
<1>11. PICK t : t = r.table
  OBVIOUS
<1>12. PICK i : i = r.i
  OBVIOUS
<1>13. PICK u : u = Commoned(t, i)
  OBVIOUS
<1>14. i \in 1 .. Len(t.symtab) /\ Len(table.symtab) <= Len(t.symtab)
  BY <1>6, <1>11, <1>12 DEF Alters
<1>15. /\ Table(u) /\ (Good(t) => Good(u)) /\ Placed(u.symtab, e, Refused)
       /\ Len(u.symtab) = Len(t.symtab)
  <2>1. PICK y : y = Refused
    OBVIOUS
  <2>2. Table(t) /\ Placed(t.symtab, e, y) /\ e \in [Kept -> Nat]
    BY <2>1, <1>6, <1>9, <1>10, <1>11
  <2>3. /\ Table(u) /\ (Good(t) => Good(u)) /\ Placed(u.symtab, e, y)
        /\ Len(u.symtab) = Len(t.symtab)
    BY <2>2, <1>13, <1>14, CommonSym
  <2> QED BY <2>1, <2>3
<1>16. PICK v : v = [r EXCEPT !.table.symtab[r.i].shndx = "common"]
  OBVIOUS
<1>17. v = [r EXCEPT !.table = u]
  <2>1. v = [r EXCEPT !.table = [r.table EXCEPT !.symtab =
               [r.table.symtab EXCEPT ![r.i] = [r.table.symtab[r.i] EXCEPT !.shndx = "common"]]]]
    BY <1>16
  <2> QED BY <2>1, <1>11, <1>12, <1>13 DEF Commoned
<1>18. v.table = u /\ v.i = i
  BY <1>6, <1>12, <1>17 DEF Result
<1>19. Defined(n, s, v, "common", 0)
  BY <1>3, <1>16
<1>20. /\ Table(v.table) /\ (Good(table) => Good(v.table))
       /\ Len(table.symtab) <= Len(v.table.symtab) /\ v.i \in 1 .. Len(v.table.symtab)
  BY <1>6, <1>11, <1>14, <1>15, <1>18
<1>21. Alters(table.symtab, u.symtab, i, "common", u.symtab[i].value, u.symtab[i].size)
       /\ u.symtab[i].name = n
  <2>1. Alters(table.symtab, t.symtab, i, "undef", 0, Size[n]) /\ t.symtab[i].name = n
    BY <1>6, <1>11, <1>12
  <2>2. u.symtab = [t.symtab EXCEPT ![i] = [t.symtab[i] EXCEPT !.shndx = "common"]]
    BY <1>6, <1>11, <1>13, TableParts DEF Commoned, Tables
  <2>3. t.symtab \in Seq(Entry) /\ t.symtab[i] \in Entry /\ DOMAIN t.symtab = 1 .. Len(t.symtab)
    BY <1>6, <1>11, <1>14, TableParts
  <2>4. /\ u.symtab[i].shndx = "common" /\ u.symtab[i].name = t.symtab[i].name
        /\ \A j \in 1 .. Len(t.symtab) : j # i => u.symtab[j] = t.symtab[j]
    BY <2>2, <2>3, <1>14 DEF Entry
  <2>5. u.symtab[i].name = n /\ Len(u.symtab) = Len(t.symtab)
    BY <2>1, <2>4, <1>15
  <2> QED BY <2>1, <2>4, <2>5, <1>14 DEF Alters
<1>22. /\ Table(table') /\ Units' /\ Called' /\ Refs' /\ Fresh'
       /\ func = {} /\ Refused \subseteq Refused'
  BY <1>4, <1>18, <1>19, <1>20, <1>21, DefinedStep
<1>23. PICK x : x = Refused'
  OBVIOUS
<1>24. Placed(u.symtab, e, x)
  BY <1>9, <1>15, <1>22, <1>23, TableParts, PlacedFewer
<1>25. Laid'
  BY <1>3, <1>8, <1>9, <1>18, <1>19, <1>22, <1>23, <1>24 DEF Laid, Defined
<1>26. Open'
  BY <1>3, <1>22 DEF Open
<1> QED BY <1>22, <1>25, <1>26 DEF IInv

(* Between units a Sym is of no name.                                      *)
LEMMA BetweenUnits ==
    ASSUME IInv, ~compiling, UNCHANGED <<refs, syms, unit, compiling, func>>,
           complaints' \subseteq Names, Table(table'), Len(table.symtab) <= Len(table'.symtab)
    PROVE  Units' /\ Refs' /\ Called' /\ Open'
<1>1. Units /\ Refs /\ Table(table)
  BY DEF IInv, Laid
<1>2. Refs' /\ \A i : i \in 0 .. Len(table.symtab) => i \in 0 .. Len(table'.symtab)
  BY <1>1, Grown
<1>3. /\ syms' \in [Names -> Sym] /\ \A n \in Names : syms'[n].c \in 0 .. Len(table'.symtab)
      /\ unit' \in 0 .. MaxUnits
  BY <1>1, <1>2 DEF Units
<1>4. \A n \in Names : Declared(n)' => compiling'
  BY <1>1 DEF Units, Declared
<1>5. compiling' \in BOOLEAN /\ ~compiling'
  BY <1>1 DEF Units
<1>6. Called' /\ Open'
  BY BodyClosed, CalledNone
<1> QED BY <1>2, <1>3, <1>4, <1>5, <1>6 DEF Units

(* add_symbol.                                                             *)
LEMMA AddSymbolStep == ASSUME IInv, NEW n \in Names, tcc_add_symbol(n) PROVE IInv'
<1>1. PICK x : x = Symbol(n, "global", "abs", 0, 0)
  OBVIOUS
<1>2. PICK r : r = add_elf_sym(table, x)
  OBVIOUS
<1>3. /\ Usable /\ ~compiling /\ table' = r.table /\ complaints' \subseteq complaints \union {n}
      /\ complaints \subseteq complaints'
      /\ UNCHANGED <<refs, top, syms, unit, compiling, func>>
  BY <1>1, <1>2 DEF tcc_add_symbol
<1>4. x \in Entry /\ x.name \in Named /\ x.shndx = "abs" /\ x.value = 0 /\ x.size = 0
  BY <1>1 DEF Symbol, Entry, Named
<1>5. Table(table) /\ top \in [Kept -> Nat] /\ Placed(table.symtab, top, Refused)
  BY DEF IInv, Laid
<1>6. /\ Table(r.table) /\ (Good(table) => Good(r.table))
      /\ Alters(table.symtab, r.table.symtab, r.i, "abs", 0, 0)
  BY <1>2, <1>4, <1>5, AddIs
<1>7. table.symtab \in Seq(Entry) /\ r.table.symtab \in Seq(Entry)
  BY <1>5, <1>6, TableParts
<1>8. PICK e : e = top
  OBVIOUS
<1>9. e \in [Kept -> Nat] /\ \A k \in Kept : e[k] \in Nat /\ e[k] <= e[k]
  BY <1>5, <1>8
<1>10. Placed(r.table.symtab, e, Refused)
  BY <1>5, <1>6, <1>7, <1>8, <1>9, PlacedAlter DEF Kept
<1>11. Laid'
  <2>1. PICK y : y = Refused'
    OBVIOUS
  <2>2. Refused \subseteq y
    BY <2>1, <1>3 DEF Refused
  <2>3. Placed(r.table.symtab, e, y)
    BY <2>2, <1>7, <1>9, <1>10, PlacedFewer
  <2> QED BY <2>1, <2>3, <1>3, <1>6, <1>8, <1>9 DEF Laid
<1>12. Len(table.symtab) <= Len(table'.symtab) /\ complaints' \subseteq Names
  BY <1>3, <1>6 DEF Alters, IInv, Units
<1>13. Units' /\ Refs' /\ Called' /\ Open'
  BY <1>3, <1>6, <1>12, BetweenUnits
<1>14. Fresh'
  BY <1>3, <1>6, Begun DEF Fresh
<1> QED BY <1>11, <1>13, <1>14 DEF IInv

(* tcc_relocate: common symbols get their storage after that of .bss, and  *)
(* the linker's symbols come to the ends.                                  *)
LEMMA RelocateStep == ASSUME IInv, tcc_relocate PROVE IInv'
<1>1. PICK p : p = table.symtab
  OBVIOUS
<1>2. PICK o : o = bss_offset(p)
  OBVIOUS
<1>3. PICK q : q = relocate_common_syms(p)
  OBVIOUS
<1>4. PICK bss : bss = o[Len(p)]
  OBVIOUS
<1>5. PICK t : t = [table EXCEPT !.symtab = q]
  OBVIOUS
<1>6. /\ Usable /\ ~compiling /\ table' = tcc_add_linker_symbols(t, bss)
      /\ top' = [top EXCEPT !.bss = bss]
      /\ UNCHANGED <<refs, syms, unit, compiling, func, complaints>>
  BY <1>1, <1>2, <1>3, <1>4, <1>5 DEF tcc_relocate
<1>7. Table(table) /\ top \in [Kept -> Nat] /\ Placed(table.symtab, top, Refused)
  BY DEF IInv, Laid
<1>8. p \in Seq(Entry) /\ Len(p) \in Nat
  BY <1>1, <1>7, TableParts
<1>9. /\ q \in Seq(Entry) /\ Len(q) = Len(p) /\ bss \in Nat
      /\ \A i \in 1 .. Len(q) : q[i].name = p[i].name /\ q[i].bind = p[i].bind
      /\ Placed(q, [top EXCEPT !.bss = bss], Refused)
  BY <1>1, <1>2, <1>3, <1>4, <1>7, <1>8, CommonIs
<1>10. /\ Table(t) /\ t.symtab = q
       /\ Good(table) /\ (\A i \in 1 .. Len(q) : q[i].name = table.symtab[i].name
                                                 /\ q[i].bind = table.symtab[i].bind) => Good(t)
  BY <1>1, <1>5, <1>7, <1>9, RewriteIs
<1>11. Good(table) => Good(t)
  BY <1>1, <1>9, <1>10
<1>12. /\ Table(table') /\ (Good(t) => Good(table'))
       /\ Placed(table'.symtab, [top EXCEPT !.bss = bss], Refused) /\ Len(t.symtab) <= Len(table'.symtab)
  BY <1>6, <1>7, <1>9, <1>10, LinkerIs
<1>13. top' \in [Kept -> Nat]
  BY <1>6, <1>7, <1>9
<1>14. Laid'
  BY <1>6, <1>12, <1>13 DEF Laid, Refused
<1>15. Len(table.symtab) <= Len(table'.symtab)
  BY <1>1, <1>9, <1>10, <1>12
<1>16. complaints' \subseteq Names
  BY <1>6 DEF IInv, Units
<1>17. Units' /\ Refs' /\ Called' /\ Open'
  BY <1>6, <1>12, <1>15, <1>16, BetweenUnits
<1>18. Fresh'
  BY <1>6, <1>11, <1>12, Begun DEF Fresh
<1> QED BY <1>14, <1>17, <1>18 DEF IInv

(* output_file: the symbols in another order, and the relocations with     *)
(* them.                                                                   *)
LEMMA OutputStep == ASSUME IInv, output_file PROVE IInv'
<1>1. /\ Usable /\ ~compiling /\ sort_syms /\ ended' = "object"
      /\ UNCHANGED <<top, syms, unit, compiling, func, complaints>>
  BY DEF output_file
<1>2. Table(table) /\ Units /\ Refs /\ top \in [Kept -> Nat] /\ Placed(table.symtab, top, Refused)
  BY DEF IInv, Laid
<1>3. PICK p \in Seq(Entry), N \in Nat :
         p = table.symtab /\ N = Len(p) /\ \A i \in 1 .. N : p[i] \in Entry
  BY <1>2, TableParts
<1>4. PICK g \in [1 .. N -> 1 .. N] :
         /\ \A k, m \in 1 .. N : g[k] = g[m] => k = m
         /\ table' = [table EXCEPT !.symtab = [k \in 1 .. N |-> p[g[k]]]]
  BY <1>1, <1>2, <1>3, SortIs
<1>5. /\ refs' = [r \in DOMAIN refs |-> refs'[r]]
      /\ \A r \in DOMAIN refs : refs[r].sym \in 1 .. N =>
            \E i \in 1 .. N : refs'[r] = [refs[r] EXCEPT !.sym = i]
  BY <1>1, <1>2, <1>3, SortIs
<1>6. PICK q : q = [k \in 1 .. N |-> p[g[k]]]
  OBVIOUS
<1>7. \A k \in 1 .. N : g[k] \in 1 .. N /\ q[k] = p[g[k]] /\ p[g[k]] \in Entry
  BY <1>3, <1>6
<1>8. q \in Seq(Entry) /\ Len(q) = N
  BY <1>6, <1>7
<1>9. Table(table') /\ table'.symtab = q
  BY <1>2, <1>3, <1>4, <1>6, <1>8, RewriteIs
<1>10. Placed(q, top, Refused)
  <2>1. ASSUME NEW i \in 1 .. Len(q), q[i].shndx \in Kept
        PROVE  q[i].value + Room(q[i], Refused) <= top[q[i].shndx]
    BY <2>1, <1>2, <1>3, <1>7, <1>8 DEF Placed
  <2>2. ASSUME NEW i \in 1 .. Len(q), NEW j \in 1 .. Len(q),
               i # j, q[i].shndx = q[j].shndx, q[i].shndx \in Kept
        PROVE  Apart(q[i], q[j], Refused)
    <3>1. g[i] # g[j] /\ g[i] \in 1 .. N /\ g[j] \in 1 .. N
      BY <2>2, <1>4, <1>7, <1>8
    <3>2. q[i] = p[g[i]] /\ q[j] = p[g[j]]
      BY <1>7, <1>8
    <3> QED BY <3>1, <3>2, <2>2, <1>2, <1>3 DEF Placed
  <2> QED BY <2>1, <2>2 DEF Placed
<1>11. Laid'
  BY <1>1, <1>2, <1>9, <1>10 DEF Laid, Refused
<1>12. Len(table'.symtab) = Len(table.symtab)
  BY <1>3, <1>8, <1>9
<1>13. Refs'
  <2>1. PICK m \in Nat : m = Len(refs) /\ DOMAIN refs = 1 .. m /\ \A r \in 1 .. m : refs[r] \in Ref
    BY <1>2 DEF Refs
  <2>2. \A r \in 1 .. m : refs'[r] \in Ref /\ refs'[r].sym \in 1 .. N
    <3> TAKE r \in 1 .. m
    <3>1. refs[r] \in Ref /\ refs[r].sym \in 1 .. N
      BY <2>1, <1>2, <1>3 DEF Refs
    <3>2. PICK i \in 1 .. N : refs'[r] = [refs[r] EXCEPT !.sym = i]
      BY <3>1, <2>1, <1>5
    <3>3. i \in Nat
      OBVIOUS
    <3> QED BY <3>1, <3>2, <3>3 DEF Ref
  <2>3. refs' = [r \in 1 .. m |-> refs'[r]]
    BY <2>1, <1>5
  <2>4. refs' \in Seq(Ref) /\ Len(refs') = m
    BY <2>2, <2>3
  <2> QED BY <2>2, <2>4, <1>3, <1>12 DEF Refs
<1>14. Units'
  BY <1>1, <1>2, <1>12 DEF Units, Declared
<1>15. Fresh'
  BY <1>1 DEF Fresh
<1>16. Called' /\ Open'
  BY <1>1, BodyClosed, CalledNone
<1> QED BY <1>11, <1>13, <1>14, <1>15, <1>16 DEF IInv

-----------------------------------------------------------------------------
(* The invariant holds in every reachable state, for all sizes of things,  *)
(* all hash functions and all programs.                                    *)
THEOREM Invariance == Spec => []IInv
<1>1. ASSUME IInv, [Next]_vars PROVE IInv'
  <2>1. CASE tcc_compile
    BY <2>1, <1>1, CompileStep
  <2>2. CASE end_compile
    BY <2>2, <1>1, EndStep
  <2>3. CASE tcc_relocate
    BY <2>3, <1>1, RelocateStep
  <2>4. CASE output_file
    BY <2>4, <1>1, OutputStep
  <2>5. ASSUME NEW n \in Names, greloc(n) PROVE IInv'
    BY <2>5, <1>1, GrelocStep
  <2>6. ASSUME NEW n \in Names, tcc_add_symbol(n) PROVE IInv'
    BY <2>6, <1>1, AddSymbolStep
  <2>7. ASSUME NEW n \in Names, NEW static \in BOOLEAN, external_sym(n, static) PROVE IInv'
    BY <2>7, <1>1, DeclareStep
  <2>8. ASSUME NEW n \in Names, NEW static \in BOOLEAN, gen_function(n, static) PROVE IInv'
    BY <2>8, <1>1, FunctionStep
  <2>9. ASSUME NEW n \in Names, NEW static \in BOOLEAN, initialized(n, static) PROVE IInv'
    BY <2>9, <1>1, InitializedStep
  <2>10. ASSUME NEW n \in Names, NEW static \in BOOLEAN, tentative(n, static) PROVE IInv'
    BY <2>10, <1>1, TentativeStep
  <2>11. ASSUME NEW size \in CodeSize, end_function(size) PROVE IInv'
    BY <2>11, <1>1, EndFunctionStep
  <2>12. ASSUME NEW size \in CodeSize, label_undefined(size) PROVE IInv'
    BY <2>12, <1>1, LabelStep
  <2>13. CASE UNCHANGED vars
    <3>1. UNCHANGED <<table, refs, top, syms, unit, compiling, func, ended, complaints>>
      BY <2>13 DEF vars
    <3>2. Laid' /\ Refs' /\ Fresh' /\ Called' /\ Open'
      BY <3>1, <1>1 DEF IInv, Laid, Refs, Fresh, Refused, Called, Open
    <3>3. Units'
      BY <3>1, <1>1 DEF IInv, Units, Declared
    <3> QED BY <3>2, <3>3 DEF IInv
  <2> QED BY <2>1, <2>2, <2>3, <2>4, <2>5, <2>6, <2>7, <2>8, <2>9, <2>10, <2>11, <2>12, <2>13, <1>1 DEF Next
<1> QED BY <1>1, InitInv, PTL DEF Spec

(* Every index in the table, in its chains and buckets, in a Sym and in a  *)
(* relocation is that of a symbol (put_elf_sym, sort_syms).                *)
THEOREM TypeCorrect == Spec => []TypeOK
<1>1. ASSUME IInv PROVE TypeOK
  <2>1. Table(table) /\ Units /\ Refs /\ top \in [Kept -> Nat]
    BY <1>1 DEF IInv, Laid
  <2>2. st \in Seq(Entry) /\ DOMAIN st = 1 .. Len(st)
    BY <2>1, TableParts DEF st
  <2>3. /\ Len(table.chain) = Len(st) /\ \A i \in DOMAIN st : table.chain[i] \in 0 .. i - 1
        /\ \A h \in DOMAIN table.buckets : table.buckets[h] \in 0 .. Len(st)
    BY <2>1, <2>2 DEF Table, st
  <2>4. \A r \in DOMAIN refs : refs[r].sym \in DOMAIN st
    BY <2>1, <2>2 DEF Refs, st
  <2>5. \A n \in Names : Declared(n) => compiling /\ syms[n].c \in 0 .. Len(st)
    BY <2>1 DEF Units, st
  <2>6. unit \in 0 .. MaxUnits /\ compiling \in BOOLEAN /\ complaints \subseteq Names
    BY <2>1 DEF Units
  <2>7. \A n \in func : n \in Fn /\ compiling /\ syms[n].c \in DOMAIN st
    <3> TAKE n \in func
    <3>1. n \in Fn /\ n \in Names /\ compiling /\ syms[n].c # 0
      BY <1>1 DEF IInv, Open, Names
    <3> QED BY <3>1, <2>1, <2>2 DEF Units, st
  <2> QED BY <2>1, <2>2, <2>3, <2>4, <2>5, <2>6, <2>7 DEF TypeOK, Entry, Named, Kept
<1> QED BY <1>1, Invariance, PTL

(* find_elf_sym finds every global symbol, at its index, and so there is   *)
(* one of a name: add_elf_sym makes no second one, however put_elf_sym has *)
(* hung it, and whenever rebuild_hash has made the table anew.             *)
THEOREM HashFinds ==
    ASSUME "output" \in Avoided
    PROVE  Spec => []Found
<1>1. ASSUME IInv PROVE Found
  <2> SUFFICES ASSUME ended # "object", NEW i \in Global(st)
               PROVE  find_elf_sym(table, st[i].name) = i
    BY DEF Found, Written
  <2>1. Table(table) /\ Hashed(table) /\ Once(table)
    BY <1>1 DEF IInv, Laid, Fresh, Good
  <2>2. i \in 1 .. Len(table.symtab) /\ table.symtab[i] \in Entry /\ table.symtab[i].bind # "local"
    BY <2>1, TableParts DEF Global, st
  <2>3. table.symtab[i].bind = "global"
    BY <2>2 DEF Entry
  <2>4. PICK name : name = table.symtab[i].name
    OBVIOUS
  <2>5. name \in Named
    BY <2>1, <2>2, <2>3, <2>4 DEF Hashed
  <2>6. PICK k : k = find_elf_sym(table, name)
    OBVIOUS
  <2>7. IsFound(table, Len(table.symtab), name, k)
    BY <2>1, <2>5, <2>6, FindGlobal
  <2>8. k = i
    BY <2>1, <2>2, <2>3, <2>4, <2>7 DEF IsFound, IsGlobal, Once
  <2> QED BY <2>4, <2>6, <2>8 DEF st
<1> QED BY <1>1, Invariance, PTL

(* Functions, variables and common symbols have storage of their own, in   *)
(* whatever order units define them and however often the handle is        *)
(* relocated (gen_function, decl_initializer_alloc, relocate_common_syms). *)
THEOREM StorageDisjoint == Spec => []Disjoint
<1>1. ASSUME IInv PROVE Disjoint
  <2>1. Table(table) /\ Placed(st, top, Refused)
    BY <1>1 DEF IInv, Laid, st
  <2>2. DOMAIN st = 1 .. Len(st) /\ \A i \in 1 .. Len(st) : st[i] \in Entry
    BY <2>1, TableParts DEF st
  <2>3. \A i \in 1 .. Len(st) : End(st[i]) = st[i].value + Room(st[i], Refused)
    BY <2>2 DEF End, Room, Refused, Entry
  <2>4. ASSUME NEW i \in DOMAIN st, NEW j \in DOMAIN st,
               i # j, st[i].shndx = st[j].shndx, st[i].shndx \in {"text", "data", "bss"}
        PROVE  End(st[i]) <= st[j].value \/ End(st[j]) <= st[i].value
    <3>1. Apart(st[i], st[j], Refused)
      BY <2>1, <2>2, <2>4 DEF Placed, Kept
    <3> QED BY <3>1, <2>2, <2>3 DEF Apart
  <2> QED BY <2>4 DEF Disjoint
<1> QED BY <1>1, Invariance, PTL

-----------------------------------------------------------------------------
(* What definitions make of a symbol.  ds: definitions, D: the places of   *)
(* those of a thing, twice: a second one was reported.                     *)
Sections4 == {"text", "data", "abs", "common"}
Def ==
    {d \in [name : Names, own : Nat, unit : Nat, shndx : Sections4, value : Nat] :
        d.shndx = "common" => d.name \in Var}
StrongIn(ds, D) == {i \in D : ds[i].shndx # "common"}
BestIn(ds, D) == ds[Min(IF StrongIn(ds, D) = {} THEN D ELSE StrongIn(ds, D))]
RightIn(ds, D, twice, s) ==
    IF D = {} THEN s.shndx = "undef"
    ELSE IF twice THEN IsAt(s, ds[Min(D)]) \/ IsAt(s, BestIn(ds, D))
    ELSE IsAt(s, BestIn(ds, D)) /\ \A i, j \in StrongIn(ds, D) : i = j

(* The least of the places.                                                *)
LEMMA MinIs ==
    ASSUME NEW D \in SUBSET Nat, D # {}
    PROVE  Min(D) \in D /\ \A i \in D : Min(D) <= i
<1>1. \E m \in D : \A i \in D : m <= i
  BY LeastNat
<1> QED BY <1>1 DEF Min

(* A place behind all others is not the least.                             *)
LEMMA MinGrows ==
    ASSUME NEW L \in Nat, NEW D \in SUBSET (1 .. L), D # {}
    PROVE  Min(D \union {L + 1}) = Min(D)
<1>1. D \in SUBSET Nat /\ D \union {L + 1} \in SUBSET Nat /\ D \union {L + 1} # {}
  OBVIOUS
<1>2. PICK a \in Nat : a = Min(D) /\ a \in D /\ \A i \in D : a <= i
  BY <1>1, MinIs
<1>3. PICK b \in Nat : b = Min(D \union {L + 1}) /\ b \in D \union {L + 1}
                       /\ \A i \in D \union {L + 1} : b <= i
  <2>1. PICK E : E = D \union {L + 1}
    OBVIOUS
  <2>2. E \in SUBSET Nat /\ E # {}
    BY <1>1, <2>1
  <2>3. Min(E) \in E /\ \A i \in E : Min(E) <= i
    BY <2>2, MinIs
  <2>4. Min(E) \in Nat
    BY <2>2, <2>3
  <2> QED BY <2>1, <2>3, <2>4
<1>4. a \in 1 .. L /\ b <= a
  <2>1. a \in D \union {L + 1}
    BY <1>2
  <2>2. b <= a
    BY <2>1, <1>3
  <2> QED BY <2>2, <1>2
<1>5. b \in D
  BY <1>3, <1>4
<1> QED BY <1>2, <1>3, <1>4, <1>5

(* The one that counts is one of them.                                     *)
LEMMA BestIs ==
    ASSUME NEW ds, NEW D \in SUBSET Nat, D # {}
    PROVE  /\ Min(D) \in D
           /\ \E i \in D : BestIn(ds, D) = ds[i] /\ (StrongIn(ds, D) # {} => i \in StrongIn(ds, D))
<1>1. Min(D) \in D
  BY MinIs
<1>2. CASE StrongIn(ds, D) = {}
  BY <1>1, <1>2 DEF BestIn
<1>3. CASE StrongIn(ds, D) # {}
  <2>1. StrongIn(ds, D) \in SUBSET Nat /\ StrongIn(ds, D) \subseteq D
    BY DEF StrongIn
  <2>2. Min(StrongIn(ds, D)) \in StrongIn(ds, D)
    BY <2>1, <1>3, MinIs
  <2> QED BY <1>1, <1>3, <2>1, <2>2 DEF BestIn
<1> QED BY <1>1, <1>2, <1>3

(* Only the definitions of the thing matter.                               *)
LEMMA RightSame ==
    ASSUME NEW ds, NEW es, NEW D \in SUBSET Nat, NEW twice, NEW s,
           \A i \in D : es[i] = ds[i], RightIn(ds, D, twice, s)
    PROVE  RightIn(es, D, twice, s)
<1>1. CASE D = {}
  BY <1>1 DEF RightIn
<1>2. CASE D # {}
  <2>1. StrongIn(es, D) = StrongIn(ds, D)
    BY DEF StrongIn
  <2>2. Min(D) \in D
    BY <1>2, MinIs
  <2>3. BestIn(es, D) = BestIn(ds, D)
    <3>1. CASE StrongIn(ds, D) = {}
      BY <3>1, <2>1, <2>2 DEF BestIn
    <3>2. CASE StrongIn(ds, D) # {}
      <4>1. StrongIn(ds, D) \in SUBSET Nat /\ StrongIn(ds, D) \subseteq D
        BY DEF StrongIn
      <4>2. Min(StrongIn(ds, D)) \in D
        BY <3>2, <4>1, MinIs
      <4> QED BY <3>2, <2>1, <4>2 DEF BestIn
    <3> QED BY <3>1, <3>2
  <2> QED BY <1>2, <2>1, <2>2, <2>3 DEF RightIn
<1> QED BY <1>1, <1>2

(* The first definition of a thing.                                        *)
LEMMA RightFirst ==
    ASSUME NEW ds, NEW k \in Nat, NEW twice, NEW s, IsAt(s, ds[k])
    PROVE  RightIn(ds, {k}, twice, s)
<1>1. BestIn(ds, {k}) = ds[k]
  BY BestIs
<1>2. \A i, j \in StrongIn(ds, {k}) : i = j
  BY DEF StrongIn
<1> QED BY <1>1, <1>2 DEF RightIn

(* The first initialized one, after others.                                *)
LEMMA RightOver ==
    ASSUME NEW ds, NEW k \in Nat, NEW D \in SUBSET Nat, NEW twice, NEW s,
           StrongIn(ds, D) = {}, ds[k].shndx # "common", IsAt(s, ds[k])
    PROVE  RightIn(ds, D \union {k}, twice, s)
<1>1. StrongIn(ds, D \union {k}) = {k}
  BY DEF StrongIn
<1>2. Min({k}) = k
  BY MinIs
<1>3. BestIn(ds, D \union {k}) = ds[k]
  BY <1>1, <1>2 DEF BestIn
<1> QED BY <1>1, <1>3 DEF RightIn

(* None of them initialized.                                               *)
LEMMA RightCommon ==
    ASSUME NEW ds, NEW D \in SUBSET Nat, D # {}, NEW twice, NEW s,
           StrongIn(ds, D) = {}, \A i \in D : IsAt(s, ds[i])
    PROVE  RightIn(ds, D, twice, s)
<1>1. IsAt(s, BestIn(ds, D))
  BY BestIs
<1> QED BY <1>1 DEF RightIn

(* One more is reported and lost.                                          *)
LEMMA RightKept ==
    ASSUME NEW ds, NEW L \in Nat, NEW D \in SUBSET (1 .. L), D # {}, NEW twice, NEW s,
           RightIn(ds, D, twice, s)
    PROVE  RightIn(ds, D \union {L + 1}, TRUE, s)
<1> DEFINE E == D \union {L + 1}
<1>1. Min(E) = Min(D) /\ D \in SUBSET Nat /\ E # {}
  BY MinGrows
<1>2. IsAt(s, ds[Min(D)]) \/ IsAt(s, BestIn(ds, D))
  BY DEF RightIn
<1>3. StrongIn(ds, D) = {} => BestIn(ds, D) = ds[Min(D)]
  BY DEF BestIn
<1>4. StrongIn(ds, D) # {} => BestIn(ds, E) = BestIn(ds, D)
  <2> SUFFICES ASSUME StrongIn(ds, D) # {} PROVE BestIn(ds, E) = BestIn(ds, D)
    OBVIOUS
  <2>1. StrongIn(ds, D) \in SUBSET (1 .. L)
    BY DEF StrongIn
  <2>2. Min(StrongIn(ds, D) \union {L + 1}) = Min(StrongIn(ds, D))
    BY <2>1, MinGrows
  <2>3. \/ StrongIn(ds, E) = StrongIn(ds, D)
        \/ StrongIn(ds, E) = StrongIn(ds, D) \union {L + 1}
    BY DEF StrongIn
  <2> QED BY <2>2, <2>3 DEF BestIn
<1> QED BY <1>1, <1>2, <1>3, <1>4 DEF RightIn

(* A symbol without a section has no definition, and the other way.        *)
LEMMA RightUndef ==
    ASSUME NEW ds, NEW D \in SUBSET Nat, NEW twice, NEW s, RightIn(ds, D, twice, s),
           \A i \in D : ds[i] \in Def
    PROVE  s.shndx = "undef" <=> D = {}
<1>1. CASE D = {}
  BY <1>1 DEF RightIn
<1>2. CASE D # {}
  <2>1. PICK i \in D : IsAt(s, ds[i])
    BY <1>2, BestIs DEF RightIn
  <2>2. ds[i].shndx \in Sections4
    BY DEF Def
  <2>3. s.shndx # "undef"
    BY <2>1, <2>2 DEF IsAt, Sections4
  <2> QED BY <1>2, <2>3
<1> QED BY <1>1, <1>2

(* A common symbol that gets its storage.                                  *)
LEMMA RightMoves ==
    ASSUME NEW ds, NEW D, NEW twice, NEW s, NEW u, RightIn(ds, D, twice, s),
           s.shndx # "common" => u = s,
           s.shndx = "common" => u.shndx = "bss" /\ u.size = s.size
    PROVE  RightIn(ds, D, twice, u)
<1>1. ASSUME NEW d, IsAt(s, d) PROVE IsAt(u, d)
  BY <1>1 DEF IsAt
<1> QED BY <1>1 DEF RightIn

(* A symbol whose size alone changes, of a thing that is not common.       *)
LEMMA RightSized ==
    ASSUME NEW ds, NEW D \in SUBSET Nat, NEW twice, NEW s, NEW u, RightIn(ds, D, twice, s),
           \A i \in D : ds[i].shndx # "common", u.shndx = s.shndx, u.value = s.value
    PROVE  RightIn(ds, D, twice, u)
<1>1. CASE D = {}
  BY <1>1 DEF RightIn
<1>2. CASE D # {}
  <2>1. PICK i \in D : BestIn(ds, D) = ds[i]
    BY <1>2, BestIs
  <2>2. Min(D) \in D
    BY <1>2, BestIs
  <2>3. ASSUME NEW j \in D, IsAt(s, ds[j]) PROVE IsAt(u, ds[j])
    BY <2>3 DEF IsAt
  <2> QED BY <1>2, <2>1, <2>2, <2>3 DEF RightIn
<1> QED BY <1>1, <1>2

-----------------------------------------------------------------------------
(* The symbol that a name, as a unit means it (own), has: the one its Sym  *)
(* holds, the one of a relocation, or the global one.                      *)
Home(n, own, i) ==
    \/ i # 0 /\ i = syms[n].c /\ own = syms[n].own
    \/ \E r \in 1 .. Len(refs) : refs[r].sym = i /\ refs[r].name = n /\ refs[r].own = own
    \/ own = 0 /\ i \in 1 .. Len(table.symtab) /\ IsGlobal(table, i, n)

Right(s, n, own) == RightIn(defs, Defs(n, own), own = 0 /\ n \in complaints, s)

(* It is where its definitions say.                                        *)
HomesRight ==
    \A n \in Names : \A own, i : Home(n, own, i) =>
       /\ own \in 0 .. unit /\ i \in 1 .. Len(table.symtab)
       /\ table.symtab[i].name = n /\ (table.symtab[i].bind = "global" <=> own = 0)
       /\ Right(table.symtab[i], n, own)

(* A thing has one symbol, and a symbol is of one thing.                   *)
HomesApart ==
    \A n, m \in Names : \A own, o, i, j :
       Home(n, own, i) /\ Home(m, o, j) => (i = j <=> n = m /\ own = o)

(* What is defined has a symbol: a shared name in the table, one of the    *)
(* unit in its Sym.                                                        *)
HomesThere ==
    \A n \in Names : Defs(n, 0) # {} => \E i \in 1 .. Len(table.symtab) : IsGlobal(table, i, n)
HomesOfUnit ==
    \A n \in Names : \A i : compiling /\ (Defs(n, unit) # {} \/ Home(n, unit, i)) =>
       syms[n].own = unit /\ syms[n].c # 0

(* A definition is of this unit if the Sym says so.                        *)
DefsKept ==
    /\ defs \in Seq(Def)
    /\ \A k \in 1 .. Len(defs) :
          /\ defs[k].unit \in 0 .. unit /\ defs[k].own \in {0, defs[k].unit}
          /\ compiling /\ defs[k].unit = unit =>
                /\ Declared(defs[k].name) /\ ~syms[defs[k].name].extern
                /\ syms[defs[k].name].own = defs[k].own
SymsKept ==
    /\ compiling => unit > 0
    /\ \A n \in Names : Declared(n) =>
          syms[n].own \in {0, unit} /\ (syms[n].static <=> syms[n].own = unit)

(* tcc_relocate has found what is not defined in the process.              *)
LinkedAll ==
    ended = "linked" =>
       \A i \in 1 .. Len(table.symtab) :
          table.symtab[i].shndx = "undef" => table.symtab[i].name \in Extern

Resolved ==
    HomesRight /\ HomesApart /\ HomesThere /\ HomesOfUnit /\ DefsKept /\ SymsKept /\ LinkedAll

(* The programs do nothing odd, and leave its names to the linker.         *)
Sane == Avoided = Oddities /\ Names \intersect Linker = {}

-----------------------------------------------------------------------------
(* The places of the definitions of a thing.                               *)
LEMMA DefsIs ==
    ASSUME defs \in Seq(Def), NEW n, NEW own
    PROVE  /\ Len(defs) \in Nat /\ Defs(n, own) \in SUBSET (1 .. Len(defs))
           /\ Defs(n, own) \in SUBSET Nat
           /\ \A i \in Defs(n, own) : defs[i] \in Def /\ defs[i].name = n /\ defs[i].own = own
BY DEF Defs

(* What add_elf_sym does, exactly.                                         *)
Added(t, s, r) ==
    LET p == t.symtab
        q == r.table.symtab
    IN \/ /\ r.i = Len(p) + 1 /\ q = Append(p, s) /\ r.twice = FALSE
          /\ s.bind = "global" => \A j \in 1 .. Len(p) : ~IsGlobal(t, j, s.name)
       \/ /\ r.i \in 1 .. Len(p) /\ IsGlobal(t, r.i, s.name) /\ s.bind = "global"
          /\ Len(q) = Len(p) /\ \A j \in 1 .. Len(p) : j # r.i => q[j] = p[j]
          /\ \/ p[r.i].shndx = "undef" /\ q[r.i] = s /\ r.twice = FALSE
             \/ p[r.i].shndx # "undef" /\ q[r.i] = p[r.i] /\ r.twice = (s.shndx # "undef")

(* That it does so.                                                        *)
LEMMA AddExact ==
    ASSUME NEW t, Table(t), Good(t), NEW s \in Entry, s.name \in Named,
           NEW r, r = add_elf_sym(t, s)
    PROVE  Added(t, s, r)
<1> DEFINE N == Len(t.symtab)
<1>0. PICK i : i = find_elf_sym(t, s.name)
  OBVIOUS
<1>1. t.symtab \in Seq(Entry) /\ N \in Nat /\ DOMAIN t.symtab = 1 .. N /\ t \in Tables(Nb(t))
  BY TableParts
<1>2. IsFound(t, N, s.name, i)
  BY <1>0, FindGlobal DEF Good
<1>3. s.bind \in {"local", "global"}
  BY DEF Entry
<1>4. r = IF s.bind = "local" \/ i = 0 THEN Result(put_elf_sym(t, s), N + 1, FALSE)
          ELSE IF t.symtab[i].shndx = "undef" THEN Result([t EXCEPT !.symtab[i] = s], i, FALSE)
          ELSE Result(t, i, s.shndx # "undef")
  BY <1>0 DEF add_elf_sym
<1>5. CASE s.bind = "local" \/ i = 0
  <2>1. r.table = put_elf_sym(t, s) /\ r.i = N + 1 /\ r.twice = FALSE
    BY <1>4, <1>5 DEF Result
  <2>2. r.table.symtab = Append(t.symtab, s)
    BY <2>1, PutIs
  <2>3. 0 \notin 1 .. N
    OBVIOUS
  <2>4. s.bind = "global" => \A j \in 1 .. N : ~IsGlobal(t, j, s.name)
    BY <1>2, <1>5, <2>3 DEF IsFound
  <2> QED BY <2>1, <2>2, <2>4 DEF Added
<1>6. CASE s.bind = "global" /\ i # 0
  <2>1. i \in 1 .. N /\ IsGlobal(t, i, s.name)
    BY <1>2, <1>6 DEF IsFound
  <2>2. CASE t.symtab[i].shndx = "undef"
    <3>1. r = Result([t EXCEPT !.symtab[i] = s], i, FALSE)
      BY <1>4, <1>6, <2>2
    <3>2. r.table = [t EXCEPT !.symtab = [t.symtab EXCEPT ![i] = s]] /\ r.i = i /\ r.twice = FALSE
      BY <3>1 DEF Result
    <3>3. r.table.symtab = [t.symtab EXCEPT ![i] = s]
      BY <3>2, <1>1 DEF Tables
    <3>4. /\ Len(r.table.symtab) = N /\ r.table.symtab[i] = s
          /\ \A j \in 1 .. N : j # i => r.table.symtab[j] = t.symtab[j]
      BY <3>3, <1>1, <2>1
    <3> QED BY <3>2, <3>4, <2>1, <2>2, <1>6 DEF Added
  <2>3. CASE t.symtab[i].shndx # "undef"
    <3>1. r.table = t /\ r.i = i /\ r.twice = (s.shndx # "undef")
      BY <1>4, <1>6, <2>3 DEF Result
    <3> QED BY <3>1, <2>1, <2>3, <1>6 DEF Added
  <2> QED BY <2>2, <2>3
<1> QED BY <1>3, <1>5, <1>6

(* What becomes of the symbol of a thing whose Sym has c: it is a new one, *)
(* written again, or left, because another unit has defined the thing.     *)
Outcome(n, own, c, p, q, r, shndx, value, size) ==
    /\ r.i \in 1 .. Len(q) /\ Len(p) <= Len(q)
    /\ \A j \in 1 .. Len(q) : j # r.i => j \in 1 .. Len(p) /\ q[j] = p[j]
    /\ q[r.i].name = n /\ (q[r.i].bind = "global" <=> own = 0)
    /\ \/ /\ r.i = Len(p) + 1 /\ c = 0 /\ r.twice = FALSE
          /\ Defs(n, own) = {} /\ \A i : ~Home(n, own, i)
          /\ q[r.i].shndx = shndx /\ q[r.i].value = value /\ q[r.i].size = size
       \/ /\ Home(n, own, r.i) /\ (c = 0 => p[r.i].shndx = "undef") /\ r.twice = FALSE
          /\ q[r.i].shndx = shndx /\ q[r.i].value = value /\ q[r.i].size = size
       \/ /\ Home(n, own, r.i) /\ own = 0 /\ c = 0
          /\ q[r.i] = p[r.i] /\ p[r.i].shndx # "undef" /\ r.twice = (shndx # "undef")

(* add_elf_sym, for a thing without a symbol in its Sym.                   *)
LEMMA AddOutcome ==
    ASSUME IInv, Resolved, Good(table), NEW n \in Names, NEW own,
           NEW s \in Entry, s.name = n, s.bind = "global" <=> own = 0,
           own # 0 => Defs(n, own) = {} /\ \A i : ~Home(n, own, i),
           NEW r, r = add_elf_sym(table, s)
    PROVE  Outcome(n, own, 0, table.symtab, r.table.symtab, r, s.shndx, s.value, s.size)
<1>1. Table(table) /\ HomesRight /\ HomesThere
  BY DEF IInv, Laid, Resolved
<1>2. PICK p \in Seq(Entry), N \in Nat : p = table.symtab /\ N = Len(p) /\ DOMAIN p = 1 .. N
  BY <1>1, TableParts
<1>3. n \in Named
  BY DEF Named
<1>4. Added(table, s, r)
  BY <1>1, <1>3, AddExact
<1>5. PICK q : q = r.table.symtab
  OBVIOUS
<1>6. CASE /\ r.i = Len(p) + 1 /\ q = Append(p, s) /\ r.twice = FALSE
           /\ s.bind = "global" => \A j \in 1 .. Len(p) : ~IsGlobal(table, j, n)
  <2>1. /\ Len(q) = N + 1 /\ q[N + 1] = s /\ r.i = N + 1
        /\ \A j \in 1 .. N + 1 : j # N + 1 => j \in 1 .. N /\ q[j] = p[j]
    BY <1>2, <1>6
  <2>2. own = 0 => \A j \in 1 .. Len(p) : ~IsGlobal(table, j, n)
    BY <1>6
  <2>3. own = 0 => Defs(n, own) = {}
    BY <2>2, <1>1, <1>2 DEF HomesThere
  <2>4. ASSUME own = 0, NEW i, Home(n, own, i) PROVE FALSE
    <3>1. i \in 1 .. Len(p) /\ table.symtab[i].name = n /\ table.symtab[i].bind = "global"
      BY <2>4, <1>1, <1>2 DEF HomesRight
    <3> QED BY <3>1, <2>2, <2>4 DEF IsGlobal
  <2>5. Defs(n, own) = {} /\ \A i : ~Home(n, own, i)
    BY <2>3, <2>4
  <2>6. /\ r.i \in 1 .. Len(q) /\ Len(p) <= Len(q)
        /\ \A j \in 1 .. Len(q) : j # r.i => j \in 1 .. Len(p) /\ q[j] = p[j]
    BY <2>1, <1>2
  <2> QED BY <2>1, <2>5, <2>6, <1>2, <1>5, <1>6 DEF Outcome
<1>7. CASE /\ r.i \in 1 .. Len(p) /\ IsGlobal(table, r.i, n) /\ s.bind = "global"
           /\ Len(q) = Len(p) /\ \A j \in 1 .. Len(p) : j # r.i => q[j] = p[j]
           /\ \/ p[r.i].shndx = "undef" /\ q[r.i] = s /\ r.twice = FALSE
              \/ p[r.i].shndx # "undef" /\ q[r.i] = p[r.i] /\ r.twice = (s.shndx # "undef")
  <2>1. own = 0 /\ Home(n, own, r.i)
    BY <1>2, <1>7 DEF Home
  <2>2. /\ r.i \in 1 .. Len(q) /\ Len(p) <= Len(q)
        /\ \A j \in 1 .. Len(q) : j # r.i => j \in 1 .. Len(p) /\ q[j] = p[j]
    BY <1>2, <1>7
  <2>3. p[r.i].name = n /\ p[r.i].bind = "global"
    BY <1>2, <1>7 DEF IsGlobal
  <2>4. CASE p[r.i].shndx = "undef" /\ q[r.i] = s /\ r.twice = FALSE
    BY <2>1, <2>2, <2>4, <1>2, <1>5 DEF Outcome
  <2>5. CASE p[r.i].shndx # "undef" /\ q[r.i] = p[r.i] /\ r.twice = (s.shndx # "undef")
    BY <2>1, <2>2, <2>3, <2>5, <1>2, <1>5 DEF Outcome
  <2> QED BY <2>4, <2>5, <1>7
<1> QED BY <1>2, <1>4, <1>5, <1>6, <1>7 DEF Added

(* A Sym that block, decl and sym_push may leave for a name.               *)
Fits(s, n) ==
    /\ s \in Sym /\ s.own \in {0, unit} /\ (s.static <=> s.own = unit) /\ s.c = syms[n].c
    /\ Declared(n) => s.own = syms[n].own /\ s.extern = syms[n].extern

(* put_extern_sym2 of such a Sym.                                          *)
LEMMA ExternOutcome ==
    ASSUME IInv, Resolved, Good(table), compiling, NEW n \in Names, NEW s, Fits(s, n),
           NEW shndx \in Sections, NEW value \in Nat, NEW size \in Nat,
           NEW r, r = put_extern_sym2(s, n, shndx, value, size)
    PROVE  Outcome(n, s.own, s.c, table.symtab, r.table.symtab, r, shndx, value, size)
<1>1. Table(table) /\ Units /\ HomesRight /\ HomesOfUnit /\ SymsKept
  BY DEF IInv, Laid, Resolved
<1>2. s.c \in 0 .. Len(table.symtab) /\ s.own \in {0, unit}
  BY <1>1 DEF Fits, Units
<1>3. CASE s.c = 0
  <2>1. PICK e : e = Symbol(n, IF s.static THEN "local" ELSE "global", shndx, value, size)
    OBVIOUS
  <2>2. s.static \in BOOLEAN /\ (s.static <=> s.own = unit) /\ unit # 0
    BY <1>1 DEF Fits, Sym, SymsKept
  <2>3. e.bind \in {"local", "global"} /\ (e.bind = "global" <=> s.own = 0)
    BY <2>1, <2>2, <1>2 DEF Symbol
  <2>4. e \in Entry /\ e.name = n /\ e.shndx = shndx /\ e.value = value /\ e.size = size
    BY <2>1, <2>3 DEF Symbol, Entry, Named, Sections
  <2>5. r = add_elf_sym(table, e)
    BY <2>1, <1>3 DEF put_extern_sym2
  <2>6. s.own # 0 => Defs(n, s.own) = {} /\ \A i : ~Home(n, s.own, i)
    BY <1>1, <1>2, <1>3 DEF HomesOfUnit, Fits
  <2> QED BY <2>3, <2>4, <2>5, <2>6, <1>3, AddOutcome
<1>4. CASE s.c # 0
  <2>1. PICK p \in Seq(Entry), N \in Nat : p = table.symtab /\ N = Len(p) /\ DOMAIN p = 1 .. N
    BY <1>1, TableParts
  <2>2. PICK i \in 1 .. N : i = s.c
    BY <1>2, <1>4, <2>1
  <2>3. syms[n].c = i /\ i # 0
    BY <2>2, <1>4 DEF Fits
  <2>4. Declared(n)
    BY <2>3 DEF Declared, NoSym
  <2>5. Home(n, s.own, i)
    BY <2>3, <2>4 DEF Home, Fits
  <2>6. p[i].name = n /\ (p[i].bind = "global" <=> s.own = 0) /\ p[i] \in Entry
    BY <2>1, <2>5, <1>1 DEF HomesRight
  <2>7. PICK e : e = [p[i] EXCEPT !.shndx = shndx, !.value = value, !.size = size]
    OBVIOUS
  <2>8. e.name = n /\ e.bind = p[i].bind /\ e.shndx = shndx /\ e.value = value /\ e.size = size
    BY <2>6, <2>7 DEF Entry
  <2>9. r = Result([table EXCEPT !.symtab[s.c] =
                       [@ EXCEPT !.shndx = shndx, !.value = value, !.size = size]], s.c, FALSE)
    BY <1>4 DEF put_extern_sym2
  <2>10. r.table = [table EXCEPT !.symtab = [p EXCEPT ![i] = e]] /\ r.i = i /\ r.twice = FALSE
    BY <2>1, <2>2, <2>7, <2>9 DEF Result
  <2>11. PICK q : q = [p EXCEPT ![i] = e]
    OBVIOUS
  <2>12. r.table.symtab = q
    <3>1. table \in Tables(Nb(table))
      BY <1>1, TableParts
    <3> QED BY <3>1, <2>10, <2>11 DEF Tables
  <2>13. Len(q) = N /\ q[i] = e /\ \A j \in 1 .. N : j # i => q[j] = p[j]
    BY <2>1, <2>11
  <2>14. /\ r.i \in 1 .. Len(q) /\ Len(p) <= Len(q)
         /\ \A j \in 1 .. Len(q) : j # r.i => j \in 1 .. Len(p) /\ q[j] = p[j]
    BY <2>1, <2>10, <2>13
  <2> QED BY <2>1, <2>2, <2>5, <2>6, <2>8, <2>10, <2>12, <2>13, <2>14, <1>4 DEF Outcome
<1> QED BY <1>3, <1>4

-----------------------------------------------------------------------------
(* One more definition.                                                    *)
LEMMA DefsGrow ==
    ASSUME defs \in Seq(Def), NEW d \in Def, defs' = Append(defs, d), NEW n, NEW own
    PROVE  /\ defs' \in Seq(Def) /\ Len(defs') = Len(defs) + 1 /\ defs'[Len(defs) + 1] = d
           /\ \A i \in 1 .. Len(defs) : defs'[i] = defs[i]
           /\ Defs(n, own)' = IF n = d.name /\ own = d.own
                              THEN Defs(n, own) \union {Len(defs) + 1} ELSE Defs(n, own)
<1>1. PICK L \in Nat : L = Len(defs) /\ DOMAIN defs = 1 .. L
  OBVIOUS
<1>2. /\ defs' \in Seq(Def) /\ Len(defs') = L + 1 /\ defs'[L + 1] = d /\ DOMAIN defs' = 1 .. L + 1
      /\ \A i \in 1 .. L : defs'[i] = defs[i]
  BY <1>1
<1>3. \A i : i \in 1 .. L + 1 <=> i \in 1 .. L \/ i = L + 1
  BY <1>1
<1>4. L + 1 \notin 1 .. L
  BY <1>1
<1>5. Defs(n, own)' = {i \in 1 .. L + 1 : defs'[i].name = n /\ defs'[i].own = own}
  BY <1>2 DEF Defs
<1>6. Defs(n, own) = {i \in 1 .. L : defs[i].name = n /\ defs[i].own = own}
  BY <1>1 DEF Defs
<1> QED BY <1>1, <1>2, <1>3, <1>4, <1>5, <1>6

(* A step that defines at most the thing n of own, or reports it twice.    *)
Says(n, own) ==
    /\ defs' = defs \/ \E d \in Def : d.name = n /\ d.own = own /\ defs' = Append(defs, d)
    /\ complaints \subseteq complaints' /\ complaints' \subseteq complaints \union {n}
    /\ own # 0 => complaints' = complaints

RightNext(s, n, own) == RightIn(defs', Defs(n, own)', own = 0 /\ n \in complaints', s)

(* It is of no matter to another thing.                                    *)
LEMMA OthersRight ==
    ASSUME defs \in Seq(Def), NEW n, NEW own, Says(n, own),
           NEW m, NEW o, ~(m = n /\ o = own), NEW s
    PROVE  Defs(m, o)' = Defs(m, o) /\ (Right(s, m, o) => RightNext(s, m, o))
<1>1. Defs(m, o)' = Defs(m, o) /\ \A i \in Defs(m, o) : defs'[i] = defs[i]
  <2>1. CASE defs' = defs
    BY <2>1 DEF Defs
  <2>2. CASE \E d \in Def : d.name = n /\ d.own = own /\ defs' = Append(defs, d)
    <3>1. PICK d \in Def : d.name = n /\ d.own = own /\ defs' = Append(defs, d)
      BY <2>2
    <3> QED BY <3>1, DefsGrow, DefsIs
  <2> QED BY <2>1, <2>2 DEF Says
<1>2. (o = 0 /\ m \in complaints') <=> (o = 0 /\ m \in complaints)
  BY DEF Says
<1>3. Defs(m, o) \in SUBSET Nat
  BY DefsIs
<1>4. PICK D \in SUBSET Nat : D = Defs(m, o)
  BY <1>3
<1>5. PICK a \in BOOLEAN : a <=> (o = 0 /\ m \in complaints)
  OBVIOUS
<1>6. (o = 0 /\ m \in complaints) = a /\ (o = 0 /\ m \in complaints') = a
  BY <1>2, <1>5
<1>7. Right(s, m, o) = RightIn(defs, D, a, s)
  BY <1>4, <1>6 DEF Right
<1>8. RightNext(s, m, o) = RightIn(defs', D, a, s)
  BY <1>1, <1>4, <1>6 DEF RightNext
<1>9. RightIn(defs, D, a, s) => RightIn(defs', D, a, s)
  BY <1>1, <1>4, RightSame
<1> QED BY <1>1, <1>7, <1>8, <1>9

(* A step after which k is the symbol of n of own, and is right.           *)
Settles(n, own, k) ==
    /\ k \in 1 .. Len(table'.symtab) /\ Len(table.symtab) <= Len(table'.symtab)
    /\ \A j \in 1 .. Len(table'.symtab) : j # k =>
          j \in 1 .. Len(table.symtab) /\ table'.symtab[j] = table.symtab[j]
    /\ table'.symtab[k].name = n /\ (table'.symtab[k].bind = "global" <=> own = 0)
    /\ RightNext(table'.symtab[k], n, own)
    /\ Home(n, own, k) \/ (k = Len(table.symtab) + 1 /\ \A i : ~Home(n, own, i))

(* No other has a symbol since.                                            *)
HomesFrom(n, own, k) ==
    \A m \in Names : \A o, i : Home(m, o, i)' => Home(m, o, i) \/ (m = n /\ o = own /\ i = k)

(* Then each thing still has its symbol, to itself, and it is right.       *)
LEMMA HomesStep ==
    ASSUME Resolved, Table(table), Table(table'), NEW n \in Names, NEW own \in 0 .. unit, NEW k,
           Says(n, own), Settles(n, own, k), HomesFrom(n, own, k), unit' = unit
    PROVE  HomesRight' /\ HomesApart' /\ HomesThere'
<1>1. HomesRight /\ HomesApart /\ HomesThere /\ defs \in Seq(Def)
  BY DEF Resolved, DefsKept
<1>2. PICK p \in Seq(Entry), N \in Nat : p = table.symtab /\ N = Len(p)
  BY TableParts
<1>3. PICK q \in Seq(Entry), M \in Nat : q = table'.symtab /\ M = Len(q)
  BY TableParts
<1>4. /\ k \in 1 .. M /\ N <= M
      /\ \A j \in 1 .. M : j # k => j \in 1 .. N /\ q[j] = p[j]
      /\ q[k].name = n /\ (q[k].bind = "global" <=> own = 0) /\ RightNext(q[k], n, own)
      /\ Home(n, own, k) \/ (k = N + 1 /\ \A i : ~Home(n, own, i))
  BY <1>2, <1>3 DEF Settles
<1>5. ASSUME NEW m \in Names, NEW o, NEW i, Home(m, o, i)
      PROVE  /\ i = k <=> m = n /\ o = own
             /\ o \in 0 .. unit /\ i \in 1 .. N /\ i \in 1 .. M
             /\ p[i].name = m /\ (p[i].bind = "global" <=> o = 0) /\ Right(p[i], m, o)
  <2>1. /\ o \in 0 .. unit /\ i \in 1 .. N
        /\ p[i].name = m /\ (p[i].bind = "global" <=> o = 0) /\ Right(p[i], m, o)
    BY <1>5, <1>1, <1>2 DEF HomesRight
  <2>2. i \in 1 .. M /\ i # N + 1
    BY <2>1, <1>2, <1>3, <1>4
  <2>3. CASE Home(n, own, k)
    BY <2>1, <2>2, <2>3, <1>5, <1>1 DEF HomesApart
  <2>4. CASE k = N + 1 /\ \A j : ~Home(n, own, j)
    BY <2>1, <2>2, <2>4, <1>5
  <2> QED BY <2>3, <2>4, <1>4
<1>6. HomesRight'
  <2> SUFFICES ASSUME NEW m \in Names, NEW o, NEW i, Home(m, o, i)'
               PROVE  /\ o \in 0 .. unit' /\ i \in 1 .. Len(table'.symtab)
                      /\ table'.symtab[i].name = m /\ (table'.symtab[i].bind = "global" <=> o = 0)
                      /\ RightNext(table'.symtab[i], m, o)
    BY DEF HomesRight, Right, RightNext
  <2>1. CASE m = n /\ o = own /\ i = k
    BY <2>1, <1>3, <1>4
  <2>2. CASE Home(m, o, i) /\ ~(m = n /\ o = own)
    <3>1. i # k /\ q[i] = p[i]
      BY <2>2, <1>4, <1>5
    <3>2. PICK x : x = p[i]
      OBVIOUS
    <3>3. Right(x, m, o)
      BY <3>2, <2>2, <1>5
    <3>4. ~(m = n /\ o = own)
      BY <2>2
    <3>5. Defs(m, o)' = Defs(m, o) /\ (Right(x, m, o) => RightNext(x, m, o))
      BY <3>4, <1>1, OthersRight DEF Right, RightNext
    <3>6. RightNext(x, m, o)
      BY <3>3, <3>5
    <3> QED BY <3>1, <3>2, <3>6, <2>2, <1>3, <1>5
  <2>3. Home(m, o, i) /\ m = n /\ o = own => i = k
    BY <1>5
  <2> QED BY <2>1, <2>2, <2>3 DEF HomesFrom
<1>7. HomesApart'
  <2> SUFFICES ASSUME NEW m \in Names, NEW l \in Names, NEW o, NEW w, NEW i, NEW j,
                      Home(m, o, i)', Home(l, w, j)'
               PROVE  i = j <=> m = l /\ o = w
    BY DEF HomesApart
  <2>1. Home(m, o, i) \/ (m = n /\ o = own /\ i = k)
    BY DEF HomesFrom
  <2>2. Home(l, w, j) \/ (l = n /\ w = own /\ j = k)
    BY DEF HomesFrom
  <2>3. CASE Home(m, o, i) /\ Home(l, w, j)
    BY <2>3, <1>1 DEF HomesApart
  <2>4. CASE Home(m, o, i) /\ l = n /\ w = own /\ j = k
    BY <2>4, <1>5
  <2>5. CASE Home(l, w, j) /\ m = n /\ o = own /\ i = k
    BY <2>5, <1>5
  <2>6. CASE m = n /\ o = own /\ i = k /\ l = n /\ w = own /\ j = k
    BY <2>6
  <2> QED BY <2>1, <2>2, <2>3, <2>4, <2>5, <2>6
<1>8. HomesThere'
  <2> SUFFICES ASSUME NEW m \in Names, Defs(m, 0)' # {}
               PROVE  \E i \in 1 .. Len(table'.symtab) : IsGlobal(table', i, m)
    BY DEF HomesThere
  <2>1. CASE m = n /\ own = 0
    BY <2>1, <1>3, <1>4 DEF IsGlobal
  <2>2. CASE ~(m = n /\ own = 0)
    <3>1. Defs(m, 0) # {}
      BY <2>2, <1>1, OthersRight
    <3>2. PICK i \in 1 .. N : IsGlobal(table, i, m)
      BY <3>1, <1>1, <1>2 DEF HomesThere
    <3>3. Home(m, 0, i)
      BY <3>2, <1>2 DEF Home
    <3>4. i # k /\ i \in 1 .. M /\ q[i] = p[i]
      BY <3>3, <2>2, <1>4, <1>5
    <3> QED BY <3>2, <3>4, <1>2, <1>3 DEF IsGlobal
  <2> QED BY <2>1, <2>2
<1> QED BY <1>6, <1>7, <1>8

(* A name of a unit that comes to its symbol k.                            *)
Comes(n, x, k) ==
    /\ x \in Sym /\ x.c = k /\ k # 0
    /\ x.own \in {0, unit} /\ (x.static <=> x.own = unit)
    /\ Declared(n) => x.own = syms[n].own /\ (x.extern => syms[n].extern)
    /\ \A m \in Names : syms'[m] = IF m = n THEN x ELSE syms[m]

(* The relocations of a step, and its definition.                          *)
Refers(n, own, k) == refs' = refs \/ refs' = Append(refs, [sym |-> k, name |-> n, own |-> own])
Defines(n, x) ==
    \/ defs' = defs
    \/ \E d \in Def : d.name = n /\ d.own = x.own /\ d.unit = unit /\ ~x.extern
                      /\ defs' = Append(defs, d)

(* The symbols that things have then are those they had, and this one.     *)
LEMMA HomesFromSym ==
    ASSUME IInv, Table(table'), NEW n \in Names, NEW x, NEW k,
           Comes(n, x, k), Refers(n, x.own, k), Settles(n, x.own, k)
    PROVE  HomesFrom(n, x.own, k)
<1>1. Table(table) /\ refs \in Seq(Ref)
  BY DEF IInv, Laid, Refs
<1>2. PICK p \in Seq(Entry), N \in Nat : p = table.symtab /\ N = Len(p)
  BY <1>1, TableParts
<1>3. PICK q \in Seq(Entry), M \in Nat : q = table'.symtab /\ M = Len(q)
  BY TableParts
<1>4. /\ \A j \in 1 .. M : j # k => j \in 1 .. N /\ q[j] = p[j]
      /\ q[k].name = n /\ (q[k].bind = "global" <=> x.own = 0)
  BY <1>2, <1>3 DEF Settles
<1> SUFFICES ASSUME NEW m \in Names, NEW o, NEW i, Home(m, o, i)'
             PROVE  Home(m, o, i) \/ (m = n /\ o = x.own /\ i = k)
  BY DEF HomesFrom
<1>5. CASE i # 0 /\ i = syms'[m].c /\ o = syms'[m].own
  <2>1. CASE m = n
    BY <2>1, <1>5 DEF Comes
  <2>2. CASE m # n
    BY <2>2, <1>5 DEF Comes, Home
  <2> QED BY <2>1, <2>2
<1>6. CASE \E r \in 1 .. Len(refs') : refs'[r].sym = i /\ refs'[r].name = m /\ refs'[r].own = o
  <2>1. CASE refs' = refs
    BY <2>1, <1>6 DEF Home
  <2>2. CASE refs' = Append(refs, [sym |-> k, name |-> n, own |-> x.own])
    <3>1. PICK y : y = [sym |-> k, name |-> n, own |-> x.own]
      OBVIOUS
    <3>2. y.sym = k /\ y.name = n /\ y.own = x.own
      BY <3>1
    <3>3. PICK L \in Nat : L = Len(refs)
      BY <1>1
    <3>4. /\ Len(refs') = L + 1 /\ refs'[L + 1] = y /\ \A r \in 1 .. L : refs'[r] = refs[r]
      BY <2>2, <3>1, <3>3, <1>1
    <3>5. PICK r \in 1 .. L + 1 : refs'[r].sym = i /\ refs'[r].name = m /\ refs'[r].own = o
      BY <3>4, <1>6
    <3>6. r = L + 1 \/ r \in 1 .. L
      OBVIOUS
    <3> QED BY <3>2, <3>3, <3>4, <3>5, <3>6 DEF Home
  <2> QED BY <2>1, <2>2 DEF Refers
<1>7. CASE o = 0 /\ i \in 1 .. M /\ q[i].name = m /\ q[i].bind = "global"
  <2>1. CASE i = k
    BY <2>1, <1>4, <1>7
  <2>2. CASE i # k
    <3>1. i \in 1 .. N /\ q[i] = p[i]
      BY <2>2, <1>4, <1>7
    <3> QED BY <3>1, <1>2, <1>7 DEF Home, IsGlobal
  <2> QED BY <2>1, <2>2
<1> QED BY <1>3, <1>5, <1>6, <1>7 DEF Home, IsGlobal

(* A step of a unit that brings a name to its symbol.                      *)
LEMMA SymStep ==
    ASSUME IInv, Resolved, Table(table'), compiling, UNCHANGED <<unit, compiling, ended>>,
           NEW n \in Names, NEW x, NEW k,
           Comes(n, x, k), Refers(n, x.own, k), Defines(n, x),
           Says(n, x.own), Settles(n, x.own, k)
    PROVE  Resolved'
<1>1. Table(table) /\ Units /\ HomesOfUnit /\ DefsKept /\ SymsKept
  BY DEF IInv, Laid, Resolved
<1>2. unit \in Nat /\ unit > 0 /\ ended = "no"
  BY <1>1, ElfAssumption DEF Units, SymsKept
<1>3. PICK own : own = x.own
  OBVIOUS
<1>4. own \in 0 .. unit
  BY <1>2, <1>3 DEF Comes
<1>5. HomesFrom(n, own, k)
  BY <1>3, HomesFromSym
<1>6. HomesRight' /\ HomesApart' /\ HomesThere'
  <2>1. Says(n, own) /\ Settles(n, own, k)
    BY <1>3
  <2> QED BY <2>1, <1>1, <1>4, <1>5, HomesStep
<1>7. HomesOfUnit'
  <2> SUFFICES ASSUME NEW m \in Names, NEW i, Defs(m, unit)' # {} \/ Home(m, unit, i)'
               PROVE  syms'[m].own = unit /\ syms'[m].c # 0
    BY DEF HomesOfUnit
  <2>1. CASE m = n /\ own = unit
    BY <2>1, <1>3 DEF Comes
  <2>2. CASE ~(m = n /\ own = unit)
    <3>1. Defs(m, unit)' = Defs(m, unit)
      <4>1. defs \in Seq(Def) /\ Says(n, own) /\ ~(m = n /\ unit = own)
        BY <2>2, <1>1, <1>3 DEF DefsKept
      <4>2. PICK u : u = unit
        OBVIOUS
      <4>3. Defs(m, u)' = Defs(m, u)
        BY <4>1, <4>2, OthersRight
      <4> QED BY <4>2, <4>3
    <3>2. Home(m, unit, i)' => Home(m, unit, i)
      BY <2>2, <1>5 DEF HomesFrom
    <3>3. syms[m].own = unit /\ syms[m].c # 0
      BY <3>1, <3>2, <1>1 DEF HomesOfUnit
    <3>4. Declared(m)
      BY <3>3, <1>2 DEF Declared, NoSym
    <3>5. m # n
      BY <3>3, <3>4, <2>2, <1>3 DEF Comes
    <3> QED BY <3>3, <3>5 DEF Comes
  <2> QED BY <2>1, <2>2
<1>8. SymsKept'
  BY <1>1, <1>2 DEF SymsKept, Comes, Declared
<1>9. LinkedAll'
  BY <1>2 DEF LinkedAll
<1>10. DefsKept'
  <2>1. PICK L \in Nat : L = Len(defs) /\ defs \in Seq(Def)
    BY <1>1 DEF DefsKept
  <2>2. ASSUME NEW j \in 1 .. L
        PROVE  /\ defs[j].unit \in 0 .. unit' /\ defs[j].own \in {0, defs[j].unit}
               /\ compiling' /\ defs[j].unit = unit' =>
                     /\ syms'[defs[j].name] # NoSym /\ ~syms'[defs[j].name].extern
                     /\ syms'[defs[j].name].own = defs[j].own
    <3>1. defs[j] \in Def
      BY <2>1
    <3>2. PICK m \in Names : m = defs[j].name
      BY <3>1 DEF Def
    <3>3. /\ defs[j].unit \in 0 .. unit /\ defs[j].own \in {0, defs[j].unit}
          /\ defs[j].unit = unit => Declared(m) /\ ~syms[m].extern /\ syms[m].own = defs[j].own
      BY <2>1, <3>2, <1>1 DEF DefsKept
    <3>4. syms'[m] = IF m = n THEN x ELSE syms[m]
      BY DEF Comes
    <3>5. Declared(m)' <=> syms'[m] # NoSym
      BY DEF Declared
    <3>6. ASSUME defs[j].unit = unit
          PROVE  Declared(m)' /\ ~syms'[m].extern /\ syms'[m].own = defs[j].own
      <4>1. Declared(m) /\ ~syms[m].extern /\ syms[m].own = defs[j].own
        BY <3>3, <3>6
      <4>2. CASE m = n
        <5>1. x # NoSym /\ x.own = syms[m].own /\ ~x.extern
          BY <4>1, <4>2, <1>2 DEF Comes, NoSym
        <5> QED BY <5>1, <4>1, <4>2, <3>4, <3>5
      <4>3. CASE m # n
        BY <4>1, <4>3, <3>4, <3>5 DEF Declared
      <4> QED BY <4>2, <4>3
    <3> QED BY <3>2, <3>3, <3>5, <3>6, <1>2
  <2>3. CASE defs' = defs
    BY <2>1, <2>2, <2>3 DEF DefsKept, Declared
  <2>4. CASE \E d \in Def : d.name = n /\ d.own = x.own /\ d.unit = unit /\ ~x.extern
                            /\ defs' = Append(defs, d)
    <3>1. PICK d \in Def : d.name = n /\ d.own = x.own /\ d.unit = unit /\ ~x.extern
                           /\ defs' = Append(defs, d)
      BY <2>4
    <3>2. /\ defs' \in Seq(Def) /\ Len(defs') = L + 1 /\ defs'[L + 1] = d
          /\ \A j \in 1 .. L : defs'[j] = defs[j]
      BY <2>1, <3>1, DefsGrow
    <3>3. syms'[n] = x /\ Declared(n)'
      BY <1>2 DEF Comes, NoSym, Declared
    <3>4. /\ d.unit \in 0 .. unit' /\ d.own \in {0, d.unit}
          /\ syms'[d.name] # NoSym /\ ~syms'[d.name].extern /\ syms'[d.name].own = d.own
      BY <3>1, <3>3, <1>2 DEF Comes, Declared
    <3>5. \A j \in 1 .. L + 1 : j \in 1 .. L \/ j = L + 1
      OBVIOUS
    <3> QED BY <2>2, <3>2, <3>4, <3>5 DEF DefsKept, Declared
  <2> QED BY <2>3, <2>4 DEF Defines
<1> QED BY <1>6, <1>7, <1>8, <1>9, <1>10 DEF Resolved

-----------------------------------------------------------------------------
(* What the symbol of a thing is after add_elf_sym or put_extern_sym2.  A  *)
(* definition with a section: unless the unit that has c defines again     *)
(* what is initialized, the first one has the symbol.                      *)
LEMMA StrongRight ==
    ASSUME HomesRight, defs \in Seq(Def), NEW n \in Names, NEW own, NEW c,
           NEW p, p = table.symtab, NEW q, NEW r, NEW shndx, NEW value, NEW size,
           Outcome(n, own, c, p, q, r, shndx, value, size),
           c # 0 => StrongIn(defs, Defs(n, own)) = {},
           shndx # "undef", shndx # "common",
           NEW d \in Def, d.name = n, d.own = own, d.shndx = shndx, d.value = value,
           defs' = Append(defs, d), own = 0 /\ r.twice => n \in complaints'
    PROVE  RightNext(q[r.i], n, own)
<1>1. PICK L \in Nat : L = Len(defs)
  OBVIOUS
<1>2. PICK D \in SUBSET (1 .. L) : D = Defs(n, own)
  BY <1>1, DefsIs
<1>3. D \in SUBSET Nat /\ \A j \in D : defs[j] \in Def
  BY <1>2, DefsIs
<1>4. PICK es : es = defs'
  OBVIOUS
<1>5. es[L + 1] = d /\ (\A j \in D : es[j] = defs[j]) /\ Defs(n, own)' = D \union {L + 1}
  BY <1>1, <1>2, <1>4, DefsGrow
<1>6. PICK a : a = (own = 0 /\ n \in complaints')
  OBVIOUS
<1>7. PICK b : b = (own = 0 /\ n \in complaints)
  OBVIOUS
<1>8. PICK s : s = q[r.i]
  OBVIOUS
<1>9. RightIn(es, D \union {L + 1}, a, s) => RightNext(q[r.i], n, own)
  BY <1>4, <1>5, <1>6, <1>8 DEF RightNext
<1>10. ASSUME Home(n, own, r.i)
       PROVE  /\ RightIn(defs, D, b, p[r.i])
              /\ p[r.i].shndx = "undef" <=> D = {}
  <2>1. Right(p[r.i], n, own)
    BY <1>10 DEF HomesRight
  <2>2. RightIn(defs, D, b, p[r.i])
    BY <2>1, <1>2, <1>7 DEF Right
  <2> QED BY <2>2, <1>3, RightUndef
<1>11. ASSUME s.shndx = shndx, s.value = value, StrongIn(defs, D) = {}
       PROVE  RightIn(es, D \union {L + 1}, a, s)
  <2>1. StrongIn(es, D) = {}
    BY <1>5, <1>11 DEF StrongIn
  <2>2. es[L + 1].shndx # "common" /\ IsAt(s, es[L + 1])
    BY <1>5, <1>11 DEF IsAt
  <2>3. L + 1 \in Nat
    OBVIOUS
  <2> QED BY <2>1, <2>2, <2>3, <1>3, RightOver
<1>12. D = {} => StrongIn(defs, D) = {}
  BY DEF StrongIn
<1>13. CASE /\ r.i = Len(p) + 1 /\ c = 0 /\ r.twice = FALSE
            /\ Defs(n, own) = {} /\ \A i : ~Home(n, own, i)
            /\ q[r.i].shndx = shndx /\ q[r.i].value = value /\ q[r.i].size = size
  BY <1>2, <1>8, <1>9, <1>11, <1>12, <1>13
<1>14. CASE /\ Home(n, own, r.i) /\ (c = 0 => p[r.i].shndx = "undef") /\ r.twice = FALSE
            /\ q[r.i].shndx = shndx /\ q[r.i].value = value /\ q[r.i].size = size
  BY <1>2, <1>8, <1>9, <1>10, <1>11, <1>12, <1>14
<1>15. CASE /\ Home(n, own, r.i) /\ own = 0 /\ c = 0
            /\ q[r.i] = p[r.i] /\ p[r.i].shndx # "undef" /\ r.twice = (shndx # "undef")
  <2>1. D # {} /\ RightIn(defs, D, b, s)
    BY <1>8, <1>10, <1>15
  <2>2. RightIn(es, D, b, s)
    BY <2>1, <1>3, <1>5, RightSame
  <2>3. RightIn(es, D \union {L + 1}, TRUE, s)
    BY <2>1, <2>2, RightKept
  <2>4. a = TRUE
    BY <1>6, <1>15
  <2> QED BY <2>3, <2>4, <1>9
<1> QED BY <1>13, <1>14, <1>15 DEF Outcome

(* One without, where no unit has initialized the thing: a common symbol.  *)
LEMMA CommonRight ==
    ASSUME HomesRight, defs \in Seq(Def), NEW n \in Names, NEW own, NEW c,
           NEW p, p = table.symtab, NEW q, NEW r,
           Outcome(n, own, c, p, q, r, "undef", 0, Size[n]),
           StrongIn(defs, Defs(n, own)) = {},
           NEW d \in Def, d.name = n, d.own = own, d.shndx = "common", defs' = Append(defs, d),
           NEW s, s.shndx = "common", s.size = q[r.i].size
    PROVE  RightNext(s, n, own)
<1>1. PICK L \in Nat : L = Len(defs)
  OBVIOUS
<1>2. PICK D \in SUBSET (1 .. L) : D = Defs(n, own)
  BY <1>1, DefsIs
<1>3. D \in SUBSET Nat /\ \A j \in D : defs[j] \in Def /\ defs[j].name = n
  BY <1>2, DefsIs
<1>4. PICK es : es = defs'
  OBVIOUS
<1>5. es[L + 1] = d /\ (\A j \in D : es[j] = defs[j]) /\ Defs(n, own)' = D \union {L + 1}
  BY <1>1, <1>2, <1>4, DefsGrow
<1>6. PICK a : a = (own = 0 /\ n \in complaints')
  OBVIOUS
<1>7. PICK b : b = (own = 0 /\ n \in complaints)
  OBVIOUS
<1>8. PICK E \in SUBSET Nat : E = D \union {L + 1}
  <2>1. L + 1 \in Nat
    OBVIOUS
  <2> QED BY <2>1, <1>3
<1>9. RightIn(es, E, a, s) => RightNext(s, n, own)
  BY <1>4, <1>5, <1>6, <1>8 DEF RightNext
<1>10. s.size = Size[n]
  <2>1. CASE q[r.i].size = Size[n]
    BY <2>1
  <2>2. CASE Home(n, own, r.i) /\ q[r.i] = p[r.i] /\ p[r.i].shndx # "undef"
    <3>1. Right(p[r.i], n, own)
      BY <2>2 DEF HomesRight
    <3>2. RightIn(defs, D, b, p[r.i])
      BY <3>1, <1>2, <1>7 DEF Right
    <3>3. D # {}
      BY <3>2, <2>2, <1>3, RightUndef
    <3>4. PICK u : u = p[r.i]
      OBVIOUS
    <3>5. StrongIn(defs, D) = {} /\ \A j \in D : defs[j].name = n
      BY <1>2, <1>3
    <3>6. RightIn(defs, D, b, u)
      BY <3>2, <3>4
    <3>7. u.size = Size[n]
      <4>0. Min(D) \in D /\ \E j \in D : BestIn(defs, D) = defs[j]
        BY <3>3, <1>3, BestIs
      <4>1. PICK j \in D : IsAt(u, defs[j])
        BY <3>3, <3>6, <4>0 DEF RightIn
      <4>2. defs[j].shndx = "common" /\ defs[j].name = n
        BY <3>5 DEF StrongIn
      <4> QED BY <4>1, <4>2 DEF IsAt
    <3> QED BY <3>4, <3>7, <2>2
  <2> QED BY <2>1, <2>2 DEF Outcome
<1>11. StrongIn(es, E) = {} /\ \A j \in E : es[j].shndx = "common" /\ es[j].name = n
  BY <1>2, <1>3, <1>5, <1>8 DEF StrongIn
<1>12. \A j \in E : IsAt(s, es[j])
  BY <1>10, <1>11 DEF IsAt
<1>13. E # {}
  BY <1>8
<1> QED BY <1>9, <1>11, <1>12, <1>13, RightCommon

(* A use: a thing that has no definition has no section either.            *)
LEMMA UseRight ==
    ASSUME HomesRight, defs \in Seq(Def), NEW n \in Names, NEW own,
           NEW p, p = table.symtab, NEW q, NEW r,
           Outcome(n, own, 0, p, q, r, "undef", 0, 0),
           UNCHANGED <<defs, complaints>>
    PROVE  RightNext(q[r.i], n, own)
<1>1. \A s : Right(s, n, own) => RightNext(s, n, own)
  BY DEF Right, RightNext, Defs
<1>2. Defs(n, own) = {} /\ q[r.i].shndx = "undef" => Right(q[r.i], n, own)
  BY DEF Right, RightIn
<1>3. ASSUME Home(n, own, r.i)
      PROVE  /\ Right(p[r.i], n, own)
             /\ p[r.i].shndx = "undef" => Defs(n, own) = {}
  <2>1. Right(p[r.i], n, own)
    BY <1>3 DEF HomesRight
  <2>2. PICK D \in SUBSET Nat : D = Defs(n, own) /\ \A j \in D : defs[j] \in Def
    BY DefsIs
  <2>3. RightIn(defs, D, own = 0 /\ n \in complaints, p[r.i])
    BY <2>1, <2>2 DEF Right
  <2>4. PICK b : b = (own = 0 /\ n \in complaints)
    OBVIOUS
  <2>5. p[r.i].shndx = "undef" <=> D = {}
    BY <2>2, <2>3, <2>4, RightUndef
  <2> QED BY <2>1, <2>2, <2>5
<1> QED BY <1>1, <1>2, <1>3 DEF Outcome

(* It is settled, then.                                                    *)
LEMMA OutcomeSettles ==
    ASSUME NEW n, NEW own, NEW c, NEW r, NEW shndx, NEW value, NEW size,
           Outcome(n, own, c, table.symtab, table'.symtab, r, shndx, value, size),
           RightNext(table'.symtab[r.i], n, own)
    PROVE  Settles(n, own, r.i)
BY DEF Outcome, Settles

(* A use of a name.                                                        *)
LEMMA UseStep ==
    ASSUME IInv, IInv', Resolved, Sane, NEW n \in Names, greloc(n)
    PROVE  Resolved'
<1>1. PICK s : s = syms[n]
  OBVIOUS
<1>2. PICK r : r = IF s.c = 0 THEN put_extern_sym2(s, n, "undef", 0, 0)
                   ELSE Result(table, s.c, FALSE)
  OBVIOUS
<1>3. /\ compiling /\ Declared(n) /\ table' = r.table /\ syms' = [syms EXCEPT ![n].c = r.i]
      /\ refs' = Append(refs, [sym |-> r.i, name |-> n, own |-> s.own])
      /\ UNCHANGED <<top, unit, compiling, ended, defs, complaints>>
  BY <1>1, <1>2 DEF greloc
<1>4. Table(table) /\ Table(table') /\ Units /\ SymsKept /\ HomesRight /\ defs \in Seq(Def)
  BY DEF IInv, Laid, Resolved, DefsKept
<1>5. Good(table)
  BY <1>3, Begun DEF Sane, Oddities
<1>6. PICK p : p = table.symtab
  OBVIOUS
<1>7. PICK q : q = table'.symtab
  OBVIOUS
<1>8. Len(p) \in Nat
  BY <1>4, <1>6, TableParts
<1>9. /\ s \in Sym /\ s.c \in 0 .. Len(p) /\ s.own \in {0, unit}
      /\ (s.static <=> s.own = unit)
  BY <1>1, <1>3, <1>4, <1>6 DEF Units, SymsKept
<1>10. Settles(n, s.own, r.i) /\ r.i \in Nat /\ r.i # 0
  <2>1. CASE s.c = 0
    <3>1. Fits(s, n)
      BY <1>1, <1>9 DEF Fits
    <3>2. Outcome(n, s.own, s.c, table.symtab, r.table.symtab, r, "undef", 0, 0)
      <4>1. r = put_extern_sym2(s, n, "undef", 0, 0)
        BY <2>1, <1>2
      <4>2. "undef" \in Sections /\ compiling
        BY <1>3 DEF Sections
      <4> QED BY <4>1, <4>2, <3>1, <1>5, ExternOutcome
    <3>3. Outcome(n, s.own, 0, table.symtab, table'.symtab, r, "undef", 0, 0)
      BY <3>2, <2>1, <1>3
    <3>4. PICK own : own = s.own
      OBVIOUS
    <3>5. Settles(n, own, r.i)
      <4>1. Outcome(n, own, 0, table.symtab, table'.symtab, r, "undef", 0, 0)
        BY <3>3, <3>4
      <4>2. Outcome(n, own, 0, p, q, r, "undef", 0, 0)
        BY <4>1, <1>6, <1>7
      <4>3. RightNext(q[r.i], n, own)
        BY <4>2, <1>3, <1>4, <1>6, UseRight
      <4>4. RightNext(table'.symtab[r.i], n, own)
        BY <4>3, <1>7
      <4> QED BY <4>1, <4>4, OutcomeSettles
    <3>6. r.i \in 1 .. Len(table'.symtab)
      BY <3>3 DEF Outcome
    <3> QED BY <3>4, <3>5, <3>6
  <2>2. CASE s.c # 0
    <3>1. table' = table /\ r.i = s.c
      BY <2>2, <1>2, <1>3 DEF Result
    <3>2. Home(n, s.own, r.i)
      BY <3>1, <2>2, <1>1 DEF Home
    <3>3. /\ r.i \in 1 .. Len(table.symtab) /\ table.symtab[r.i].name = n
          /\ (table.symtab[r.i].bind = "global" <=> s.own = 0)
          /\ Right(table.symtab[r.i], n, s.own)
      BY <3>2, <1>4 DEF HomesRight
    <3>4. RightNext(table.symtab[r.i], n, s.own)
      BY <3>3, <1>3 DEF Right, RightNext, Defs
    <3>5. \A j \in 1 .. Len(table'.symtab) : j # r.i =>
             j \in 1 .. Len(table.symtab) /\ table'.symtab[j] = table.symtab[j]
      BY <3>1
    <3>6. Len(table.symtab) <= Len(table'.symtab)
      BY <3>1, <1>6, <1>8
    <3> QED BY <3>1, <3>2, <3>3, <3>4, <3>5, <3>6 DEF Settles
  <2> QED BY <2>1, <2>2
<1>11. PICK x : x = [s EXCEPT !.c = r.i]
  OBVIOUS
<1>12. x \in Sym /\ x.c = r.i /\ x.own = s.own /\ x.static = s.static /\ x.extern = s.extern
  BY <1>9, <1>10, <1>11 DEF Sym
<1>13. \A m \in Names : syms'[m] = IF m = n THEN x ELSE syms[m]
  BY <1>1, <1>3, <1>4, <1>11 DEF Units
<1>14. Comes(n, x, r.i)
  BY <1>1, <1>9, <1>10, <1>12, <1>13 DEF Comes
<1>15. Refers(n, x.own, r.i) /\ Defines(n, x) /\ Says(n, x.own)
  BY <1>3, <1>12 DEF Refers, Defines, Says
<1>16. Settles(n, x.own, r.i)
  BY <1>10, <1>12
<1> QED BY <1>3, <1>4, <1>14, <1>15, <1>16, SymStep

(* A definition, of whichever kind.                                        *)
LEMMA DefineStep ==
    ASSUME IInv, IInv', Resolved, NEW n \in Names, NEW s, Fits(s, n),
           NEW r, NEW shndx \in Sections4, NEW value \in Nat, Defined(n, s, r, shndx, value),
           shndx = "common" => n \in Var, Settles(n, s.own, r.i), r.twice => s.own = 0
    PROVE  Resolved'
<1>1. /\ compiling /\ UNCHANGED <<refs, unit, compiling, ended>>
      /\ syms' = [syms EXCEPT ![n] = [s EXCEPT !.c = r.i, !.extern = FALSE]]
      /\ complaints' = IF r.twice THEN complaints \union {n} ELSE complaints
  BY DEF Defined
<1>2. Table(table) /\ Table(table') /\ Units /\ SymsKept /\ defs \in Seq(Def)
  BY DEF IInv, Laid, Resolved, DefsKept
<1>3. unit \in Nat /\ Len(table'.symtab) \in Nat
  BY <1>2, ElfAssumption, TableParts DEF Units
<1>4. s \in Sym /\ s.own \in {0, unit} /\ (s.static <=> s.own = unit)
  BY DEF Fits
<1>5. r.i \in Nat /\ r.i # 0
  BY <1>3 DEF Settles
<1>6. PICK x : x = [s EXCEPT !.c = r.i, !.extern = FALSE]
  OBVIOUS
<1>7. x \in Sym /\ x.c = r.i /\ x.own = s.own /\ x.static = s.static /\ ~x.extern
  BY <1>4, <1>5, <1>6 DEF Sym
<1>8. \A m \in Names : syms'[m] = IF m = n THEN x ELSE syms[m]
  BY <1>1, <1>2, <1>6 DEF Units
<1>9. Comes(n, x, r.i)
  BY <1>4, <1>5, <1>7, <1>8 DEF Comes, Fits
<1>10. PICK d : d = [name |-> n, own |-> s.own, unit |-> unit, shndx |-> shndx, value |-> value]
  OBVIOUS
<1>11. /\ d \in Def /\ d.name = n /\ d.own = x.own /\ d.unit = unit
  BY <1>3, <1>4, <1>7, <1>10 DEF Def
<1>12. defs' = Append(defs, d)
  BY <1>10 DEF Defined
<1>13. Defines(n, x) /\ Refers(n, x.own, r.i)
  BY <1>1, <1>7, <1>11, <1>12 DEF Defines, Refers
<1>14. /\ complaints \subseteq complaints' /\ complaints' \subseteq complaints \union {n}
       /\ x.own # 0 => complaints' = complaints
  BY <1>1, <1>7
<1>15. Says(n, x.own)
  BY <1>11, <1>12, <1>14 DEF Says
<1>16. Settles(n, x.own, r.i)
  BY <1>7
<1> QED BY <1>1, <1>2, <1>9, <1>13, <1>15, <1>16, SymStep

(* A second definition of a name, only if another unit has the first.      *)
LEMMA OutcomeTwice ==
    ASSUME NEW n, NEW own, NEW c, NEW p, NEW q, NEW r, NEW shndx, NEW value, NEW size,
           Outcome(n, own, c, p, q, r, shndx, value, size)
    PROVE  r.twice => own = 0
BY DEF Outcome

(* A definition with a section.                                            *)
LEMMA StrongStep ==
    ASSUME IInv, IInv', Resolved, Sane, NEW n \in Names, NEW s, Fits(s, n),
           NEW shndx \in {"text", "data"}, NEW value \in Nat, NEW size \in Nat,
           NEW r, r = put_extern_sym2(s, n, shndx, value, size),
           Allowed(n, s), Defined(n, s, r, shndx, value)
    PROVE  Resolved'
<1>1. /\ compiling /\ table' = r.table
      /\ complaints' = IF r.twice THEN complaints \union {n} ELSE complaints
  BY DEF Defined
<1>2. Table(table) /\ HomesRight /\ defs \in Seq(Def) /\ Units
  BY DEF IInv, Laid, Resolved, DefsKept
<1>3. Good(table)
  BY <1>1, Begun DEF Sane, Oddities
<1>4. PICK own : own = s.own
  OBVIOUS
<1>5. PICK c : c = s.c
  OBVIOUS
<1>6. shndx \in Sections /\ shndx \in Sections4 /\ shndx # "undef" /\ shndx # "common"
  BY DEF Sections, Sections4
<1>7. Outcome(n, own, c, table.symtab, r.table.symtab, r, shndx, value, size)
  BY <1>1, <1>3, <1>4, <1>5, <1>6, ExternOutcome
<1>8. Outcome(n, own, c, table.symtab, table'.symtab, r, shndx, value, size)
  BY <1>1, <1>7
<1>9. c # 0 => StrongIn(defs, Defs(n, own)) = {}
  <2>1. "redefined" \in Avoided /\ "used" \in Avoided
    BY DEF Sane, Oddities
  <2>2. c # 0 => ~Initialized(n, own, TRUE) /\ ~Initialized(n, own, FALSE)
    BY <2>1, <1>4, <1>5 DEF Allowed
  <2>3. ASSUME NEW j \in StrongIn(defs, Defs(n, own))
        PROVE  Initialized(n, own, TRUE) \/ Initialized(n, own, FALSE)
    <3>1. j \in Strong(Defs(n, own))
      BY DEF StrongIn, Strong
    <3>2. CASE defs[j].unit = unit
      BY <3>1, <3>2 DEF Initialized
    <3>3. CASE defs[j].unit # unit
      BY <3>1, <3>3 DEF Initialized
    <3> QED BY <3>2, <3>3
  <2> QED BY <2>2, <2>3
<1>10. PICK d : d = [name |-> n, own |-> own, unit |-> unit, shndx |-> shndx, value |-> value]
  OBVIOUS
<1>11. /\ d \in Def /\ d.name = n /\ d.own = own /\ d.shndx = shndx /\ d.value = value
  <2>1. unit \in Nat /\ own \in Nat
    BY <1>2, <1>4, ElfAssumption DEF Units, Fits
  <2> QED BY <2>1, <1>6, <1>10 DEF Def
<1>12. defs' = Append(defs, d)
  BY <1>4, <1>10 DEF Defined
<1>13. RightNext(table'.symtab[r.i], n, own)
  <2>1. PICK p, q : p = table.symtab /\ q = table'.symtab
    OBVIOUS
  <2>2. Outcome(n, own, c, p, q, r, shndx, value, size)
    BY <2>1, <1>8
  <2>3. own = 0 /\ r.twice => n \in complaints'
    BY <1>1
  <2>4. RightNext(q[r.i], n, own)
    BY <2>1, <2>2, <2>3, <1>2, <1>6, <1>9, <1>11, <1>12, StrongRight
  <2> QED BY <2>1, <2>4
<1>14. Settles(n, own, r.i)
  BY <1>8, <1>13, OutcomeSettles
<1>15. r.twice => s.own = 0
  BY <1>4, <1>7, OutcomeTwice
<1> QED BY <1>4, <1>6, <1>14, <1>15, DefineStep

(* The Sym of a definition fits: one that sym_push makes.                  *)
LEMMA PushedFits ==
    ASSUME IInv, Resolved, compiling, NEW n \in Names, ~Declared(n),
           NEW static \in BOOLEAN, NEW extern \in BOOLEAN
    PROVE  /\ Fits(Pushed(static, extern), n)
           /\ Pushed(static, extern).own = IF static THEN unit ELSE 0
           /\ Pushed(static, extern).static = static
<1>1. Units /\ unit # 0
  BY DEF IInv, Resolved, SymsKept
<1>2. PICK own : own = IF static THEN unit ELSE 0
  OBVIOUS
<1>3. PICK s : s = [c |-> 0, static |-> static, extern |-> extern, own |-> own]
  OBVIOUS
<1>4. Pushed(static, extern) = s
  BY <1>2, <1>3, Zenon DEF Pushed
<1>5. s \in Sym
  BY <1>1, <1>4, PushedIs
<1>6. s.own = own /\ s.static = static /\ s.c = 0
  BY <1>3
<1>7. own \in {0, unit} /\ (static <=> own = unit)
  BY <1>1, <1>2
<1>8. syms[n].c = 0
  BY DEF Declared, NoSym
<1>9. Fits(s, n)
  BY <1>5, <1>6, <1>7, <1>8 DEF Fits
<1> QED BY <1>2, <1>4, <1>6, <1>9

(* And one that is there.                                                  *)
LEMMA DeclaredFits ==
    ASSUME IInv, Resolved, NEW n \in Names, Declared(n)
    PROVE  Fits(syms[n], n)
BY DEF Fits, IInv, Units, Resolved, SymsKept

(* A function: the type of the definition agrees with what was declared.   *)
LEMMA FunctionRight ==
    ASSUME IInv, IInv', Resolved, Sane, NEW n \in Names, NEW static \in BOOLEAN,
           gen_function(n, static)
    PROVE  Resolved'
<1>1. PICK s : s = IF Declared(n) THEN [syms[n] EXCEPT !.static = static]
                   ELSE Pushed(static, FALSE)
  OBVIOUS
<1>2. PICK r : r = put_extern_sym2(s, n, "text", top["text"], 0)
  OBVIOUS
<1>3. /\ Defined(n, s, r, "text", top["text"]) /\ Allowed(n, s)
      /\ "static" \in Avoided => static = (s.own = unit)
  BY <1>1, <1>2 DEF gen_function
<1>4. static <=> s.own = unit
  BY <1>3 DEF Sane, Oddities
<1>5. compiling /\ top["text"] \in Nat
  BY <1>3 DEF Defined, IInv, Laid, Kept
<1>6. Fits(s, n)
  <2>1. CASE Declared(n)
    <3>1. PICK x : x = syms[n]
      OBVIOUS
    <3>2. Fits(x, n) /\ x \in Sym
      BY <2>1, <3>1, DeclaredFits DEF Fits
    <3>3. s = [x EXCEPT !.static = static]
      BY <2>1, <3>1, <1>1
    <3>4. s \in Sym /\ s.static = static /\ s.own = x.own /\ s.c = x.c /\ s.extern = x.extern
      BY <3>2, <3>3 DEF Sym
    <3>5. s.own \in {0, unit} /\ s.c = syms[n].c /\ s.own = syms[n].own
          /\ s.extern = syms[n].extern
      BY <3>1, <3>2, <3>4 DEF Fits
    <3>6. s.static <=> s.own = unit
      BY <3>4, <1>4
    <3> QED BY <3>4, <3>5, <3>6 DEF Fits
  <2>2. CASE ~Declared(n)
    BY <2>2, <1>1, <1>5, PushedFits
  <2> QED BY <2>1, <2>2
<1>7. 0 \in Nat
  OBVIOUS
<1> QED BY <1>2, <1>3, <1>5, <1>6, <1>7, StrongStep

(* The Sym of a variable fits.                                             *)
LEMMA SymOfFits ==
    ASSUME IInv, Resolved, compiling, NEW n \in Names, NEW static \in BOOLEAN
    PROVE  Fits(SymOf(n, static), n)
<1>1. CASE Declared(n)
  BY <1>1, DeclaredFits DEF SymOf
<1>2. CASE ~Declared(n)
  BY <1>2, PushedFits DEF SymOf
<1> QED BY <1>1, <1>2

(* A variable with an initializer.                                         *)
LEMMA InitializedRight ==
    ASSUME IInv, IInv', Resolved, Sane, NEW n \in Names, NEW static \in BOOLEAN,
           initialized(n, static)
    PROVE  Resolved'
<1>1. PICK s : s = SymOf(n, static)
  OBVIOUS
<1>2. PICK r : r = put_extern_sym2(s, n, "data", top["data"], Size[n])
  OBVIOUS
<1>3. Defined(n, s, r, "data", top["data"]) /\ Allowed(n, s)
  BY <1>1, <1>2 DEF initialized
<1>6. Size[n] \in Nat
  BY ElfAssumption DEF initialized
<1>4. compiling /\ top["data"] \in Nat
  BY <1>3 DEF Defined, IInv, Laid, Kept
<1>5. Fits(s, n)
  BY <1>1, <1>4, SymOfFits
<1> QED BY <1>2, <1>3, <1>4, <1>5, <1>6, StrongStep

(* A variable without one.  No unit has initialized it: not this one, for  *)
(* which it would be declared and not extern, and with "tentative" avoided *)
(* no other.                                                               *)
LEMMA TentativeRight ==
    ASSUME IInv, IInv', Resolved, Sane, NEW n \in Names, NEW static \in BOOLEAN,
           tentative(n, static)
    PROVE  Resolved'
<1>1. PICK s : s = SymOf(n, static)
  OBVIOUS
<1>2. PICK r : r = put_extern_sym2(s, n, "undef", 0, Size[n])
  OBVIOUS
<1>3. PICK v : v = [r EXCEPT !.table.symtab[r.i].shndx = "common"]
  OBVIOUS
<1>4. /\ Defined(n, s, v, "common", 0) /\ (Declared(n) => s.extern)
      /\ "tentative" \in Avoided => ~Initialized(n, s.own, FALSE)
  BY <1>1, <1>2, <1>3 DEF tentative
<1>5. compiling
  BY <1>4 DEF Defined
<1>6. Table(table) /\ HomesRight /\ DefsKept /\ defs \in Seq(Def) /\ Units
  BY DEF IInv, Laid, Resolved, DefsKept
<1>7. Good(table)
  BY <1>5, Begun DEF Sane, Oddities
<1>8. Fits(s, n)
  BY <1>1, <1>5, SymOfFits
<1>9. PICK own : own = s.own
  OBVIOUS
<1>10. PICK c : c = s.c
  OBVIOUS
<1>11. n \in Var /\ Size[n] \in Nat /\ "undef" \in Sections /\ "common" \in Sections4
  BY ElfAssumption DEF Sections, Sections4, tentative
<1>12. Outcome(n, own, c, table.symtab, r.table.symtab, r, "undef", 0, Size[n])
  BY <1>2, <1>5, <1>7, <1>8, <1>9, <1>10, <1>11, ExternOutcome
<1>13. StrongIn(defs, Defs(n, own)) = {}
  <2> SUFFICES ASSUME NEW j \in StrongIn(defs, Defs(n, own)) PROVE FALSE
    OBVIOUS
  <2>1. /\ j \in Strong(Defs(n, own)) /\ j \in 1 .. Len(defs)
        /\ defs[j].name = n /\ defs[j].own = own
    BY <1>6, DefsIs DEF StrongIn, Strong
  <2>2. CASE defs[j].unit = unit
    <3>1. Declared(n) /\ ~syms[n].extern
      BY <2>1, <2>2, <1>5, <1>6 DEF DefsKept
    <3>2. s = syms[n]
      BY <3>1, <1>1 DEF SymOf
    <3> QED BY <3>1, <3>2, <1>4
  <2>3. CASE defs[j].unit # unit
    <3>1. Initialized(n, own, FALSE)
      BY <2>1, <2>3 DEF Initialized
    <3> QED BY <3>1, <1>4, <1>9 DEF Sane, Oddities
  <2> QED BY <2>2, <2>3
<1>14. PICK t : t = r.table
  OBVIOUS
<1>15. PICK i : i = r.i
  OBVIOUS
<1>16. PICK u : u = Commoned(t, i)
  OBVIOUS
<1>17. /\ Table(t) /\ r = Result(r.table, r.i, r.twice)
  <2>1. s.c \in 0 .. Len(table.symtab) /\ (s.c # 0 => table.symtab[s.c].name = n)
    BY <1>6, <1>8 DEF Fits, Units, IInv, Called
  <2> QED BY <2>1, <1>2, <1>6, <1>11, <1>14, ExternIs
<1>18. v.table = u /\ v.i = i /\ v.twice = r.twice
  <2>1. v = [r EXCEPT !.table = [r.table EXCEPT !.symtab =
               [r.table.symtab EXCEPT ![r.i] = [r.table.symtab[r.i] EXCEPT !.shndx = "common"]]]]
    BY <1>3
  <2>2. v = [r EXCEPT !.table = u]
    BY <2>1, <1>14, <1>15, <1>16 DEF Commoned
  <2> QED BY <2>2, <1>15, <1>17 DEF Result
<1>19. PICK p : p = table.symtab
  OBVIOUS
<1>20. PICK q \in Seq(Entry) : q = t.symtab
  BY <1>17, TableParts
<1>21. PICK w : w = table'.symtab
  OBVIOUS
<1>22. /\ i \in 1 .. Len(q) /\ q[i] \in Entry
  BY <1>12, <1>14, <1>15, <1>20 DEF Outcome
<1>23. /\ Len(w) = Len(q) /\ \A j \in 1 .. Len(q) : j # i => w[j] = q[j]
       /\ w[i].shndx = "common" /\ w[i].size = q[i].size
       /\ w[i].name = q[i].name /\ w[i].bind = q[i].bind
  <2>1. PICK x : x = [q[i] EXCEPT !.shndx = "common"]
    OBVIOUS
  <2>2. x.shndx = "common" /\ x.size = q[i].size /\ x.name = q[i].name /\ x.bind = q[i].bind
    BY <2>1, <1>22 DEF Entry
  <2>3. table' = u
    BY <1>4, <1>18 DEF Defined
  <2>4. u = [t EXCEPT !.symtab = [q EXCEPT ![i] = x]]
    BY <2>1, <1>16, <1>20 DEF Commoned
  <2>5. t \in Tables(Nb(t))
    BY <1>17, TableParts
  <2>6. PICK z : z = [q EXCEPT ![i] = x]
    OBVIOUS
  <2>7. u.symtab = z
    BY <2>4, <2>5, <2>6 DEF Tables
  <2>8. Len(z) = Len(q) /\ z[i] = x /\ \A j \in 1 .. Len(q) : j # i => z[j] = q[j]
    BY <2>6, <1>22
  <2> QED BY <2>2, <2>3, <2>7, <2>8, <1>21
<1>24. PICK d : d = [name |-> n, own |-> own, unit |-> unit, shndx |-> "common", value |-> 0]
  OBVIOUS
<1>25. /\ d \in Def /\ d.name = n /\ d.own = own /\ d.shndx = "common"
  <2>1. unit \in Nat /\ own \in Nat
    BY <1>6, <1>8, <1>9, ElfAssumption DEF Units, Fits
  <2> QED BY <2>1, <1>11, <1>24 DEF Def
<1>26. defs' = Append(defs, d)
  BY <1>4, <1>9, <1>24 DEF Defined
<1>27. Outcome(n, own, c, p, q, r, "undef", 0, Size[n])
  BY <1>12, <1>14, <1>19, <1>20
<1>28. RightNext(w[i], n, own)
  <2>1. PICK y : y = w[i]
    OBVIOUS
  <2>2. y.shndx = "common" /\ y.size = q[r.i].size
    BY <2>1, <1>15, <1>23
  <2>3. RightNext(y, n, own)
    BY <2>2, <1>6, <1>13, <1>19, <1>25, <1>26, <1>27, CommonRight
  <2> QED BY <2>1, <2>3
<1>29. Settles(n, own, i)
  <2>1. /\ Len(p) <= Len(q) /\ \A j \in 1 .. Len(q) : j # i => j \in 1 .. Len(p) /\ q[j] = p[j]
        /\ q[i].name = n /\ (q[i].bind = "global" <=> own = 0)
        /\ Home(n, own, i) \/ (i = Len(p) + 1 /\ \A j : ~Home(n, own, j))
    BY <1>15, <1>27 DEF Outcome
  <2> QED BY <2>1, <1>19, <1>21, <1>22, <1>23, <1>28 DEF Settles
<1>30. Settles(n, s.own, v.i) /\ (v.twice => s.own = 0)
  <2>1. r.twice => own = 0
    BY <1>27, OutcomeTwice
  <2> QED BY <2>1, <1>9, <1>18, <1>29
<1> QED BY <1>4, <1>8, <1>11, <1>30, DefineStep

-----------------------------------------------------------------------------
(* Between units.  add_symbol defines a name.                              *)
LEMMA AddRight ==
    ASSUME IInv, IInv', Resolved, Sane, NEW n \in Names, tcc_add_symbol(n)
    PROVE  Resolved'
<1>1. PICK x : x = Symbol(n, "global", "abs", 0, 0)
  OBVIOUS
<1>2. PICK r : r = add_elf_sym(table, x)
  OBVIOUS
<1>3. /\ Usable /\ ~compiling /\ table' = r.table /\ ended' = "no"
      /\ complaints' = IF r.twice THEN complaints \union {n} ELSE complaints
      /\ defs' = Append(defs, [name |-> n, own |-> 0, unit |-> 0, shndx |-> "abs", value |-> 0])
      /\ UNCHANGED <<refs, top, syms, unit, compiling>>
  BY <1>1, <1>2 DEF tcc_add_symbol
<1>4. /\ Table(table) /\ Table(table') /\ HomesRight /\ DefsKept /\ defs \in Seq(Def) /\ Units
      /\ SymsKept
  BY DEF IInv, Laid, Resolved, DefsKept
<1>5. Good(table)
  BY <1>3, Begun DEF Sane, Oddities
<1>6. /\ x \in Entry /\ x.name = n /\ x.bind = "global" /\ x.shndx = "abs" /\ x.value = 0
      /\ x.size = 0
  BY <1>1 DEF Symbol, Entry, Named
<1>7. PICK own : own = 0
  OBVIOUS
<1>8. PICK p : p = table.symtab
  OBVIOUS
<1>9. PICK q : q = table'.symtab
  OBVIOUS
<1>10. Outcome(n, own, 0, p, q, r, "abs", 0, 0)
  <2>1. x.bind = "global" <=> own = 0
    BY <1>6, <1>7
  <2>2. Outcome(n, own, 0, table.symtab, r.table.symtab, r, x.shndx, x.value, x.size)
    BY <2>1, <1>2, <1>5, <1>6, <1>7, AddOutcome
  <2> QED BY <2>2, <1>3, <1>6, <1>8, <1>9
<1>11. PICK d : d = [name |-> n, own |-> 0, unit |-> 0, shndx |-> "abs", value |-> 0]
  OBVIOUS
<1>12. /\ d \in Def /\ d.name = n /\ d.own = own /\ d.unit = 0 /\ d.shndx = "abs" /\ d.value = 0
       /\ defs' = Append(defs, d)
  BY <1>3, <1>7, <1>11 DEF Def, Sections4
<1>13. RightNext(q[r.i], n, own)
  <2>1. own = 0 /\ r.twice => n \in complaints'
    BY <1>3
  <2> QED BY <2>1, <1>4, <1>8, <1>10, <1>12, StrongRight
<1>14. Settles(n, own, r.i)
  BY <1>8, <1>9, <1>10, <1>13 DEF Outcome, Settles
<1>15. Says(n, own)
  BY <1>3, <1>7, <1>12 DEF Says
<1>16. HomesFrom(n, own, r.i)
  <2> SUFFICES ASSUME NEW m \in Names, NEW o, NEW i, Home(m, o, i)'
               PROVE  Home(m, o, i) \/ (m = n /\ o = own /\ i = r.i)
    BY DEF HomesFrom
  <2>1. CASE i # 0 /\ i = syms'[m].c /\ o = syms'[m].own
    BY <2>1, <1>3 DEF Home
  <2>2. CASE \E k \in 1 .. Len(refs') : refs'[k].sym = i /\ refs'[k].name = m /\ refs'[k].own = o
    BY <2>2, <1>3 DEF Home
  <2>3. CASE o = 0 /\ i \in 1 .. Len(q) /\ q[i].name = m /\ q[i].bind = "global"
    <3>1. CASE i = r.i
      BY <3>1, <2>3, <1>7, <1>9, <1>14 DEF Settles
    <3>2. CASE i # r.i
      <4>1. i \in 1 .. Len(p) /\ q[i] = p[i]
        BY <3>2, <2>3, <1>8, <1>9, <1>14 DEF Settles
      <4> QED BY <4>1, <2>3, <1>8 DEF Home, IsGlobal
    <3> QED BY <3>1, <3>2
  <2> QED BY <2>1, <2>2, <2>3, <1>9 DEF Home, IsGlobal
<1>17. HomesRight' /\ HomesApart' /\ HomesThere'
  <2>1. own \in 0 .. unit
    BY <1>4, <1>7, ElfAssumption DEF Units
  <2> QED BY <2>1, <1>3, <1>4, <1>14, <1>15, <1>16, HomesStep
<1>18. DefsKept'
  <2>1. PICK L \in Nat : L = Len(defs)
    BY <1>4
  <2>2. /\ defs' \in Seq(Def) /\ Len(defs') = L + 1 /\ defs'[L + 1] = d
        /\ \A j \in 1 .. L : defs'[j] = defs[j]
    BY <2>1, <1>4, <1>12, DefsGrow
  <2>3. \A j \in 1 .. L + 1 : j \in 1 .. L \/ j = L + 1
    OBVIOUS
  <2>4. d.unit \in 0 .. unit' /\ d.own \in {0, d.unit} /\ ~compiling'
    BY <1>3, <1>4, <1>7, <1>12, ElfAssumption DEF Units
  <2>5. \A j \in 1 .. L : defs[j].unit \in 0 .. unit' /\ defs[j].own \in {0, defs[j].unit}
    BY <2>1, <1>3, <1>4 DEF DefsKept
  <2>6. \A j \in 1 .. L + 1 : defs'[j].unit \in 0 .. unit' /\ defs'[j].own \in {0, defs'[j].unit}
    BY <2>2, <2>3, <2>4, <2>5
  <2> QED BY <2>2, <2>4, <2>6 DEF DefsKept
<1>19. HomesOfUnit' /\ LinkedAll'
  BY <1>3 DEF HomesOfUnit, LinkedAll
<1>20. SymsKept'
  BY <1>3, <1>4 DEF SymsKept, Declared
<1> QED BY <1>17, <1>18, <1>19, <1>20 DEF Resolved

(* A step that defines nothing and refers to nothing: the symbols of the   *)
(* program stay, common ones may get their storage.                        *)
Stays(a, b) ==
    \/ b = a
    \/ a.shndx = "common" /\ b.shndx = "bss" /\ b.size = a.size
    \/ a.name \in Fn /\ b.shndx = a.shndx /\ b.value = a.value
Frame(p, q) ==
    /\ \A j \in 1 .. Len(p) : p[j].name \in Names =>
          /\ j \in 1 .. Len(q) /\ q[j].name = p[j].name /\ q[j].bind = p[j].bind
          /\ Stays(p[j], q[j])
    /\ \A j \in 1 .. Len(q) : q[j].name \in Names /\ q[j].bind = "global" =>
          j \in 1 .. Len(p) /\ p[j].name = q[j].name /\ p[j].bind = q[j].bind

(* All is as it was.                                                       *)
LEMMA HomesFrame ==
    ASSUME Resolved, unit \in Nat, unit' \in {unit, unit + 1},
           Frame(table.symtab, table'.symtab), UNCHANGED <<refs, defs, complaints>>,
           \A m \in Names : syms'[m] = syms[m] \/ syms'[m].c = 0
    PROVE  /\ HomesRight' /\ HomesApart' /\ HomesThere'
           /\ \A m \in Names : \A o, i : Home(m, o, i)' => Home(m, o, i)
<1>1. HomesRight /\ HomesApart /\ HomesThere
  BY DEF Resolved
<1>2. PICK p : p = table.symtab
  OBVIOUS
<1>3. PICK q : q = table'.symtab
  OBVIOUS
<1>4. Frame(p, q)
  BY <1>2, <1>3
<1>5. ASSUME NEW m \in Names, NEW o, NEW i, Home(m, o, i)' PROVE Home(m, o, i)
  <2>1. CASE i # 0 /\ i = syms'[m].c /\ o = syms'[m].own
    BY <2>1 DEF Home
  <2>2. CASE \E k \in 1 .. Len(refs') : refs'[k].sym = i /\ refs'[k].name = m /\ refs'[k].own = o
    BY <2>2 DEF Home
  <2>3. CASE o = 0 /\ i \in 1 .. Len(q) /\ q[i].name = m /\ q[i].bind = "global"
    <3>1. i \in 1 .. Len(p) /\ p[i].name = m /\ p[i].bind = "global"
      BY <2>3, <1>4 DEF Frame
    <3> QED BY <3>1, <2>3, <1>2 DEF Home, IsGlobal
  <2> QED BY <2>1, <2>2, <2>3, <1>3, <1>5 DEF Home, IsGlobal
<1>6. ASSUME NEW m \in Names, NEW o, NEW i, Home(m, o, i)
      PROVE  /\ o \in 0 .. unit' /\ i \in 1 .. Len(q)
             /\ q[i].name = m /\ (q[i].bind = "global" <=> o = 0) /\ RightNext(q[i], m, o)
  <2>1. /\ o \in 0 .. unit /\ i \in 1 .. Len(p)
        /\ p[i].name = m /\ (p[i].bind = "global" <=> o = 0) /\ Right(p[i], m, o)
    BY <1>1, <1>2, <1>6 DEF HomesRight
  <2>2. /\ i \in 1 .. Len(q) /\ q[i].name = m /\ (q[i].bind = "global" <=> o = 0)
        /\ Stays(p[i], q[i])
    BY <2>1, <1>4 DEF Frame
  <2>3. o \in 0 .. unit'
    BY <2>1
  <2>4. PICK D : D = Defs(m, o)
    OBVIOUS
  <2>5. PICK a : a = (o = 0 /\ m \in complaints)
    OBVIOUS
  <2>6. PICK s : s = p[i]
    OBVIOUS
  <2>7. PICK w : w = q[i]
    OBVIOUS
  <2>8. RightIn(defs, D, a, s)
    BY <2>1, <2>4, <2>5, <2>6 DEF Right
  <2>9. RightIn(defs, D, a, w)
    <3>1. CASE w = s
      BY <3>1, <2>8
    <3>2. CASE s.shndx = "common" /\ w.shndx = "bss" /\ w.size = s.size
      BY <3>2, <2>8, RightMoves
    <3>3. CASE s.name \in Fn /\ w.shndx = s.shndx /\ w.value = s.value
      <4>1. m \notin Var
        BY <3>3, <2>1, <2>6, ElfAssumption
      <4>2. defs \in Seq(Def)
        BY DEF Resolved, DefsKept
      <4>3. D \in SUBSET Nat /\ \A j \in D : defs[j] \in Def /\ defs[j].name = m
        BY <4>2, <2>4, DefsIs
      <4>4. \A j \in D : defs[j].shndx # "common"
        BY <4>1, <4>3 DEF Def
      <4> QED BY <3>3, <4>3, <4>4, <2>8, RightSized
    <3> QED BY <3>1, <3>2, <3>3, <2>2, <2>6, <2>7 DEF Stays
  <2>10. RightNext(w, m, o)
    BY <2>4, <2>5, <2>9 DEF RightNext, Defs
  <2> QED BY <2>2, <2>3, <2>7, <2>10
<1>7. HomesRight'
  <2> SUFFICES ASSUME NEW m \in Names, NEW o, NEW i, Home(m, o, i)'
               PROVE  /\ o \in 0 .. unit' /\ i \in 1 .. Len(table'.symtab)
                      /\ table'.symtab[i].name = m /\ (table'.symtab[i].bind = "global" <=> o = 0)
                      /\ RightNext(table'.symtab[i], m, o)
    BY DEF HomesRight, Right, RightNext
  <2>1. Home(m, o, i)
    BY <1>5
  <2> QED BY <2>1, <1>3, <1>6
<1>8. HomesApart'
  <2> SUFFICES ASSUME NEW m \in Names, NEW l \in Names, NEW o, NEW w, NEW i, NEW j,
                      Home(m, o, i)', Home(l, w, j)'
               PROVE  i = j <=> m = l /\ o = w
    BY DEF HomesApart
  <2>1. Home(m, o, i) /\ Home(l, w, j)
    BY <1>5
  <2> QED BY <2>1, <1>1 DEF HomesApart
<1>9. HomesThere'
  <2> SUFFICES ASSUME NEW m \in Names, Defs(m, 0)' # {}
               PROVE  \E i \in 1 .. Len(table'.symtab) : IsGlobal(table', i, m)
    BY DEF HomesThere
  <2>1. Defs(m, 0) # {}
    BY DEF Defs
  <2>2. PICK i \in 1 .. Len(table.symtab) : IsGlobal(table, i, m)
    BY <2>1, <1>1 DEF HomesThere
  <2>3. i \in 1 .. Len(q) /\ q[i].name = m /\ q[i].bind = "global"
    BY <2>2, <1>2, <1>4 DEF Frame, IsGlobal
  <2> QED BY <2>3, <1>3 DEF IsGlobal
<1> QED BY <1>5, <1>7, <1>8, <1>9

(* A source begins: with a symbol that is no name's.                       *)
LEMMA CompileRight ==
    ASSUME IInv, IInv', Resolved, tcc_compile
    PROVE  Resolved'
<1>1. /\ UNCHANGED <<refs, top, defs, complaints>>
      /\ syms' = [n \in Names |-> NoSym] /\ unit' = unit + 1 /\ ended' = "no"
  BY DEF tcc_compile
<1>2. Table(table) /\ Units /\ DefsKept /\ HomesRight /\ defs \in Seq(Def)
  BY DEF IInv, Laid, Resolved, DefsKept
<1>3. unit \in Nat
  BY <1>2, ElfAssumption DEF Units
<1>4. PICK x : x = Symbol("file", "local", "abs", 0, 0)
  OBVIOUS
<1>5. x \in Entry /\ x.bind = "local"
  BY <1>4 DEF Symbol, Entry
<1>6. PICK p \in Seq(Entry), N \in Nat : p = table.symtab /\ N = Len(p)
  BY <1>2, TableParts
<1>7. PICK q : q = table'.symtab
  OBVIOUS
<1>8. q = Append(p, x)
  <2>1. table' = put_elf_sym(table, x)
    BY <1>4 DEF tcc_compile
  <2> QED BY <2>1, <1>2, <1>5, <1>6, <1>7, PutIs
<1>9. Frame(p, q)
  <2>1. Len(q) = N + 1 /\ q[N + 1] = x /\ \A j \in 1 .. N : q[j] = p[j]
    BY <1>5, <1>6, <1>8
  <2>2. \A j : j \in 1 .. N + 1 <=> j \in 1 .. N \/ j = N + 1
    OBVIOUS
  <2> QED BY <2>1, <2>2, <1>5, <1>6 DEF Frame, Stays
<1>10. \A m \in Names : syms'[m] = NoSym
  BY <1>1
<1>11. /\ HomesRight' /\ HomesApart' /\ HomesThere'
       /\ \A m \in Names : \A o, i : Home(m, o, i)' => Home(m, o, i)
  <2>1. Frame(table.symtab, table'.symtab)
    BY <1>6, <1>7, <1>9
  <2>2. \A m \in Names : syms'[m] = syms[m] \/ syms'[m].c = 0
    BY <1>10 DEF NoSym
  <2> QED BY <2>1, <2>2, <1>1, <1>3, HomesFrame
<1>12. HomesOfUnit'
  <2>1. PICK u : u = unit' /\ u = unit + 1
    BY <1>1
  <2>2. u \notin 0 .. unit /\ u # 0
    BY <2>1, <1>3
  <2>3. ASSUME NEW m \in Names, NEW i, Home(m, u, i)' PROVE FALSE
    <3>1. Home(m, u, i)
      BY <2>3, <1>11
    <3> QED BY <3>1, <2>2, <1>2 DEF HomesRight
  <2>4. ASSUME NEW m \in Names, Defs(m, u)' # {} PROVE FALSE
    <3>1. PICK j \in DOMAIN defs : defs[j].own = u
      BY <2>4, <1>1 DEF Defs
    <3>2. j \in 1 .. Len(defs)
      BY <1>2
    <3>3. PICK v \in 0 .. unit : u \in {0, v}
      BY <3>1, <3>2, <1>2 DEF DefsKept
    <3> QED BY <3>3, <2>2
  <2> QED BY <2>1, <2>3, <2>4 DEF HomesOfUnit, Defs, Home
<1>13. DefsKept'
  <2>1. \A j \in 1 .. Len(defs) : defs[j].unit \in 0 .. unit' /\ defs[j].unit # unit'
                                  /\ defs[j].own \in {0, defs[j].unit}
    <3> TAKE j \in 1 .. Len(defs)
    <3>1. PICK v \in 0 .. unit : v = defs[j].unit /\ defs[j].own \in {0, v}
      BY <1>2 DEF DefsKept
    <3>2. v \in 0 .. unit + 1 /\ v # unit + 1
      BY <1>3
    <3> QED BY <3>1, <3>2, <1>1
  <2> QED BY <2>1, <1>1, <1>2 DEF DefsKept
<1>14. SymsKept'
  <2>1. unit' > 0
    BY <1>1, <1>3
  <2> QED BY <2>1, <1>10 DEF SymsKept, Declared
<1>15. LinkedAll'
  BY <1>1 DEF LinkedAll
<1> QED BY <1>11, <1>12, <1>13, <1>14, <1>15 DEF Resolved

(* Its end.                                                                *)
LEMMA EndRight ==
    ASSUME IInv, Resolved, end_compile
    PROVE  Resolved'
<1>1. /\ compiling /\ compiling' = FALSE /\ syms' = [n \in Names |-> NoSym]
      /\ UNCHANGED <<table, refs, top, unit, ended, defs, complaints>>
  BY DEF end_compile
<1>2. Units /\ DefsKept /\ LinkedAll
  BY DEF IInv, Resolved
<1>3. unit \in Nat
  BY <1>2, ElfAssumption DEF Units
<1>4. \A m \in Names : syms'[m] = NoSym
  BY <1>1
<1>5. HomesRight' /\ HomesApart' /\ HomesThere'
  <2>1. Frame(table.symtab, table'.symtab)
    BY <1>1 DEF Frame, Stays
  <2>2. \A m \in Names : syms'[m] = syms[m] \/ syms'[m].c = 0
    BY <1>4 DEF NoSym
  <2> QED BY <2>1, <2>2, <1>1, <1>3, HomesFrame
<1>6. HomesOfUnit'
  BY <1>1 DEF HomesOfUnit
<1>7. DefsKept'
  BY <1>1, <1>2 DEF DefsKept
<1>8. SymsKept'
  BY <1>1, <1>4 DEF SymsKept, Declared
<1>9. LinkedAll'
  BY <1>1, <1>2 DEF LinkedAll
<1> QED BY <1>5, <1>6, <1>7, <1>8, <1>9 DEF Resolved

(* Its end at a label, which differs in the room that it takes only.       *)
LEMMA LabelRight ==
    ASSUME IInv, Resolved, NEW size \in CodeSize, label_undefined(size)
    PROVE  Resolved'
<1>1. /\ compiling' = FALSE /\ syms' = [n \in Names |-> NoSym]
      /\ UNCHANGED <<table, refs, unit, ended, defs, complaints>>
  BY DEF label_undefined
<1>2. Units /\ DefsKept /\ LinkedAll
  BY DEF IInv, Resolved
<1>3. unit \in Nat
  BY <1>2, ElfAssumption DEF Units
<1>4. \A m \in Names : syms'[m] = NoSym
  BY <1>1
<1>5. HomesRight' /\ HomesApart' /\ HomesThere'
  <2>1. Frame(table.symtab, table'.symtab)
    BY <1>1 DEF Frame, Stays
  <2>2. \A m \in Names : syms'[m] = syms[m] \/ syms'[m].c = 0
    BY <1>4 DEF NoSym
  <2> QED BY <2>1, <2>2, <1>1, <1>3, HomesFrame
<1>6. HomesOfUnit'
  BY <1>1 DEF HomesOfUnit
<1>7. DefsKept'
  BY <1>1, <1>2 DEF DefsKept
<1>8. SymsKept'
  BY <1>1, <1>4 DEF SymsKept, Declared
<1>9. LinkedAll'
  BY <1>1, <1>2 DEF LinkedAll
<1> QED BY <1>5, <1>6, <1>7, <1>8, <1>9 DEF Resolved

(* The end of a body writes the size of a function's symbol, which says    *)
(* nothing of where it is: no definition of a function is common.          *)
LEMMA EndFunctionRight ==
    ASSUME IInv, Resolved, NEW size \in CodeSize, end_function(size)
    PROVE  Resolved'
<1>1. PICK n \in func : TRUE
  BY DEF end_function
<1>2. PICK i : i = syms[n].c
  OBVIOUS
<1>3. /\ n \in Fn /\ i \in 1 .. Len(table.symtab) /\ table.symtab[i].name = n
      /\ Resizes(table.symtab, table'.symtab, i, size)
      /\ UNCHANGED <<refs, syms, unit, compiling, ended, defs, complaints>>
  BY <1>1, <1>2, EndFunctionIs
<1>4. Units /\ HomesOfUnit /\ DefsKept /\ SymsKept
  BY DEF IInv, Resolved
<1>5. unit \in Nat /\ ended = "no"
  <2>1. compiling
    BY <1>1 DEF IInv, Open
  <2> QED BY <2>1, <1>4, ElfAssumption DEF Units
<1>6. Frame(table.symtab, table'.symtab)
  <2>1. PICK p, q : p = table.symtab /\ q = table'.symtab
    OBVIOUS
  <2>2. /\ Len(q) = Len(p) /\ \A j \in 1 .. Len(p) : j # i => q[j] = p[j]
        /\ p[i].name \in Fn /\ q[i].name = p[i].name /\ q[i].bind = p[i].bind
        /\ q[i].shndx = p[i].shndx /\ q[i].value = p[i].value
    BY <2>1, <1>3 DEF Resizes
  <2>3. ASSUME NEW j \in 1 .. Len(p)
        PROVE  q[j].name = p[j].name /\ q[j].bind = p[j].bind /\ Stays(p[j], q[j])
    <3>1. CASE j = i
      BY <3>1, <2>2 DEF Stays
    <3>2. CASE j # i
      BY <3>2, <2>2 DEF Stays
    <3> QED BY <3>1, <3>2
  <2> QED BY <2>1, <2>2, <2>3 DEF Frame
<1>7. /\ HomesRight' /\ HomesApart' /\ HomesThere'
      /\ \A m \in Names : \A o, j : Home(m, o, j)' => Home(m, o, j)
  BY <1>3, <1>5, <1>6, HomesFrame
<1>8. HomesOfUnit'
  <2>1. PICK u : u = unit' /\ u = unit
    BY <1>3
  <2>2. compiling
    BY <1>1 DEF IInv, Open
  <2>3. ASSUME NEW m \in Names, NEW j, Defs(m, u)' # {} \/ Home(m, u, j)'
        PROVE  syms'[m].own = u /\ syms'[m].c # 0
    <3>1. Defs(m, u) # {} \/ Home(m, u, j)
      BY <2>3, <1>3, <1>7 DEF Defs
    <3> QED BY <3>1, <2>1, <2>2, <1>3, <1>4 DEF HomesOfUnit
  <2> QED BY <2>1, <2>3 DEF HomesOfUnit, Defs, Home
<1>9. DefsKept' /\ SymsKept' /\ LinkedAll'
  BY <1>3, <1>4, <1>5 DEF DefsKept, SymsKept, LinkedAll, Declared
<1> QED BY <1>7, <1>8, <1>9 DEF Resolved

(* A declaration, of a name that has no Sym.                               *)
LEMMA DeclareRight ==
    ASSUME IInv, Resolved, NEW n \in Names, NEW static \in BOOLEAN, external_sym(n, static)
    PROVE  Resolved'
<1>1. /\ compiling /\ ~Declared(n) /\ syms' = [syms EXCEPT ![n] = Pushed(static, TRUE)]
      /\ UNCHANGED <<table, refs, top, unit, compiling, ended, defs, complaints>>
  BY DEF external_sym
<1>2. Units /\ HomesOfUnit /\ DefsKept /\ SymsKept /\ LinkedAll
  BY DEF IInv, Resolved
<1>3. unit \in Nat /\ unit > 0
  BY <1>1, <1>2, ElfAssumption DEF Units, SymsKept
<1>4. PICK s : s = Pushed(static, TRUE)
  OBVIOUS
<1>5. Fits(s, n)
  BY <1>1, <1>4, PushedFits
<1>6. syms[n] = NoSym
  BY <1>1 DEF Declared
<1>7. s.c = 0 /\ s.own \in {0, unit} /\ (s.static <=> s.own = unit)
  BY <1>5, <1>6 DEF Fits, NoSym
<1>8. \A m \in Names : syms'[m] = IF m = n THEN s ELSE syms[m]
  BY <1>1, <1>2, <1>4 DEF Units
<1>9. /\ HomesRight' /\ HomesApart' /\ HomesThere'
      /\ \A m \in Names : \A o, i : Home(m, o, i)' => Home(m, o, i)
  <2>1. Frame(table.symtab, table'.symtab)
    BY <1>1 DEF Frame, Stays
  <2>2. \A m \in Names : syms'[m] = syms[m] \/ syms'[m].c = 0
    BY <1>7, <1>8
  <2> QED BY <2>1, <2>2, <1>1, <1>3, HomesFrame
<1>10. HomesOfUnit'
  <2>1. PICK u : u = unit' /\ u = unit
    BY <1>1
  <2>2. ASSUME NEW m \in Names, NEW i, Defs(m, u)' # {} \/ Home(m, u, i)'
        PROVE  syms'[m].own = u /\ syms'[m].c # 0
    <3>1. Defs(m, u) # {} \/ Home(m, u, i)
      BY <2>2, <1>1, <1>9 DEF Defs
    <3>2. syms[m].own = u /\ syms[m].c # 0
      BY <2>1, <3>1, <1>1, <1>2 DEF HomesOfUnit
    <3>3. m # n
      BY <3>2, <1>6 DEF NoSym
    <3> QED BY <3>2, <3>3, <1>8
  <2> QED BY <2>1, <2>2 DEF HomesOfUnit, Defs, Home
<1>11. DefsKept'
  <2>1. ASSUME NEW j \in 1 .. Len(defs), defs[j].unit = unit
        PROVE  /\ syms'[defs[j].name] # NoSym /\ ~syms'[defs[j].name].extern
               /\ syms'[defs[j].name].own = defs[j].own
    <3>1. /\ defs[j].name # n
          /\ syms[defs[j].name] # NoSym /\ ~syms[defs[j].name].extern
          /\ syms[defs[j].name].own = defs[j].own
      BY <2>1, <1>1, <1>2 DEF DefsKept, Declared
    <3>2. defs[j] \in Def
      BY <1>2 DEF DefsKept
    <3>3. defs[j].name \in Names
      BY <3>2 DEF Def
    <3> QED BY <3>1, <3>3, <1>8
  <2> QED BY <2>1, <1>1, <1>2 DEF DefsKept, Declared
<1>12. SymsKept'
  <2>1. ASSUME NEW m \in Names, syms'[m] # NoSym
        PROVE  syms'[m].own \in {0, unit} /\ (syms'[m].static <=> syms'[m].own = unit)
    <3>1. CASE m = n
      BY <3>1, <1>7, <1>8
    <3>2. CASE m # n
      BY <3>2, <2>1, <1>2, <1>8 DEF SymsKept, Declared
    <3> QED BY <3>1, <3>2
  <2> QED BY <2>1, <1>1, <1>3 DEF SymsKept, Declared
<1>13. LinkedAll'
  BY <1>1, <1>2 DEF LinkedAll
<1> QED BY <1>9, <1>10, <1>11, <1>12, <1>13 DEF Resolved

(* The linker's symbols are not the program's.                             *)
LEMMA LinkFrame ==
    ASSUME Names \intersect Linker = {}, NEW p, NEW t, Table(t), Good(t), Frame(p, t.symtab),
           NEW n \in Linker, NEW s \in Kept, NEW value \in Nat,
           NEW u, u = add_elf_sym(t, Symbol(n, "global", s, value, 0)).table
    PROVE  Frame(p, u.symtab) /\ Table(u) /\ Good(u)
<1>1. PICK x : x = Symbol(n, "global", s, value, 0)
  OBVIOUS
<1>2. x \in Entry /\ x.name = n /\ n \in Named /\ n \notin Names
  BY <1>1 DEF Symbol, Entry, Named, Kept
<1>3. PICK r : r = add_elf_sym(t, x)
  OBVIOUS
<1>4. Table(u) /\ Good(u)
  BY <1>1, <1>2, <1>3, AddIs
<1>5. Added(t, x, r)
  BY <1>2, <1>3, AddExact
<1>6. PICK a \in Seq(Entry), N \in Nat : a = t.symtab /\ N = Len(a)
  BY TableParts
<1>7. PICK b : b = u.symtab /\ b = r.table.symtab
  BY <1>1, <1>3
<1>8. /\ r.i \in 1 .. Len(b) /\ N <= Len(b) /\ b[r.i].name = n /\ (r.i \in 1 .. N => a[r.i].name = n)
      /\ Len(b) \in Nat /\ \A j \in 1 .. Len(b) : j # r.i => j \in 1 .. N /\ b[j] = a[j]
  <2>1. CASE r.i = Len(a) + 1 /\ b = Append(a, x)
    <3>1. Len(b) = N + 1 /\ b[N + 1] = x /\ \A j \in 1 .. N : b[j] = a[j]
      BY <2>1, <1>2, <1>6
    <3>2. \A j \in 1 .. N + 1 : j # N + 1 => j \in 1 .. N
      OBVIOUS
    <3>3. N + 1 \notin 1 .. N /\ N <= N + 1 /\ N + 1 \in 1 .. N + 1
      OBVIOUS
    <3> QED BY <2>1, <3>1, <3>2, <3>3, <1>2, <1>6
  <2>2. CASE /\ r.i \in 1 .. N /\ IsGlobal(t, r.i, n) /\ Len(b) = N
             /\ \A j \in 1 .. N : j # r.i => b[j] = a[j]
             /\ b[r.i] = x \/ b[r.i] = a[r.i]
    BY <2>2, <1>2, <1>6 DEF IsGlobal
  <2> QED BY <2>1, <2>2, <1>2, <1>5, <1>6, <1>7 DEF Added
<1>9. \A j \in 1 .. N : j \in 1 .. Len(b)
  BY <1>8
<1>10. /\ \A j \in 1 .. Len(p) : p[j].name \in Names =>
             /\ j \in 1 .. N /\ a[j].name = p[j].name /\ a[j].bind = p[j].bind
             /\ Stays(p[j], a[j])
       /\ \A j \in 1 .. N : a[j].name \in Names /\ a[j].bind = "global" =>
             j \in 1 .. Len(p) /\ p[j].name = a[j].name /\ p[j].bind = a[j].bind
  BY <1>2, <1>6 DEF Frame
<1>11. n \notin Names
  BY <1>2
<1>12. \A j \in 1 .. N : a[j].name \in Names => j \in 1 .. Len(b) /\ b[j] = a[j]
  BY <1>8, <1>9, <1>11
<1>13. \A j \in 1 .. Len(b) : b[j].name \in Names => j \in 1 .. N /\ b[j] = a[j]
  BY <1>8, <1>11
<1>14. ASSUME NEW j \in 1 .. Len(p), p[j].name \in Names
       PROVE  /\ j \in 1 .. Len(b) /\ b[j].name = p[j].name /\ b[j].bind = p[j].bind
              /\ Stays(p[j], b[j])
  <2>1. j \in 1 .. N /\ a[j].name = p[j].name
    BY <1>14, <1>10
  <2>2. j \in 1 .. Len(b) /\ b[j] = a[j]
    BY <2>1, <1>12, <1>14
  <2> QED BY <2>2, <1>14, <1>10
<1>15. ASSUME NEW j \in 1 .. Len(b), b[j].name \in Names, b[j].bind = "global"
       PROVE  j \in 1 .. Len(p) /\ p[j].name = b[j].name /\ p[j].bind = b[j].bind
  BY <1>15, <1>13, <1>10
<1>16. Frame(p, b)
  BY <1>14, <1>15 DEF Frame
<1> QED BY <1>4, <1>7, <1>16

(* tcc_relocate.                                                           *)
LEMMA RelocateRight ==
    ASSUME IInv, IInv', Resolved, Sane, tcc_relocate
    PROVE  Resolved'
<1>1. PICK p : p = table.symtab
  OBVIOUS
<1>2. PICK o : o = bss_offset(p)
  OBVIOUS
<1>3. PICK q : q = relocate_common_syms(p)
  OBVIOUS
<1>4. PICK bss : bss = o[Len(p)]
  OBVIOUS
<1>5. PICK t : t = [table EXCEPT !.symtab = q]
  OBVIOUS
<1>6. PICK u : u = tcc_add_linker_symbols(t, bss)
  OBVIOUS
<1>7. /\ Usable /\ ~compiling /\ table' = u
      /\ UNCHANGED <<refs, syms, unit, compiling, defs, complaints>>
      /\ ended' = IF {i \in DOMAIN u.symtab : u.symtab[i].shndx = "undef"
                                              /\ u.symtab[i].name \notin Extern} = {}
                  THEN "linked" ELSE "failed"
  BY <1>1, <1>2, <1>3, <1>4, <1>5, <1>6 DEF tcc_relocate
<1>8. /\ Table(table) /\ Table(table') /\ Units /\ DefsKept /\ SymsKept
      /\ top \in [Kept -> Nat] /\ Placed(table.symtab, top, Refused)
  BY DEF IInv, Laid, Resolved
<1>9. Good(table)
  BY <1>7, Begun DEF Sane, Oddities
<1>10. p \in Seq(Entry) /\ DOMAIN p = 1 .. Len(p)
  BY <1>1, <1>8, TableParts
<1>11. /\ q \in Seq(Entry) /\ Len(q) = Len(p) /\ bss \in Nat
       /\ \A i \in 1 .. Len(q) : q[i].name = p[i].name /\ q[i].bind = p[i].bind
  <2>1. PICK x : x = Refused
    OBVIOUS
  <2>2. top \in [Kept -> Nat] /\ Placed(p, top, x)
    BY <2>1, <1>1, <1>8
  <2>3. /\ q \in Seq(Entry) /\ Len(q) = Len(p) /\ o[Len(p)] \in Nat
        /\ \A i \in 1 .. Len(q) : q[i].name = p[i].name /\ q[i].bind = p[i].bind
        /\ Placed(q, [top EXCEPT !.bss = o[Len(p)]], x)
    BY <2>2, <1>2, <1>3, <1>10, CommonIs
  <2> QED BY <2>3, <1>4
<1>12. Table(t) /\ t.symtab = q /\ Good(t)
  <2>1. /\ Table(t) /\ t.symtab = q
        /\ Good(table) /\ (\A i \in 1 .. Len(q) : q[i].name = table.symtab[i].name
                                                  /\ q[i].bind = table.symtab[i].bind) => Good(t)
    BY <1>1, <1>5, <1>8, <1>11, RewriteIs
  <2> QED BY <2>1, <1>1, <1>9, <1>11
<1>13. Frame(p, q)
  <2>1. ASSUME NEW j \in 1 .. Len(p)
        PROVE  Stays(p[j], q[j])
    <3>1. q[j] = IF p[j].shndx = "common"
                 THEN Symbol(p[j].name, p[j].bind, "bss", o[j - 1], p[j].size) ELSE p[j]
      BY <1>2, <1>3, <1>10 DEF relocate_common_syms
    <3> QED BY <3>1 DEF Symbol, Stays
  <2> QED BY <2>1, <1>11 DEF Frame
<1>14. Frame(p, u.symtab)
  <2>1. PICK t1 : t1 = add_elf_sym(t, Symbol("_etext", "global", "text", top.text, 0)).table
    OBVIOUS
  <2>2. PICK t2 : t2 = add_elf_sym(t1, Symbol("_edata", "global", "data", top.data, 0)).table
    OBVIOUS
  <2>3. u = add_elf_sym(t2, Symbol("_end", "global", "bss", bss, 0)).table
    BY <2>1, <2>2, <1>6 DEF tcc_add_linker_symbols
  <2>4. /\ "text" \in Kept /\ "data" \in Kept /\ "bss" \in Kept
        /\ "_etext" \in Linker /\ "_edata" \in Linker /\ "_end" \in Linker
    BY DEF Kept, Linker
  <2>5. top.text \in Nat /\ top.data \in Nat /\ Names \intersect Linker = {}
    BY <2>4, <1>8 DEF Sane
  <2>6. Frame(p, t.symtab)
    BY <1>12, <1>13
  <2>7. Frame(p, t1.symtab) /\ Table(t1) /\ Good(t1)
    BY <2>1, <2>4, <2>5, <2>6, <1>12, LinkFrame
  <2>8. Frame(p, t2.symtab) /\ Table(t2) /\ Good(t2)
    BY <2>2, <2>4, <2>5, <2>7, LinkFrame
  <2> QED BY <2>3, <2>4, <2>5, <2>8, <1>11, LinkFrame
<1>15. HomesRight' /\ HomesApart' /\ HomesThere'
  <2>1. Frame(table.symtab, table'.symtab)
    BY <1>1, <1>7, <1>14
  <2>2. unit \in Nat
    BY <1>8, ElfAssumption DEF Units
  <2> QED BY <2>1, <2>2, <1>7, HomesFrame
<1>16. HomesOfUnit' /\ DefsKept'
  BY <1>7, <1>8 DEF HomesOfUnit, DefsKept
<1>17. SymsKept'
  BY <1>7, <1>8 DEF SymsKept, Declared
<1>18. LinkedAll'
  <2>1. DOMAIN u.symtab = 1 .. Len(table'.symtab) /\ table' = u
    BY <1>7, <1>8, TableParts
  <2>2. ASSUME ended' = "linked", NEW i \in 1 .. Len(table'.symtab), table'.symtab[i].shndx = "undef"
        PROVE  table'.symtab[i].name \in Extern
    BY <2>1, <2>2, <1>7
  <2> QED BY <2>2 DEF LinkedAll
<1> QED BY <1>15, <1>16, <1>17, <1>18 DEF Resolved

-----------------------------------------------------------------------------
(* output_file: where a symbol goes, and its relocations with it.          *)
Moved(p, q, N, rs, ss) ==
    /\ N \in Nat /\ DOMAIN p = 1 .. N /\ Len(q) = N
    /\ \A k \in 1 .. N : \E i \in 1 .. N : NewPlace(p, i) = k /\ q[k] = p[i]
    /\ Len(ss) = Len(rs)
    /\ \A r \in 1 .. Len(rs) :
          /\ rs[r].sym \in 1 .. N /\ ss[r].sym = NewPlace(p, rs[r].sym)
          /\ ss[r].name = rs[r].name /\ ss[r].own = rs[r].own

(* It does so.                                                             *)
LEMMA SortExact ==
    ASSUME IInv, sort_syms, NEW p, p = table.symtab, NEW N, N = Len(p), NEW q, q = table'.symtab
    PROVE  Moved(p, q, N, refs, refs')
<1>1. Table(table) /\ refs \in Seq(Ref) /\ \A r \in 1 .. Len(refs) : refs[r].sym \in 1 .. N
  BY DEF IInv, Laid, Refs
<1>2. p \in Seq(Entry) /\ N \in Nat /\ DOMAIN p = 1 .. N /\ table \in Tables(Nb(table))
  BY <1>1, TableParts
<1>3. /\ table' = [table EXCEPT !.symtab =
                     [k \in 1 .. N |-> p[CHOOSE i \in 1 .. N : NewPlace(p, i) = k]]]
      /\ refs' = [r \in DOMAIN refs |-> [refs[r] EXCEPT !.sym = NewPlace(p, refs[r].sym)]]
  BY <1>2 DEF sort_syms, NewPlace
<1>4. q = [k \in 1 .. N |-> p[CHOOSE i \in 1 .. N : NewPlace(p, i) = k]]
  BY <1>2, <1>3 DEF Tables
<1>5. \A k \in 1 .. N : \E i \in 1 .. N : NewPlace(p, i) = k
  BY <1>2, Permutes
<1>6. \A k \in 1 .. N : \E i \in 1 .. N : NewPlace(p, i) = k /\ q[k] = p[i]
  <2>1. PICK g : g = [k \in 1 .. N |-> CHOOSE i \in 1 .. N : NewPlace(p, i) = k]
    OBVIOUS
  <2>2. \A k \in 1 .. N : g[k] \in 1 .. N /\ NewPlace(p, g[k]) = k
    BY <2>1, <1>5
  <2>3. \A k \in 1 .. N : q[k] = p[g[k]]
    BY <2>1, <1>4
  <2> QED BY <2>2, <2>3
<1>7. \A k \in 1 .. N : q[k] \in Entry
  <2>1. \A i \in 1 .. N : p[i] \in Entry
    BY <1>2
  <2> QED BY <2>1, <1>6
<1>8. Len(q) = N
  <2>1. q = [k \in 1 .. N |-> q[k]]
    BY <1>4
  <2>2. q \in Seq(Entry)
    BY <2>1, <1>2, <1>7
  <2> QED BY <2>1, <2>2, <1>2
<1>9. PICK m \in Nat : m = Len(refs) /\ DOMAIN refs = 1 .. m /\ \A r \in 1 .. m : refs[r] \in Ref
  BY <1>1
<1>10. \A r \in 1 .. m : refs'[r] = [refs[r] EXCEPT !.sym = NewPlace(p, refs[r].sym)]
  BY <1>3, <1>9
<1>11. \A r \in 1 .. m : /\ refs'[r].sym = NewPlace(p, refs[r].sym)
                         /\ refs'[r].name = refs[r].name /\ refs'[r].own = refs[r].own
  BY <1>9, <1>10 DEF Ref
<1>12. Len(refs') = m
  <2>1. \A r \in 1 .. m : refs'[r] \in Ref
    <3> TAKE r \in 1 .. m
    <3>1. PICK j \in 1 .. N : j = refs[r].sym
      BY <1>1, <1>9
    <3>2. NewPlace(p, j) \in 1 .. N
      BY <1>2, Permutes
    <3>3. PICK k \in Nat : k = NewPlace(p, j)
      BY <3>2
    <3>4. refs[r] \in Ref /\ refs'[r] = [refs[r] EXCEPT !.sym = k]
      BY <3>1, <3>3, <1>9, <1>10
    <3> QED BY <3>4 DEF Ref
  <2>2. refs' = [r \in 1 .. m |-> refs'[r]]
    BY <1>3, <1>9
  <2>3. refs' \in Seq(Ref)
    BY <2>1, <2>2
  <2> QED BY <2>2, <2>3
<1> QED BY <1>1, <1>2, <1>6, <1>8, <1>9, <1>11, <1>12 DEF Moved

(* The local symbols come first.                                           *)
Sorted ==
    ended = "object" =>
       \A i, j \in 1 .. Len(table.symtab) :
          table.symtab[i].bind = "local" /\ table.symtab[j].bind # "local" => i < j

(* output_file: every thing has its symbol, at the new place.              *)
LEMMA OutputRight ==
    ASSUME IInv, Resolved, output_file
    PROVE  HomesRight' /\ LinkedAll' /\ Sorted'
<1>1. /\ ~compiling /\ sort_syms /\ ended' = "object"
      /\ UNCHANGED <<top, syms, unit, compiling, defs, complaints>>
  BY DEF output_file
<1>2. HomesRight /\ Units
  BY DEF IInv, Resolved
<1>3. PICK p : p = table.symtab
  OBVIOUS
<1>4. PICK N : N = Len(p)
  OBVIOUS
<1>5. PICK q : q = table'.symtab
  OBVIOUS
<1>6. /\ N \in Nat /\ DOMAIN p = 1 .. N /\ Len(q) = N
      /\ \A k \in 1 .. N : \E i \in 1 .. N : NewPlace(p, i) = k /\ q[k] = p[i]
      /\ Len(refs') = Len(refs)
      /\ \A r \in 1 .. Len(refs) :
            /\ refs[r].sym \in 1 .. N /\ refs'[r].sym = NewPlace(p, refs[r].sym)
            /\ refs'[r].name = refs[r].name /\ refs'[r].own = refs[r].own
  <2>1. Moved(p, q, N, refs, refs')
    BY <1>1, <1>3, <1>4, <1>5, SortExact
  <2> QED BY <2>1 DEF Moved
<1>7. /\ \A i \in 1 .. N : NewPlace(p, i) \in 1 .. N
      /\ \A i, j \in 1 .. N : NewPlace(p, i) = NewPlace(p, j) => i = j
  BY <1>6, Permutes
<1>8. ASSUME NEW m \in Names, NEW o, NEW k, Home(m, o, k)'
      PROVE  k \in 1 .. N /\ \E i \in 1 .. N : Home(m, o, i) /\ q[k] = p[i]
  <2>1. syms'[m].c = 0
    BY <1>1, <1>2 DEF Units, Declared, NoSym
  <2>2. CASE \E r \in 1 .. Len(refs') : refs'[r].sym = k /\ refs'[r].name = m /\ refs'[r].own = o
    <3>1. PICK r \in 1 .. Len(refs) : refs'[r].sym = k /\ refs'[r].name = m /\ refs'[r].own = o
      BY <2>2, <1>6
    <3>2. PICK j \in 1 .. N : j = refs[r].sym /\ k = NewPlace(p, j)
      BY <3>1, <1>6
    <3>3. Home(m, o, j)
      BY <3>1, <3>2, <1>6 DEF Home
    <3>4. k \in 1 .. N
      BY <3>2, <1>7
    <3>5. PICK i \in 1 .. N : NewPlace(p, i) = k /\ q[k] = p[i]
      BY <3>4, <1>6
    <3>6. i = j
      BY <3>2, <3>5, <1>7
    <3> QED BY <3>3, <3>4, <3>5, <3>6
  <2>3. CASE o = 0 /\ k \in 1 .. N /\ q[k].name = m /\ q[k].bind = "global"
    <3>1. PICK i \in 1 .. N : q[k] = p[i]
      BY <2>3, <1>6
    <3>2. Home(m, o, i)
      BY <3>1, <2>3, <1>3, <1>4 DEF Home, IsGlobal
    <3> QED BY <3>1, <3>2, <2>3
  <2> QED BY <2>1, <2>2, <2>3, <1>5, <1>6, <1>8 DEF Home, IsGlobal
<1>9. HomesRight'
  <2> SUFFICES ASSUME NEW m \in Names, NEW o, NEW k, Home(m, o, k)'
               PROVE  /\ o \in 0 .. unit' /\ k \in 1 .. Len(table'.symtab)
                      /\ table'.symtab[k].name = m /\ (table'.symtab[k].bind = "global" <=> o = 0)
                      /\ RightNext(table'.symtab[k], m, o)
    BY DEF HomesRight, Right, RightNext
  <2>1. k \in 1 .. N
    BY <1>8
  <2>2. PICK i \in 1 .. N : Home(m, o, i) /\ q[k] = p[i]
    BY <1>8
  <2>3. /\ o \in 0 .. unit /\ p[i].name = m /\ (p[i].bind = "global" <=> o = 0)
        /\ Right(p[i], m, o)
    BY <2>2, <1>2, <1>3 DEF HomesRight
  <2>4. RightNext(p[i], m, o)
    BY <2>3, <1>1 DEF Right, RightNext, Defs
  <2> QED BY <2>1, <2>2, <2>3, <2>4, <1>1, <1>5, <1>6
<1>10. Sorted'
  <2> SUFFICES ASSUME NEW k \in 1 .. N, NEW l \in 1 .. N, q[k].bind = "local", q[l].bind # "local"
               PROVE  k < l
    BY <1>5, <1>6 DEF Sorted
  <2>1. PICK i \in 1 .. N : NewPlace(p, i) = k /\ q[k] = p[i]
    BY <1>6
  <2>2. PICK j \in 1 .. N : NewPlace(p, j) = l /\ q[l] = p[j]
    BY <1>6
  <2>3. PICK L, G : L = (1 .. N) \ Global(p) /\ G = Global(p)
    OBVIOUS
  <2>4. L \in SUBSET (1 .. N) /\ G \in SUBSET (1 .. N) /\ i \in L /\ j \in G /\ j \notin L
    BY <2>1, <2>2, <2>3, <1>6 DEF Global
  <2>5. k = Cardinality(Upto(L, i)) /\ l = Cardinality(L) + Cardinality(Upto(G, j))
    BY <2>1, <2>2, <2>3, <2>4, <1>6 DEF NewPlace, Upto
  <2>6. PICK a \in Nat : a = Cardinality(L) /\ k \in 1 .. a
    BY <2>4, <2>5, <1>6, CountUpto
  <2>7. PICK b \in Nat : b = Cardinality(Upto(G, j)) /\ b >= 1
    <3>1. Cardinality(G) \in Nat /\ Cardinality(Upto(G, j)) \in 1 .. Cardinality(G)
      BY <2>4, <1>6, CountUpto
    <3> QED BY <3>1
  <2> QED BY <2>5, <2>6, <2>7
<1>11. LinkedAll'
  BY <1>1 DEF LinkedAll
<1> QED BY <1>9, <1>10, <1>11

-----------------------------------------------------------------------------
(* In the beginning there is nothing.                                      *)
LEMMA InitRight == Init => Resolved /\ Sorted
<1> SUFFICES ASSUME Init PROVE Resolved /\ Sorted
  OBVIOUS
<1>1. /\ table.symtab = <<>> /\ refs = <<>> /\ defs = <<>> /\ unit = 0 /\ ended = "no"
      /\ \A n \in Names : syms[n] = NoSym
  BY DEF Init
<1>2. ~compiling
  BY Zenon DEF Init
<1>3. Len(table.symtab) = 0 /\ Len(refs) = 0 /\ Len(defs) = 0 /\ DOMAIN defs = {} /\ 1 .. 0 = {}
  BY <1>1
<1>4. \A n \in Names : \A own, i : ~Home(n, own, i)
  BY <1>1, <1>3 DEF Home, NoSym
<1>5. HomesRight /\ HomesApart /\ HomesOfUnit
  BY <1>2, <1>4 DEF HomesRight, HomesApart, HomesOfUnit
<1>6. HomesThere
  BY <1>3 DEF HomesThere, Defs
<1>7. DefsKept
  <2>1. defs \in Seq(Def)
    BY <1>1
  <2> QED BY <2>1, <1>3 DEF DefsKept
<1>8. SymsKept /\ LinkedAll /\ Sorted
  BY <1>1, <1>2 DEF SymsKept, LinkedAll, Sorted, Declared
<1> QED BY <1>5, <1>6, <1>7, <1>8 DEF Resolved

(* Once an object is written the table is that of the sorted symbols, and  *)
(* nothing follows.                                                        *)
Linked == HomesRight /\ LinkedAll /\ Sorted /\ (ended # "object" => Resolved)

(* Every step keeps it.                                                    *)
LEMMA LinkedStep ==
    ASSUME IInv, IInv', Linked, Sane, [Next]_vars
    PROVE  Linked'
<1>1. "output" \in Avoided /\ Units
  BY DEF Sane, Oddities, IInv
<1>2. compiling \/ Usable => ended # "object"
  BY <1>1 DEF Units, Usable
<1>3. compiling \/ Usable => Resolved
  BY <1>2 DEF Linked
<1>4. Resolved' /\ ended' # "object" => Linked'
  BY DEF Linked, Resolved, Sorted
<1>5. CASE tcc_compile
  <2>1. Usable /\ ended' = "no"
    BY <1>5 DEF tcc_compile
  <2> QED BY <2>1, <1>3, <1>4, <1>5, CompileRight
<1>6. CASE end_compile
  <2>1. compiling /\ ended' = ended
    BY <1>6 DEF end_compile
  <2> QED BY <2>1, <1>2, <1>3, <1>4, <1>6, EndRight
<1>7. CASE tcc_relocate
  <2>1. Usable /\ (ended' = "linked" \/ ended' = "failed")
    BY <1>7 DEF tcc_relocate
  <2> QED BY <2>1, <1>3, <1>4, <1>7, RelocateRight
<1>8. CASE output_file
  <2>1. Usable /\ ended' = "object"
    BY <1>8 DEF output_file
  <2> QED BY <2>1, <1>3, <1>8, OutputRight DEF Linked
<1>9. ASSUME NEW n \in Names, greloc(n) PROVE Linked'
  <2>1. compiling /\ ended' = ended
    BY <1>9 DEF greloc
  <2> QED BY <2>1, <1>2, <1>3, <1>4, <1>9, UseStep
<1>10. ASSUME NEW n \in Names, tcc_add_symbol(n) PROVE Linked'
  <2>1. Usable /\ ended' = "no"
    BY <1>10 DEF tcc_add_symbol
  <2> QED BY <2>1, <1>3, <1>4, <1>10, AddRight
<1>11. ASSUME NEW n \in Names, NEW static \in BOOLEAN, external_sym(n, static) PROVE Linked'
  <2>1. compiling /\ ended' = ended
    BY <1>11 DEF external_sym
  <2> QED BY <2>1, <1>2, <1>3, <1>4, <1>11, DeclareRight
<1>12. ASSUME NEW n \in Names, NEW static \in BOOLEAN, gen_function(n, static) PROVE Linked'
  <2>1. compiling /\ ended' = ended
    BY <1>12 DEF gen_function, Defined
  <2> QED BY <2>1, <1>2, <1>3, <1>4, <1>12, FunctionRight
<1>13. ASSUME NEW n \in Names, NEW static \in BOOLEAN, initialized(n, static) PROVE Linked'
  <2>1. compiling /\ ended' = ended
    BY <1>13 DEF initialized, Defined
  <2> QED BY <2>1, <1>2, <1>3, <1>4, <1>13, InitializedRight
<1>14. ASSUME NEW n \in Names, NEW static \in BOOLEAN, tentative(n, static) PROVE Linked'
  <2>1. compiling /\ ended' = ended
    BY <1>14 DEF tentative, Defined
  <2> QED BY <2>1, <1>2, <1>3, <1>4, <1>14, TentativeRight
<1>16. ASSUME NEW size \in CodeSize, end_function(size) PROVE Linked'
  <2>1. compiling /\ ended' = ended
    BY <1>16 DEF end_function, IInv, Open
  <2> QED BY <2>1, <1>2, <1>3, <1>4, <1>16, EndFunctionRight
<1>17. ASSUME NEW size \in CodeSize, label_undefined(size) PROVE Linked'
  <2>1. compiling /\ ended' = ended
    BY <1>17 DEF label_undefined, IInv, Open
  <2> QED BY <2>1, <1>2, <1>3, <1>4, <1>17, LabelRight
<1>15. CASE UNCHANGED vars
  <2>1. UNCHANGED <<table, refs, top, syms, unit, compiling, ended, defs, complaints>>
    BY <1>15 DEF vars
  <2>2. \A n, own, i : Home(n, own, i)' <=> Home(n, own, i)
    BY <2>1 DEF Home, IsGlobal
  <2>3. ASSUME HomesRight PROVE HomesRight'
    <3> SUFFICES ASSUME NEW m \in Names, NEW o, NEW i, Home(m, o, i)'
                 PROVE  /\ o \in 0 .. unit' /\ i \in 1 .. Len(table'.symtab)
                        /\ table'.symtab[i].name = m /\ (table'.symtab[i].bind = "global" <=> o = 0)
                        /\ RightNext(table'.symtab[i], m, o)
      BY DEF HomesRight, Right, RightNext
    <3>1. Home(m, o, i)
      BY <2>2
    <3>2. PICK s : s = table.symtab[i] /\ s = table'.symtab[i]
      BY <2>1
    <3>3. Right(s, m, o)
      BY <2>3, <3>1, <3>2 DEF HomesRight
    <3>4. RightNext(s, m, o)
      BY <2>1, <3>3 DEF Right, RightNext, Defs
    <3> QED BY <2>1, <2>3, <3>1, <3>2, <3>4 DEF HomesRight
  <2>4. HomesApart => HomesApart'
    BY <2>2 DEF HomesApart
  <2>5. (HomesThere => HomesThere') /\ (HomesOfUnit => HomesOfUnit')
    BY <2>1 DEF HomesThere, HomesOfUnit, Home, Defs
  <2>6. (DefsKept => DefsKept') /\ (SymsKept => SymsKept')
    BY <2>1 DEF DefsKept, SymsKept, Declared
  <2>7. (LinkedAll => LinkedAll') /\ (Sorted => Sorted')
    BY <2>1 DEF LinkedAll, Sorted
  <2> QED BY <2>1, <2>3, <2>4, <2>5, <2>6, <2>7 DEF Linked, Resolved
<1> QED BY <1>5, <1>6, <1>7, <1>8, <1>9, <1>10, <1>11, <1>12, <1>13, <1>14, <1>15, <1>16, <1>17 DEF Next

(* Every symbol of the program is where its definitions say, at all times. *)
LEMMA LinkedInv == ASSUME Sane PROVE Spec => [](IInv /\ Linked)
<1>1. Init => IInv /\ Linked
  BY InitInv, InitRight DEF Linked, Resolved
<1>2. ASSUME IInv, IInv', Linked, [Next]_vars PROVE Linked'
  BY <1>2, LinkedStep
<1> QED BY <1>1, <1>2, Invariance, PTL DEF Spec

(* At most one of the definitions of a name is initialized.                *)
LEMMA OneStrong ==
    ASSUME NEW D, \A i, j \in StrongIn(defs, D) : i = j
    PROVE  Cardinality(Strong(D)) <= 1
<1>0. Strong(D) = StrongIn(defs, D)
  BY DEF Strong, StrongIn
<1>1. PICK S : S = Strong(D) /\ \A i, j \in S : i = j
  BY <1>0
<1>2. CASE S = {}
  BY <1>1, <1>2, FS_EmptySet
<1>3. CASE S # {}
  <2>1. PICK i : S = {i}
    BY <1>1, <1>3
  <2> QED BY <2>1, <1>1, FS_Singleton
<1> QED BY <1>2, <1>3

(* For all sizes and hash functions, and all programs without the odd      *)
(* forms: a name that units share is where its first initialized           *)
(* definition is, in whichever order units declare, use and define it,     *)
(* unless a second one was reported (put_extern_sym2, add_elf_sym,         *)
(* relocate_common_syms).                                                  *)
THEOREM DefinitionsCount ==
    ASSUME Avoided = Oddities, Names \intersect Linker = {}
    PROVE  Spec => []AsDefined
<1>1. ASSUME IInv, Linked PROVE AsDefined
  <2>1. PICK p : p = table.symtab /\ DOMAIN p = 1 .. Len(p) /\ \A i \in 1 .. Len(p) : p[i] \in Entry
    BY <1>1, TableParts DEF IInv, Laid
  <2> SUFFICES ASSUME NEW i \in 1 .. Len(p), p[i].bind # "local", p[i].name \in Names
               PROVE  LET D == Defs(p[i].name, 0)
                      IN IF D = {} THEN p[i].shndx = "undef"
                         ELSE IF p[i].name \in complaints
                              THEN IsAt(p[i], First(D)) \/ IsAt(p[i], Winner(D))
                              ELSE IsAt(p[i], Winner(D)) /\ Cardinality(Strong(D)) <= 1
    BY <2>1 DEF AsDefined, st, Global
  <2>2. PICK n \in Names : n = p[i].name
    OBVIOUS
  <2>3. p[i].bind = "global"
    BY <2>1 DEF Entry
  <2>4. Home(n, 0, i)
    BY <2>1, <2>2, <2>3 DEF Home, IsGlobal
  <2>5. Right(p[i], n, 0)
    BY <2>1, <2>4, <1>1 DEF Linked, HomesRight
  <2>6. PICK D : D = Defs(n, 0)
    OBVIOUS
  <2>7. RightIn(defs, D, n \in complaints, p[i])
    BY <2>5, <2>6 DEF Right
  <2>8. First(D) = defs[Min(D)] /\ Winner(D) = BestIn(defs, D)
    BY DEF First, Winner, BestIn, Strong, StrongIn
  <2>9. /\ D = {} => p[i].shndx = "undef"
        /\ D # {} /\ n \in complaints => IsAt(p[i], First(D)) \/ IsAt(p[i], Winner(D))
        /\ D # {} /\ n \notin complaints =>
              IsAt(p[i], Winner(D)) /\ \A j, k \in StrongIn(defs, D) : j = k
    BY <2>7, <2>8 DEF RightIn
  <2>10. D # {} /\ n \notin complaints => Cardinality(Strong(D)) <= 1
    BY <2>9, OneStrong
  <2> QED BY <2>2, <2>6, <2>9, <2>10
<1>2. Sane
  BY DEF Sane
<1> QED BY <1>1, <1>2, LinkedInv, PTL

(* And a reference goes to what its unit means, a static name to the       *)
(* symbol of the unit, through every later unit, the linking and the sort  *)
(* of the symbols for an object file (put_extern_sym2, sort_syms).         *)
THEOREM ReferencesMeant ==
    ASSUME Avoided = Oddities, Names \intersect Linker = {}
    PROVE  Spec => []Meant
<1>1. ASSUME IInv, Linked PROVE Meant
  <2>1. PICK p : p = table.symtab /\ DOMAIN p = 1 .. Len(p)
    BY <1>1, TableParts DEF IInv, Laid
  <2>2. Written => \A i, j \in DOMAIN p : p[i].bind = "local" /\ p[j].bind # "local" => i < j
    BY <2>1, <1>1 DEF Linked, Sorted, Written
  <2>3. ASSUME NEW r \in Range(refs)
        PROVE  LET s == p[r.sym]
                   D == Defs(r.name, r.own)
               IN /\ s.name = r.name
                  /\ (s.bind = "global") = (r.own = 0)
                  /\ r.own > 0 => IF D = {} THEN s.shndx = "undef" ELSE IsAt(s, Winner(D))
                  /\ ended = "linked" /\ D = {} => r.name \in Extern
    <3>1. refs \in Seq(Ref)
      BY <1>1 DEF IInv, Refs
    <3>2. PICK k \in 1 .. Len(refs) : r = refs[k]
      BY <3>1 DEF Range
    <3>0. r \in Ref
      BY <3>1, <3>2
    <3>3. PICK n \in Names, own \in Int, i \in Nat : n = r.name /\ own = r.own /\ i = r.sym
      BY <3>0 DEF Ref
    <3>4. Home(n, own, i)
      BY <3>2, <3>3 DEF Home
    <3>5. /\ i \in 1 .. Len(p) /\ p[i].name = n /\ (p[i].bind = "global" <=> own = 0)
          /\ Right(p[i], n, own)
      BY <2>1, <3>4, <1>1 DEF Linked, HomesRight
    <3>6. PICK D : D = Defs(n, own)
      OBVIOUS
    <3>7. PICK a : a = (own = 0 /\ n \in complaints)
      OBVIOUS
    <3>8. RightIn(defs, D, a, p[i])
      BY <3>5, <3>6, <3>7 DEF Right
    <3>9. D = {} => p[i].shndx = "undef"
      BY <3>8 DEF RightIn
    <3>10. own > 0 /\ D # {} => IsAt(p[i], Winner(D))
      <4>1. Winner(D) = BestIn(defs, D)
        BY DEF First, Winner, BestIn, Strong, StrongIn
      <4>2. own > 0 => own # 0
        OBVIOUS
      <4>3. own # 0 => ~a
        BY <3>7, Zenon
      <4>4. own # 0 /\ D # {} => IsAt(p[i], BestIn(defs, D))
        BY <4>3, <3>8 DEF RightIn
      <4> QED BY <4>1, <4>2, <4>4
    <3>11. ended = "linked" /\ D = {} => n \in Extern
      BY <2>1, <3>5, <3>9, <1>1 DEF Linked, LinkedAll
    <3> QED BY <3>3, <3>5, <3>6, <3>9, <3>10, <3>11
  <2> QED BY <2>1, <2>2, <2>3 DEF Meant, st
<1>2. Sane
  BY DEF Sane
<1> QED BY <1>1, <1>2, LinkedInv, PTL
=============================================================================
