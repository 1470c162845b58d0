---------------------------- MODULE HandleProofs ----------------------------
(***************************************************************************)
(* Proofs about Handle, for all functions, output types and numbers of     *)
(* handles, definitions and commands.                                      *)
(***************************************************************************)
EXTENDS Handle, TLAPS

InTable(s) == s.shndx \in {"text", "abs"}

(* A definition whose body was compiled to the end has its block, no       *)
(* absolute symbol takes another over, and what was placed is there.       *)
DefsOK ==
    \A h \in Handles :
        /\ placed[h] <= Len(defs[h])
        /\ \A i \in 1 .. Len(defs[h]) :
              /\ defs[h][i].used => defs[h][i].shndx = "text"
              /\ defs[h][i].whole /\ defs[h][i].shndx = "text" =>
                    /\ defs[h][i].at <= Len(code[h])
                    /\ code[h][defs[h][i].at] = defs[h][i].fn
                    /\ defs[h][i].at >= 1

(* A table has for every function the definition that counts, if there is  *)
(* any, and no other.                                                      *)
Counted(h, f, i) == Counts(defs[h], f, Len(defs[h]), i)

SymbolsOK ==
    \A h \in Handles, f \in Fn :
        /\ InTable(symtab[h][f]) =>
              \E i \in 1 .. Len(defs[h]) : Counted(h, f, i) /\ IsGiven(symtab[h][f], defs[h][i])
        /\ Defs(defs[h], f, Len(defs[h])) # {} => InTable(symtab[h][f])

(* While the newest handle is the only one named, an address is added to   *)
(* the symbols of a table once: by the relocation that succeeds, or by an  *)
(* attempt that fails and leaves the linker's symbols behind, after which  *)
(* none succeeds.                                                          *)
RelocatedOnce ==
    ~mixed => \A h \in Handles, f \in Fn :
        symtab[h][f].shndx = "text" =>
            \A i \in 1 .. Len(defs[h]) : Counted(h, f, i) =>
                IF h \in relocated
                THEN symtab[h][f].base = IF i <= placed[h] THEN "own" ELSE "none"
                ELSE h \in linked \/ symtab[h][f].base = "none"

(* What the Tcl commands were given, and what has become of it.            *)
GivenRight(c) ==
    /\ c.seen <= Len(defs[c.table])
    /\ \E i \in 1 .. c.seen :
          /\ Counts(defs[c.table], c.fn, c.seen, i)
          /\ IsGiven(c.sym, defs[c.table][i])
          /\ ~mixed /\ c.sym.shndx = "text" =>
                c.sym.base = IF i <= placed[c.table] THEN "own" ELSE "none"
    /\ ~mixed => c.table = c.handle /\ c.table \in relocated

IsLater(c, i) ==
    /\ i \in Later(c) /\ \A j \in Later(c) : j <= i
    /\ symtab[c.table][c.fn] = TextAt(defs[c.table][i].at)

GivenStays(c) ==
    IF Later(c) = {} THEN symtab[c.table][c.fn] = c.sym ELSE \E i \in Later(c) : IsLater(c, i)

GivenOK ==
    \A c \in commands : InTable(c.sym) => GivenRight(c) /\ (~mixed => GivenStays(c))

IInv == TypeOK /\ DefsOK /\ SymbolsOK /\ RelocatedOnce /\ GivenOK

-----------------------------------------------------------------------------
(* A history es is ds with d after it.                                     *)
Grown(ds, d, es) ==
    /\ Len(es) = Len(ds) + 1
    /\ es[Len(ds) + 1] = d
    /\ \A i \in 1 .. Len(ds) : es[i] = ds[i]

(* At most one definition of a function counts.                            *)
LEMMA CountsOnce ==
    ASSUME NEW ds, NEW f, NEW n \in Nat, NEW i \in Int, NEW j \in Int,
           Counts(ds, f, n, i), Counts(ds, f, n, j)
    PROVE  i = j
BY DEF Counts, Defs

(* What counted among the first n of a history still does when it grows.   *)
LEMMA CountsStays ==
    ASSUME NEW ds, Len(ds) \in Nat, NEW d, NEW es, Grown(ds, d, es),
           NEW f, NEW n \in Nat, n <= Len(ds)
    PROVE  /\ Defs(es, f, n) = Defs(ds, f, n)
           /\ \A i : Counts(ds, f, n, i) => Counts(es, f, n, i)
           /\ \A i : Counts(es, f, n, i) => Counts(ds, f, n, i)
<1>1. \A i \in 1 .. n : es[i] = ds[i]
  BY DEF Grown
<1>2. Defs(es, f, n) = Defs(ds, f, n)
  BY <1>1 DEF Defs
<1>3. \A i \in Defs(ds, f, n) : es[i] = ds[i]
  BY <1>1 DEF Defs
<1> QED BY <1>2, <1>3 DEF Counts

(* The definition that counts once d is there: d if it takes the function  *)
(* over or is the first of it, else the one that counted before.           *)
LEMMA CountsGrown ==
    ASSUME NEW ds, Len(ds) \in Nat, NEW d, NEW es, Grown(ds, d, es), NEW f,
           NEW n, n = Len(ds) + 1
    PROVE  /\ d.fn # f => Defs(es, f, n) = Defs(ds, f, Len(ds))
           /\ d.fn = f /\ d.used => Counts(es, f, n, n)
           /\ d.fn = f /\ Defs(ds, f, Len(ds)) = {} => Counts(es, f, n, n)
           /\ d.fn # f \/ ~d.used =>
                 \A i : Counts(ds, f, Len(ds), i) => Counts(es, f, n, i)
           /\ d.fn # f => \A i : Counts(es, f, n, i) => Counts(ds, f, Len(ds), i)
<1>1. n \in Nat /\ es[n] = d /\ 1 .. n = 1 .. Len(ds) \union {n} /\ n \notin 1 .. Len(ds)
  BY DEF Grown
<1>2. \A i \in 1 .. Len(ds) : es[i] = ds[i]
  BY DEF Grown
<1>3. Defs(es, f, n) = Defs(ds, f, Len(ds)) \union (IF d.fn = f THEN {n} ELSE {})
  BY <1>1, <1>2 DEF Defs
<1>4. \A i \in Defs(ds, f, Len(ds)) : i \in 1 .. Len(ds) /\ es[i] = ds[i] /\ i < n
  BY <1>1, <1>2 DEF Defs
<1>5. ASSUME d.fn = f, d.used PROVE Counts(es, f, n, n)
  BY <1>1, <1>3, <1>4, <1>5 DEF Counts
<1>6. ASSUME d.fn = f, Defs(ds, f, Len(ds)) = {} PROVE Counts(es, f, n, n)
  BY <1>1, <1>3, <1>6 DEF Counts
<1>7. ASSUME d.fn # f \/ ~d.used, NEW i, Counts(ds, f, Len(ds), i)
      PROVE  Counts(es, f, n, i)
  BY <1>1, <1>3, <1>4, <1>7 DEF Counts
<1>8. ASSUME d.fn # f, NEW i, Counts(es, f, n, i) PROVE Counts(ds, f, Len(ds), i)
  BY <1>1, <1>3, <1>4, <1>8 DEF Counts
<1> QED BY <1>3, <1>5, <1>6, <1>7, <1>8

-----------------------------------------------------------------------------
(* The operations that name a handle work on the newest one, which exists. *)
LEMMA NamesFacts ==
    ASSUME TypeOK, NEW h \in Handles, Names(h)
    PROVE  last \in Handles /\ mixed' \in BOOLEAN /\ (~mixed' => ~mixed /\ h = last)
<1>1. last \in Handles
  BY HandleAssumption DEF TypeOK, Names, Handles
<1>2. mixed' = (mixed \/ h # last) /\ mixed \in BOOLEAN
  BY DEF TypeOK, Names
<1>3. mixed' \in BOOLEAN /\ (~mixed' => ~mixed /\ h = last)
  BY <1>2, Zenon
<1> QED BY <1>1, <1>3

(* A symbol without an address is a symbol.                                *)
LEMMA SymbolFacts ==
    /\ NoSymbol \in Symbol /\ [NoSymbol EXCEPT !.shndx = "undef"] \in Symbol
    /\ Absolute \in Symbol
    /\ \A i \in Nat : TextAt(i) \in Symbol
BY DEF NoSymbol, Symbol, TextAt, Absolute

(* The histories have their types, and lengths.                            *)
LEMMA Typed ==
    ASSUME TypeOK, NEW h \in Handles
    PROVE  /\ code[h] \in Seq(Fn) /\ Len(code[h]) \in Nat
           /\ defs[h] \in Seq(Definition) /\ Len(defs[h]) \in Nat
           /\ placed[h] \in Nat
           /\ \A f \in Fn : symtab[h][f] \in Symbol
           /\ \A i \in 1 .. Len(defs[h]) : defs[h][i] \in Definition
BY DEF TypeOK

-----------------------------------------------------------------------------
(* The process starts in it: no handle, no code, no symbol.                *)
LEMMA InitIInv == Init => IInv
<1> SUFFICES ASSUME Init PROVE IInv
  OBVIOUS
<1> USE HandleAssumption DEF Init
<1>1. TypeOK
  <2>1. last \in 0 .. MaxHandles /\ alive \subseteq 1 .. last
    OBVIOUS
  <2>2. type \in [Handles -> Types] /\ code \in [Handles -> Seq(Fn)]
    OBVIOUS
  <2>3. symtab \in [Handles -> [Fn -> Symbol]]
    BY SymbolFacts
  <2>4. placed \in [Handles -> Nat] /\ defs \in [Handles -> Seq(Definition)]
    OBVIOUS
  <2>5. mixed \in BOOLEAN
    OBVIOUS
  <2> QED BY <2>1, <2>2, <2>3, <2>4, <2>5 DEF TypeOK
<1>2. \A h \in Handles : /\ Len(defs[h]) = 0 /\ placed[h] = 0
                         /\ \A f \in Fn : symtab[h][f] = NoSymbol /\ Defs(defs[h], f, 0) = {}
  BY DEF Defs
<1>3. DefsOK /\ SymbolsOK /\ RelocatedOnce /\ GivenOK
  BY <1>2 DEF DefsOK, SymbolsOK, RelocatedOnce, GivenOK, NoSymbol, InTable
<1> QED BY <1>1, <1>3 DEF IInv

(* What is said of the sections and tables depends on nothing else.        *)
LEMMA SectionsStay ==
    ASSUME DefsOK, SymbolsOK, RelocatedOnce, GivenOK,
           UNCHANGED <<relocated, code, symtab, linked, commands, defs, placed, mixed>>
    PROVE  DefsOK' /\ SymbolsOK' /\ RelocatedOnce' /\ GivenOK'
<1>1. DefsOK'
  BY DEF DefsOK
<1>2. \A h, f, i : Counted(h, f, i)' <=> Counted(h, f, i)
  BY DEF Counted
<1>3. SymbolsOK' /\ RelocatedOnce'
  BY <1>2 DEF SymbolsOK, RelocatedOnce
<1>4. \A c : /\ GivenRight(c)' <=> GivenRight(c)
             /\ Later(c)' = Later(c)
  BY DEF GivenRight, Later
<1>5. \A c, i : IsLater(c, i)' <=> IsLater(c, i)
  BY <1>4 DEF IsLater
<1>6. \A c : GivenStays(c)' <=> GivenStays(c)
  BY <1>4, <1>5 DEF GivenStays
<1>7. GivenOK'
  BY <1>4, <1>6 DEF GivenOK
<1> QED BY <1>1, <1>3, <1>7

(* A new handle takes the statics; its table is empty and not relocated.   *)
LEMMA TccCreateCmdIInv ==
    ASSUME IInv, NEW t \in Types, NEW old \in 0 .. MaxHandles, TccCreateCmd(t, old)
    PROVE  IInv'
<1> USE HandleAssumption
<1>1. TypeOK'
  <2>1. /\ last' \in 0 .. MaxHandles /\ alive' \subseteq 1 .. last'
        /\ relocated \subseteq 1 .. last' /\ linked \subseteq 1 .. last'
        /\ type' \in [Handles -> Types]
    BY DEF IInv, TypeOK, TccCreateCmd, Handles
  <2> QED BY <2>1 DEF IInv, TypeOK, TccCreateCmd
<1>2. UNCHANGED <<relocated, code, symtab, linked, commands, defs, placed, mixed>>
  BY DEF TccCreateCmd
<1>3. DefsOK' /\ SymbolsOK' /\ RelocatedOnce' /\ GivenOK'
  BY <1>2, SectionsStay DEF IInv
<1> QED BY <1>1, <1>3 DEF IInv

(* Deleting the command of a handle leaves all sections as they are.       *)
LEMMA TccCCommandDeleteProcIInv ==
    ASSUME IInv, NEW h \in Handles, TccCCommandDeleteProc(h) PROVE IInv'
<1>1. TypeOK'
  BY DEF IInv, TypeOK, TccCCommandDeleteProc
<1>2. UNCHANGED <<relocated, code, symtab, linked, commands, defs, placed, mixed>>
  BY DEF TccCCommandDeleteProc
<1>3. DefsOK' /\ SymbolsOK' /\ RelocatedOnce' /\ GivenOK'
  BY <1>2, SectionsStay DEF IInv
<1> QED BY <1>1, <1>3 DEF IInv

-----------------------------------------------------------------------------
(* What a definition does to the section of the newest handle ...          *)
CodeGrows(f, s, whole) ==
    /\ code' \in [Handles -> Seq(Fn)]
    /\ \A j \in Handles :
          /\ Len(code[j]) <= Len(code'[j])
          /\ \A i \in 1 .. Len(code[j]) : code'[j][i] = code[j][i]
    /\ whole /\ s.shndx = "text" =>
          s.at >= 1 /\ s.at <= Len(code'[last]) /\ code'[last][s.at] = f

(* ... and to its table: f gets the symbol if it is not defined, or was    *)
(* used before, and nothing else that is defined changes or becomes so.    *)
Takes(f, used) == used \/ ~IsDefined(f)

TableGrows(f, s, used) ==
    /\ symtab' \in [Handles -> [Fn -> Symbol]]
    /\ \A j \in Handles \ {last} : symtab'[j] = symtab[j]
    /\ Takes(f, used) => symtab'[last][f] = s
    /\ \A k \in Fn : k # f \/ ~Takes(f, used) =>
          IF IsDefined(k) THEN symtab'[last][k] = symtab[last][k]
          ELSE ~InTable(symtab'[last][k])

(* The symbol of a definition.                                             *)
IsSymbolOf(s, used) ==
    /\ s \in Symbol /\ InTable(s) /\ s.base = "none"
    /\ s.shndx = "text" => s = TextAt(s.at)
    /\ used => s.shndx = "text"

(* What is recorded of a definition.                                       *)
Record(f, s, used, whole) ==
    [fn |-> f, shndx |-> s.shndx, at |-> s.at, used |-> used, whole |-> whole]

(* The history of the newest handle has one definition more.               *)
LEMMA RecordedFacts ==
    ASSUME TypeOK, last \in Handles, NEW f \in Fn, NEW s, NEW used \in BOOLEAN,
           NEW whole \in BOOLEAN, IsSymbolOf(s, used), Recorded(f, s, used, whole)
    PROVE  /\ defs' \in [Handles -> Seq(Definition)]
           /\ \A j \in Handles \ {last} : defs'[j] = defs[j]
           /\ Grown(defs[last], Record(f, s, used, whole), defs'[last])
<1> DEFINE d == Record(f, s, used, whole)
<1>1. d \in Definition
  BY DEF Record, Definition, IsSymbolOf, InTable, Symbol
<1>2. defs \in [Handles -> Seq(Definition)] /\ defs[last] \in Seq(Definition)
  BY DEF TypeOK
<1>3. defs' = [defs EXCEPT ![last] = Append(defs[last], d)]
  BY DEF Recorded, Record
<1> HIDE DEF d
<1>4. /\ Append(defs[last], d) \in Seq(Definition)
      /\ Len(Append(defs[last], d)) = Len(defs[last]) + 1
      /\ Append(defs[last], d)[Len(defs[last]) + 1] = d
      /\ \A i \in 1 .. Len(defs[last]) : Append(defs[last], d)[i] = defs[last][i]
  BY <1>1, <1>2
<1>5. defs'[last] = Append(defs[last], d)
  BY <1>2, <1>3
<1>6. defs' \in [Handles -> Seq(Definition)] /\ \A j \in Handles \ {last} : defs'[j] = defs[j]
  BY <1>2, <1>3, <1>4
<1>7. Grown(defs[last], d, defs'[last])
  BY <1>4, <1>5 DEF Grown
<1> QED BY <1>6, <1>7 DEF d

(* A definition of a source or of add_symbol, the handle relocated or not: *)
(* the table gets it exactly if it is the one that counts from now on, and *)
(* then it is above what was placed.                                       *)
LEMMA DefineIInv ==
    ASSUME IInv, last \in Handles, mixed' \in BOOLEAN, ~mixed' => ~mixed,
           NEW f \in Fn, NEW s, NEW used \in BOOLEAN, NEW whole \in BOOLEAN,
           IsSymbolOf(s, used), Recorded(f, s, used, whole),
           CodeGrows(f, s, whole), TableGrows(f, s, used),
           UNCHANGED <<last, alive, type, relocated, linked, commands, placed>>
    PROVE  IInv'
<1> DEFINE ds == defs[last]
           es == defs'[last]
           d == Record(f, s, used, whole)
<1>0. /\ TypeOK /\ DefsOK /\ SymbolsOK /\ RelocatedOnce /\ GivenOK
      /\ Len(ds) \in Nat
  BY Typed DEF IInv
<1> PICK n \in Nat : n = Len(ds) + 1
  BY <1>0
<1>1. /\ TypeOK /\ DefsOK /\ SymbolsOK /\ RelocatedOnce /\ GivenOK
      /\ Len(ds) \in Nat /\ n = Len(ds) + 1
  BY <1>0
<1>2. /\ defs' \in [Handles -> Seq(Definition)]
      /\ \A j \in Handles \ {last} : defs'[j] = defs[j]
      /\ Grown(ds, d, es)
  BY <1>1, RecordedFacts
<1>3. Len(es) = n /\ es[n] = d /\ \A i \in 1 .. Len(ds) : es[i] = ds[i]
  BY <1>2 DEF Grown
<1>4. d.fn = f /\ d.shndx = s.shndx /\ d.at = s.at /\ d.used = used /\ d.whole = whole
  BY DEF Record
<1> HIDE DEF ds, es, d
<1>5. TypeOK'
  BY <1>1, <1>2 DEF TypeOK, CodeGrows, TableGrows
<1>6. 1 .. n = 1 .. Len(ds) \union {n}
  BY <1>1
<1>7. DefsOK'
  <2> SUFFICES ASSUME NEW j \in Handles
               PROVE  /\ placed[j] <= Len(defs'[j])
                      /\ \A i \in 1 .. Len(defs'[j]) :
                            /\ defs'[j][i].used => defs'[j][i].shndx = "text"
                            /\ defs'[j][i].whole /\ defs'[j][i].shndx = "text" =>
                                  /\ defs'[j][i].at <= Len(code'[j])
                                  /\ code'[j][defs'[j][i].at] = defs'[j][i].fn
                                  /\ defs'[j][i].at >= 1
    BY DEF DefsOK
  <2>1. /\ Len(code[j]) \in Nat /\ Len(code'[j]) \in Nat /\ Len(code[j]) <= Len(code'[j])
        /\ placed[j] \in Nat /\ Len(defs[j]) \in Nat
        /\ \A i \in 1 .. Len(code[j]) : code'[j][i] = code[j][i]
        /\ \A i \in 1 .. Len(defs[j]) : defs[j][i].at \in Nat
    BY <1>1, Typed DEF CodeGrows, Definition
  <2>0. placed[j] <= Len(defs[j])
    BY <1>1 DEF DefsOK
  <2>2. \A i \in 1 .. Len(defs[j]) :
              /\ defs[j][i].used => defs[j][i].shndx = "text"
              /\ defs[j][i].whole /\ defs[j][i].shndx = "text" =>
                    /\ defs[j][i].at <= Len(code'[j])
                    /\ code'[j][defs[j][i].at] = defs[j][i].fn
                    /\ defs[j][i].at >= 1
    <3>1. \A i \in 1 .. Len(defs[j]) :
                /\ defs[j][i].used => defs[j][i].shndx = "text"
                /\ defs[j][i].whole /\ defs[j][i].shndx = "text" =>
                      /\ defs[j][i].at <= Len(code[j])
                      /\ code[j][defs[j][i].at] = defs[j][i].fn
                      /\ defs[j][i].at >= 1
      BY <1>1 DEF DefsOK
    <3> TAKE i \in 1 .. Len(defs[j])
    <3>2. ASSUME defs[j][i].whole, defs[j][i].shndx = "text"
          PROVE  /\ defs[j][i].at <= Len(code'[j])
                 /\ code'[j][defs[j][i].at] = defs[j][i].fn
                 /\ defs[j][i].at >= 1
      <4>1. /\ defs[j][i].at <= Len(code[j]) /\ defs[j][i].at >= 1 /\ defs[j][i].at \in Nat
            /\ code[j][defs[j][i].at] = defs[j][i].fn
        BY <3>1, <3>2, <2>1
      <4> QED BY <4>1, <2>1
    <3> QED BY <3>1, <3>2
  <2>3. CASE j # last
    BY <2>0, <2>2, <2>3, <1>2
  <2>4. CASE j = last
    <3>1. Len(defs'[j]) = n /\ Len(defs[j]) = Len(ds) /\ placed[j] <= n
      BY <2>0, <2>1, <2>4, <1>1, <1>3 DEF ds, es
    <3>2. \A i \in 1 .. Len(ds) : defs'[j][i] = defs[j][i]
      BY <2>4, <1>3 DEF ds, es
    <3>3. /\ defs'[j][n].used => defs'[j][n].shndx = "text"
          /\ defs'[j][n].whole /\ defs'[j][n].shndx = "text" =>
                /\ defs'[j][n].at <= Len(code'[j])
                /\ code'[j][defs'[j][n].at] = defs'[j][n].fn
                /\ defs'[j][n].at >= 1
      BY <2>4, <1>3, <1>4 DEF es, CodeGrows, IsSymbolOf
    <3> QED BY <3>1, <3>2, <3>3, <2>2, <1>6
  <2> QED BY <2>3, <2>4
<1>8. \A k \in Fn : \A i : Counted(last, k, i) <=> Counts(ds, k, Len(ds), i)
  BY DEF Counted, ds
<1>9. \A k \in Fn : \A i : Counted(last, k, i)' <=> Counts(es, k, n, i)
  BY <1>3 DEF Counted, es
<1>10. \A j \in Handles \ {last}, k \in Fn : \A i : Counted(j, k, i)' <=> Counted(j, k, i)
  BY <1>2 DEF Counted
<1>11. \A k \in Fn :
          /\ InTable(symtab[last][k]) =>
                \E i \in 1 .. Len(ds) : Counts(ds, k, Len(ds), i) /\ IsGiven(symtab[last][k], ds[i])
          /\ Defs(ds, k, Len(ds)) # {} => InTable(symtab[last][k])
  BY <1>1 DEF SymbolsOK, Counted, ds
<1>12. \A k \in Fn : IsDefined(k) <=> InTable(symtab[last][k])
  BY DEF IsDefined, Sym, InTable
<1>13. Takes(f, used) => /\ symtab'[last][f] = s /\ IsGiven(s, es[n]) /\ Counts(es, f, n, n)
  <2> SUFFICES ASSUME Takes(f, used)
               PROVE  symtab'[last][f] = s /\ IsGiven(s, es[n]) /\ Counts(es, f, n, n)
    OBVIOUS
  <2>1. used \/ Defs(ds, f, Len(ds)) = {}
    BY <1>11, <1>12 DEF Takes
  <2>2. Counts(es, f, n, n)
    BY <2>1, <1>1, <1>2, <1>4, CountsGrown
  <2> QED BY <2>2, <1>3, <1>4 DEF TableGrows, IsGiven
<1>14. ASSUME NEW k \in Fn, k # f \/ ~Takes(f, used)
       PROVE  /\ IsDefined(k) => symtab'[last][k] = symtab[last][k]
              /\ ~IsDefined(k) => k # f /\ ~InTable(symtab'[last][k])
              /\ \A i : Counts(ds, k, Len(ds), i) => Counts(es, k, n, i)
  BY <1>1, <1>2, <1>4, <1>14, CountsGrown DEF TableGrows, Takes
<1>15. SymbolsOK'
  <2> SUFFICES ASSUME NEW j \in Handles, NEW k \in Fn
               PROVE  /\ InTable(symtab'[j][k]) =>
                            \E i \in 1 .. Len(defs'[j]) :
                                Counted(j, k, i)' /\ IsGiven(symtab'[j][k], defs'[j][i])
                      /\ Defs(defs'[j], k, Len(defs'[j])) # {} => InTable(symtab'[j][k])
    BY DEF SymbolsOK
  <2>1. CASE j # last
    BY <2>1, <1>1, <1>2, <1>10 DEF SymbolsOK, TableGrows
  <2>2. CASE j = last /\ k = f /\ Takes(f, used)
    BY <2>2, <1>1, <1>3, <1>6, <1>9, <1>13 DEF es, IsSymbolOf
  <2>3. CASE j = last /\ (k # f \/ ~Takes(f, used)) /\ IsDefined(k)
    <3>1. symtab'[j][k] = symtab[last][k] /\ InTable(symtab[last][k])
      BY <2>3, <1>12, <1>14
    <3>2. PICK i \in 1 .. Len(ds) : Counts(ds, k, Len(ds), i) /\ IsGiven(symtab[last][k], ds[i])
      BY <3>1, <1>11
    <3>3. i \in 1 .. n /\ Counts(es, k, n, i) /\ IsGiven(symtab[last][k], es[i])
      BY <3>2, <2>3, <1>3, <1>6, <1>14
    <3> QED BY <3>1, <3>3, <2>3, <1>3, <1>9 DEF es
  <2>4. CASE j = last /\ (k # f \/ ~Takes(f, used)) /\ ~IsDefined(k)
    <3>1. ~InTable(symtab'[j][k]) /\ k # f
      BY <2>4, <1>14
    <3>2. Defs(ds, k, Len(ds)) = {}
      BY <2>4, <1>11, <1>12
    <3>3. Defs(es, k, n) = {}
      <4>1. d.fn # k
        BY <3>1, <1>4
      <4>2. Defs(es, k, n) = Defs(ds, k, Len(ds))
        BY <4>1, <1>1, <1>2, CountsGrown
      <4> QED BY <4>2, <3>2
    <3> QED BY <3>1, <3>3, <2>4, <1>3 DEF es
  <2> QED BY <2>1, <2>2, <2>3, <2>4
<1>16. RelocatedOnce'
  <2> SUFFICES ASSUME ~mixed', NEW j \in Handles, NEW k \in Fn, symtab'[j][k].shndx = "text",
                      NEW i \in 1 .. Len(defs'[j]), Counted(j, k, i)'
               PROVE  IF j \in relocated
                      THEN symtab'[j][k].base = IF i <= placed[j] THEN "own" ELSE "none"
                      ELSE j \in linked \/ symtab'[j][k].base = "none"
    BY DEF RelocatedOnce
  <2>1. CASE j # last
    <3>1. symtab'[j][k] = symtab[j][k] /\ i \in 1 .. Len(defs[j]) /\ Counted(j, k, i)
      BY <2>1, <1>2, <1>10 DEF TableGrows
    <3> QED BY <3>1, <1>1 DEF RelocatedOnce
  <2>2. CASE j = last /\ k = f /\ Takes(f, used)
    <3>1. i = n
      BY <2>2, <1>1, <1>9, <1>13, CountsOnce
    <3>2. placed[j] <= Len(ds) /\ placed[j] \in Nat
      BY <2>2, <1>1, Typed DEF DefsOK, ds
    <3>3. ~(i <= placed[j])
      BY <3>1, <3>2, <1>1
    <3> QED BY <3>3, <2>2, <1>13 DEF IsSymbolOf
  <2>3. CASE j = last /\ (k # f \/ ~Takes(f, used))
    <3>1. IsDefined(k)
      BY <2>3, <1>14 DEF InTable
    <3>2. symtab'[j][k] = symtab[last][k] /\ symtab[last][k].shndx = "text"
      BY <3>1, <2>3, <1>14
    <3>3. PICK m \in 1 .. Len(ds) : Counts(ds, k, Len(ds), m)
      BY <3>2, <1>11 DEF InTable
    <3>4. m \in Int /\ Counts(es, k, n, m) /\ i \in Int /\ Counts(es, k, n, i)
      BY <3>3, <2>3, <1>9, <1>14
    <3>5. i = m
      BY <3>4, <1>1, CountsOnce
    <3>6. i \in 1 .. Len(defs[last]) /\ Counted(last, k, i)
      BY <3>3, <3>5, <1>8 DEF ds
    <3> QED BY <3>2, <3>6, <2>3, <1>1 DEF RelocatedOnce
  <2> QED BY <2>1, <2>2, <2>3
<1>17. GivenOK'
  <2> SUFFICES ASSUME NEW c \in commands, InTable(c.sym)
               PROVE  GivenRight(c)' /\ (~mixed' => GivenStays(c)')
    BY DEF GivenOK
  <2>1. c.table \in Handles /\ c.fn \in Fn /\ c.seen \in Nat
    BY <1>1 DEF TypeOK, Command
  <2>2. GivenRight(c) /\ (~mixed => GivenStays(c))
    BY <1>1 DEF GivenOK
  <2>3. CASE c.table # last
    <3>1. defs'[c.table] = defs[c.table] /\ symtab'[c.table] = symtab[c.table]
      BY <2>1, <2>3, <1>2 DEF TableGrows
    <3>2. GivenRight(c)'
      BY <3>1, <2>2 DEF GivenRight
    <3>3. Later(c)' = Later(c) /\ \A i : IsLater(c, i) => IsLater(c, i)'
      BY <3>1 DEF Later, IsLater
    <3>4. GivenStays(c) => GivenStays(c)'
      BY <3>1, <3>3 DEF GivenStays
    <3> QED BY <3>2, <3>4, <2>2
  <2>4. CASE c.table = last
    <3>1. c.seen <= Len(ds)
      BY <2>2, <2>4 DEF GivenRight, ds
    <3>2. \A i : Counts(ds, c.fn, c.seen, i) => Counts(es, c.fn, c.seen, i)
      BY <3>1, <2>1, <1>1, <1>2, CountsStays
    <3>3. PICK i \in 1 .. c.seen :
             /\ Counts(ds, c.fn, c.seen, i)
             /\ IsGiven(c.sym, ds[i])
             /\ ~mixed /\ c.sym.shndx = "text" =>
                   c.sym.base = IF i <= placed[c.table] THEN "own" ELSE "none"
      BY <2>2, <2>4 DEF GivenRight, ds
    <3>4. es[i] = ds[i]
      BY <3>1, <3>3, <2>1, <1>1, <1>3
    <3>5. c.seen <= Len(es)
      BY <3>1, <2>1, <1>1, <1>3
    <3>6. GivenRight(c)'
      BY <3>2, <3>3, <3>4, <3>5, <2>2, <2>4 DEF GivenRight, es
    <3>7. Later(c)' = Later(c) \union (IF c.fn = f /\ used THEN {n} ELSE {})
      <4>1. \A m \in 1 .. Len(ds) : es[m] = ds[m]
        BY <1>3
      <4>2. n > c.seen
        BY <3>1, <2>1, <1>1
      <4>3. Later(c)' = {m \in 1 .. n : m > c.seen /\ es[m].fn = c.fn /\ es[m].used}
        BY <2>4, <1>3 DEF Later, es
      <4>4. Later(c) = {m \in 1 .. Len(ds) : m > c.seen /\ ds[m].fn = c.fn /\ ds[m].used}
        BY <2>4 DEF Later, ds
      <4> QED BY <4>1, <4>2, <4>3, <4>4, <1>3, <1>4, <1>6
    <3>8. Later(c) \subseteq 1 .. Len(ds)
      BY <2>4 DEF Later, ds
    <3>9. ~mixed => GivenStays(c)'
      <4> SUFFICES ASSUME ~mixed PROVE GivenStays(c)'
        OBVIOUS
      <4>1. CASE c.fn = f /\ used
        <5>1. n \in Later(c)' /\ \A m \in Later(c)' : m <= n
          BY <4>1, <3>7, <3>8, <1>1
        <5>2. symtab'[last][f] = TextAt(es[n].at)
          BY <4>1, <1>3, <1>4, <1>13 DEF Takes, IsSymbolOf
        <5>3. IsLater(c, n)'
          BY <5>1, <5>2, <4>1, <2>4 DEF IsLater, es
        <5> QED BY <5>1, <5>3 DEF GivenStays
      <4>2. CASE ~(c.fn = f /\ used)
        <5>1. Later(c)' = Later(c)
          BY <4>2, <3>7
        <5>2. InTable(symtab[last][c.fn])
          <6>1. CASE Later(c) = {}
            BY <6>1, <2>2, <2>4 DEF GivenStays
          <6>2. CASE Later(c) # {}
            <7>1. PICK m \in Later(c) : IsLater(c, m)
              BY <6>2, <2>2 DEF GivenStays
            <7>2. symtab[last][c.fn] = TextAt(ds[m].at)
              BY <7>1, <2>4 DEF IsLater, ds
            <7> QED BY <7>2 DEF TextAt, InTable
          <6> QED BY <6>1, <6>2
        <5>3. symtab'[last][c.fn] = symtab[last][c.fn]
          BY <5>2, <4>2, <2>1, <1>12, <1>14 DEF Takes
        <5>4. \A m \in Later(c) : IsLater(c, m) => IsLater(c, m)'
          BY <5>1, <5>3, <3>8, <2>4, <1>3 DEF IsLater, ds, es
        <5> QED BY <5>1, <5>3, <5>4, <2>2, <2>4 DEF GivenStays
      <4> QED BY <4>1, <4>2
    <3> QED BY <3>6, <3>9
  <2> QED BY <2>3, <2>4
<1> QED BY <1>5, <1>7, <1>15, <1>16, <1>17 DEF IInv

(* compile and add_file: the block is at the end of the section, and the   *)
(* symbol where it is, or would have been had its body not failed.         *)
LEMMA CompileIInv ==
    ASSUME IInv, NEW h \in Handles, NEW f \in Fn, NEW g \in Fn,
           NEW used \in BOOLEAN, NEW whole \in BOOLEAN,
           Names(h), tcc_compile(f, g, used, whole),
           UNCHANGED <<last, alive, type, relocated, linked, commands, placed>>
    PROVE  IInv'
<1> DEFINE L == Len(code[last])
           s == TextAt(L + 1)
           D == put_extern_sym2(symtab[last], f, used, s)
           R == Refer(D, g)
<1>1. TypeOK /\ last \in Handles /\ mixed' \in BOOLEAN /\ (~mixed' => ~mixed)
  BY NamesFacts DEF IInv
<1>2. /\ code \in [Handles -> Seq(Fn)] /\ symtab \in [Handles -> [Fn -> Symbol]]
      /\ code[last] \in Seq(Fn) /\ L \in Nat
  BY <1>1 DEF TypeOK
<1>3. /\ s \in Symbol /\ s.shndx = "text" /\ s.base = "none" /\ s.at = L + 1 /\ InTable(s)
      /\ s = TextAt(s.at)
  <2>1. L + 1 \in Nat
    BY <1>2
  <2>2. s \in Symbol
    BY <2>1, SymbolFacts
  <2> QED BY <2>2 DEF TextAt, InTable
<1>4. /\ Recorded(f, s, used, whole)
      /\ code' = [code EXCEPT ![last] = IF whole THEN Append(code[last], f) ELSE code[last]]
      /\ symtab' = [symtab EXCEPT ![last] = R]
  BY DEF tcc_compile
<1> HIDE DEF s
<1>5. IsSymbolOf(s, used)
  BY <1>3 DEF IsSymbolOf
<1>6. CodeGrows(f, s, whole)
  <2> DEFINE c == IF whole THEN Append(code[last], f) ELSE code[last]
  <2>1. /\ c \in Seq(Fn) /\ Len(c) \in Nat /\ L <= Len(c)
        /\ \A i \in 1 .. L : c[i] = code[last][i]
        /\ whole => Len(c) = L + 1 /\ c[L + 1] = f
    BY <1>2
  <2>2. code' = [code EXCEPT ![last] = c]
    BY <1>4
  <2> HIDE DEF c
  <2>3. /\ code' \in [Handles -> Seq(Fn)] /\ code'[last] = c
        /\ \A j \in Handles \ {last} : code'[j] = code[j]
    BY <2>1, <2>2, <1>1, <1>2
  <2>4. \A j \in Handles : Len(code[j]) \in Nat
    BY <1>2
  <2>5. ASSUME NEW j \in Handles
        PROVE  /\ Len(code[j]) <= Len(code'[j])
               /\ \A i \in 1 .. Len(code[j]) : code'[j][i] = code[j][i]
    BY <2>1, <2>3, <2>4
  <2>6. whole => s.at >= 1 /\ s.at <= Len(code'[last]) /\ code'[last][s.at] = f
    BY <2>1, <2>3, <1>2, <1>3
  <2> QED BY <2>3, <2>5, <2>6 DEF CodeGrows
<1>7. /\ D \in [Fn -> Symbol]
      /\ \A k \in Fn : D[k] = IF k = f /\ Takes(f, used) THEN s ELSE symtab[last][k]
  <2>1. CASE used
    BY <2>1, <1>1, <1>2, <1>3 DEF put_extern_sym2, Takes
  <2>2. CASE ~used
    BY <2>2, <1>1, <1>2, <1>3 DEF put_extern_sym2, Define, Takes
  <2> QED BY <2>1, <2>2
<1> HIDE DEF D
<1>8. /\ R \in [Fn -> Symbol]
      /\ \A k \in Fn : R[k] = IF k = g /\ D[k].shndx = "none"
                              THEN [NoSymbol EXCEPT !.shndx = "undef"] ELSE D[k]
  BY <1>7, SymbolFacts DEF Refer
<1> HIDE DEF R
<1>9. /\ symtab' \in [Handles -> [Fn -> Symbol]] /\ symtab'[last] = R
      /\ \A j \in Handles \ {last} : symtab'[j] = symtab[j]
  BY <1>1, <1>2, <1>4, <1>8
<1>10. [NoSymbol EXCEPT !.shndx = "undef"].shndx = "undef"
  BY DEF NoSymbol
<1>11. TableGrows(f, s, used)
  <2>1. Takes(f, used) => R[f] = s
    BY <1>3, <1>7, <1>8
  <2>2. ASSUME NEW k \in Fn, k # f \/ ~Takes(f, used)
        PROVE  IF IsDefined(k) THEN R[k] = symtab[last][k] ELSE ~InTable(R[k])
    BY <2>2, <1>7, <1>8, <1>10 DEF IsDefined, Sym, InTable
  <2> QED BY <2>1, <2>2, <1>9 DEF TableGrows
<1> QED BY <1>1, <1>4, <1>5, <1>6, <1>11, DefineIInv

(* add_symbol defines what is not defined, with no block.                  *)
LEMMA add_symbolIInv ==
    ASSUME IInv, NEW h \in Handles, NEW f \in Fn, add_symbol(h, f) PROVE IInv'
<1> DEFINE D == Define(symtab[last], f, Absolute)
<1>1. TypeOK /\ last \in Handles /\ mixed' \in BOOLEAN /\ (~mixed' => ~mixed)
  BY NamesFacts DEF IInv, add_symbol
<1>2. symtab \in [Handles -> [Fn -> Symbol]] /\ \A j \in Handles : Len(code[j]) \in Nat
  BY <1>1 DEF TypeOK
<1>3. IsSymbolOf(Absolute, FALSE) /\ Absolute.shndx = "abs" /\ Absolute \in Symbol
  BY SymbolFacts DEF IsSymbolOf, Absolute, InTable
<1>4. /\ Recorded(f, Absolute, FALSE, TRUE) /\ symtab' = [symtab EXCEPT ![last] = D]
      /\ UNCHANGED <<last, alive, type, relocated, code, linked, commands, placed>>
  BY DEF add_symbol
<1>5. /\ D \in [Fn -> Symbol]
      /\ \A k \in Fn : D[k] = IF k = f /\ Takes(f, FALSE) THEN Absolute ELSE symtab[last][k]
  BY <1>1, <1>2, <1>3 DEF Define, Takes
<1> HIDE DEF D
<1>6. /\ symtab' \in [Handles -> [Fn -> Symbol]] /\ symtab'[last] = D
      /\ \A j \in Handles \ {last} : symtab'[j] = symtab[j]
  BY <1>1, <1>2, <1>4, <1>5
<1>7. TableGrows(f, Absolute, FALSE)
  BY <1>5, <1>6 DEF TableGrows, IsDefined, Sym, InTable
<1>8. CodeGrows(f, Absolute, TRUE)
  BY <1>1, <1>2, <1>3, <1>4 DEF CodeGrows, TypeOK
<1> QED BY <1>1, <1>3, <1>4, <1>7, <1>8, DefineIInv

-----------------------------------------------------------------------------
(* relocate_syms: every symbol stays where it is, and those of the text    *)
(* section get a base.                                                     *)
LEMMA RelocateFacts ==
    ASSUME TypeOK, last \in Handles, NEW h \in Handles, relocate_syms(h)
    PROVE  /\ linked' \subseteq 1 .. last
           /\ symtab' \in [Handles -> [Fn -> Symbol]]
           /\ \A k \in Handles \ {last} : symtab'[k] = symtab[k]
           /\ \A k \in Fn : /\ symtab'[last][k] = Based(h, Sym(k))
                            /\ Based(h, Sym(k)) \in Symbol
                            /\ Based(h, Sym(k)).shndx = Sym(k).shndx
                            /\ Based(h, Sym(k)).at = Sym(k).at
                            /\ Sym(k).shndx = "text" => Based(h, Sym(k)).base =
                                 IF Sym(k).base = "none" /\ h = last THEN "own" ELSE "wrong"
<1>1. symtab \in [Handles -> [Fn -> Symbol]] /\ \A k \in Fn : Sym(k) \in Symbol
  BY DEF TypeOK, Sym
<1>2. \A k \in Fn : /\ Based(h, Sym(k)) \in Symbol
                    /\ Based(h, Sym(k)).shndx = Sym(k).shndx
                    /\ Based(h, Sym(k)).at = Sym(k).at
                    /\ Sym(k).shndx = "text" => Based(h, Sym(k)).base =
                         IF Sym(k).base = "none" /\ h = last THEN "own" ELSE "wrong"
  BY <1>1 DEF Based, Symbol
<1>3. linked' \subseteq 1 .. last
  BY HandleAssumption DEF TypeOK, relocate_syms, Handles
<1>4. symtab' = [symtab EXCEPT ![last] = [k \in Fn |-> Based(h, Sym(k))]]
  BY DEF relocate_syms
<1>5. [k \in Fn |-> Based(h, Sym(k))] \in [Fn -> Symbol]
  BY <1>2
<1>6. symtab' \in [Handles -> [Fn -> Symbol]]
  BY <1>1, <1>4, <1>5
<1> QED BY <1>1, <1>2, <1>3, <1>4, <1>6

(* A relocation, successful or not, leaves the definitions as they are and *)
(* every symbol that of its definition.                                    *)
LEMMA TablesStay ==
    ASSUME IInv, UNCHANGED <<code, defs>>,
           \A j \in Handles, k \in Fn : /\ symtab'[j][k].shndx = symtab[j][k].shndx
                                        /\ symtab'[j][k].at = symtab[j][k].at
    PROVE  /\ SymbolsOK'
           /\ \A j, k, i : Counted(j, k, i)' <=> Counted(j, k, i)
           /\ placed' = placed => DefsOK'
<1>1. \A j, k, i : Counted(j, k, i)' <=> Counted(j, k, i)
  BY DEF Counted
<1>2. \A j \in Handles, k \in Fn :
         /\ InTable(symtab'[j][k]) <=> InTable(symtab[j][k])
         /\ \A d : IsGiven(symtab'[j][k], d) <=> IsGiven(symtab[j][k], d)
  BY DEF InTable, IsGiven
<1>3. SymbolsOK'
  BY <1>1, <1>2 DEF IInv, SymbolsOK
<1>4. placed' = placed => DefsOK'
  BY DEF IInv, DefsOK
<1> QED BY <1>1, <1>3, <1>4

(* The same of relocate_syms.                                              *)
LEMMA RelocateStays ==
    ASSUME IInv, last \in Handles, NEW h \in Handles, relocate_syms(h)
    PROVE  \A j \in Handles, k \in Fn : /\ symtab'[j][k].shndx = symtab[j][k].shndx
                                        /\ symtab'[j][k].at = symtab[j][k].at
<1> TAKE j \in Handles, k \in Fn
<1>1. CASE j = last
  BY <1>1, RelocateFacts DEF Sym, IInv
<1>2. CASE j # last
  BY <1>2, RelocateFacts DEF IInv
<1> QED BY <1>1, <1>2

(* A relocation that fails, or that writes a file, leaves the linker's     *)
(* symbols, and no handle relocated; no Tcl command had an address from    *)
(* that table as long as only the newest handle is named.                  *)
LEMMA AttemptIInv ==
    ASSUME IInv, NEW h \in Handles, Names(h), h \notin relocated,
           \/ relocate_syms(h)
           \/ linked' = linked \union {last} /\ UNCHANGED symtab
           \/ UNCHANGED <<linked, symtab>>,
           UNCHANGED <<last, alive, type, relocated, code, commands, defs, placed>>
    PROVE  IInv'
<1>1. TypeOK /\ last \in Handles /\ mixed' \in BOOLEAN /\ (~mixed' => ~mixed /\ h = last)
  BY NamesFacts DEF IInv
<1>2. /\ linked' \subseteq 1 .. last
      /\ symtab' \in [Handles -> [Fn -> Symbol]]
      /\ \A j \in Handles \ {last} : symtab'[j] = symtab[j]
      /\ linked \subseteq linked'
      /\ symtab' = symtab \/ last \in linked'
  <2>1. CASE relocate_syms(h)
    BY <2>1, <1>1, RelocateFacts DEF relocate_syms
  <2>2. CASE linked' \subseteq linked \union {last} /\ linked \subseteq linked'
             /\ UNCHANGED symtab
    BY <2>2, <1>1, HandleAssumption DEF TypeOK, Handles
  <2> QED BY <2>1, <2>2
<1>3. TypeOK'
  BY <1>1, <1>2 DEF TypeOK
<1>4. \A j \in Handles, k \in Fn : /\ symtab'[j][k].shndx = symtab[j][k].shndx
                                   /\ symtab'[j][k].at = symtab[j][k].at
  BY <1>1, RelocateStays
<1>5. DefsOK' /\ SymbolsOK' /\ \A j, k, i : Counted(j, k, i)' <=> Counted(j, k, i)
  BY <1>4, TablesStay
<1>6. RelocatedOnce'
  <2> SUFFICES ASSUME ~mixed', NEW j \in Handles, NEW k \in Fn, symtab'[j][k].shndx = "text",
                      NEW i \in 1 .. Len(defs[j]), Counted(j, k, i)
               PROVE  IF j \in relocated
                      THEN symtab'[j][k].base = IF i <= placed[j] THEN "own" ELSE "none"
                      ELSE j \in linked' \/ symtab'[j][k].base = "none"
    BY <1>5 DEF RelocatedOnce
  <2>1. CASE symtab'[j] = symtab[j]
    <3>1. IF j \in relocated
          THEN symtab[j][k].base = IF i <= placed[j] THEN "own" ELSE "none"
          ELSE j \in linked \/ symtab[j][k].base = "none"
      BY <2>1, <1>1 DEF IInv, RelocatedOnce
    <3> QED BY <3>1, <2>1, <1>2
  <2>2. CASE symtab'[j] # symtab[j]
    BY <2>2, <1>1, <1>2
  <2> QED BY <2>1, <2>2
<1>7. GivenOK'
  <2> SUFFICES ASSUME NEW c \in commands, InTable(c.sym)
               PROVE  GivenRight(c)' /\ (~mixed' => GivenStays(c)')
    BY DEF GivenOK
  <2>1. c.table \in Handles
    BY <1>1 DEF TypeOK, Command
  <2>2. GivenRight(c) /\ (~mixed => GivenStays(c))
    BY DEF IInv, GivenOK
  <2>3. GivenRight(c)'
    BY <2>2, <1>1 DEF GivenRight
  <2>4. ASSUME ~mixed' PROVE GivenStays(c)'
    <3>1. ~mixed /\ h = last
      BY <2>4, <1>1
    <3>2. symtab'[c.table] = symtab[c.table]
      BY <3>1, <2>1, <2>2, <1>2 DEF GivenRight
    <3>3. Later(c)' = Later(c) /\ \A i : IsLater(c, i) => IsLater(c, i)'
      BY <3>2 DEF Later, IsLater
    <3> QED BY <3>1, <3>2, <3>3, <2>2 DEF GivenStays
  <2> QED BY <2>3, <2>4
<1> QED BY <1>3, <1>5, <1>6, <1>7 DEF IInv

(* What Tcl is given of the newest table, whose symbols say what they are. *)
NewCommand(h, f, s) ==
    [handle |-> h, fn |-> f, table |-> last, sym |-> s, seen |-> Len(defs[last])]

(* The address a relocated handle gives is the one its table has.          *)
LEMMA GiveIInv ==
    ASSUME IInv, NEW h \in Handles, NEW f \in Fn, h \in relocated, command(h, f)
    PROVE  IInv'
<1>1. TypeOK /\ last \in Handles /\ mixed' \in BOOLEAN /\ (~mixed' => ~mixed /\ h = last)
  BY NamesFacts DEF IInv, command
<1> PICK new : new = NewCommand(h, f, Sym(f))
  OBVIOUS
<1>2. /\ UNCHANGED <<last, alive, type, code, linked, symtab, relocated, defs, placed>>
      /\ commands' \subseteq commands \union {new}
  BY DEF command, Give, NewCommand
<1>3. /\ new \in Command /\ new.handle = h /\ new.fn = f /\ new.table = last
      /\ new.sym = Sym(f) /\ new.seen = Len(defs[last]) /\ new.seen \in Nat
  BY <1>1, Typed DEF Command, Sym, NewCommand
<1>4. TypeOK'
  BY <1>1, <1>2, <1>3 DEF TypeOK
<1>5. DefsOK' /\ SymbolsOK' /\ \A j, k, i : Counted(j, k, i)' <=> Counted(j, k, i)
  BY <1>2, TablesStay
<1>6. RelocatedOnce'
  BY <1>1, <1>2, <1>5 DEF IInv, RelocatedOnce
<1>7. ASSUME NEW c \in commands, InTable(c.sym)
      PROVE  GivenRight(c)' /\ (~mixed' => GivenStays(c)')
  <2>1. GivenRight(c) /\ (~mixed => GivenStays(c))
    BY <1>7 DEF IInv, GivenOK
  <2>2. GivenRight(c)'
    BY <2>1, <1>1, <1>2 DEF GivenRight
  <2>3. Later(c)' = Later(c) /\ \A i : IsLater(c, i) => IsLater(c, i)'
    BY <1>2 DEF Later, IsLater
  <2>4. ~mixed' => GivenStays(c)'
    BY <2>1, <2>3, <1>1, <1>2 DEF GivenStays
  <2> QED BY <2>2, <2>4
<1>8. ASSUME InTable(new.sym) PROVE GivenRight(new)' /\ GivenStays(new)'
  <2>1. PICK i \in 1 .. Len(defs[last]) : Counted(last, f, i) /\ IsGiven(Sym(f), defs[last][i])
    BY <1>1, <1>3, <1>8 DEF IInv, SymbolsOK, Sym
  <2>2. ~mixed' => h = last /\ (Sym(f).shndx = "text" =>
                       Sym(f).base = IF i <= placed[last] THEN "own" ELSE "none")
    BY <2>1, <1>1 DEF IInv, RelocatedOnce, Sym
  <2>3. GivenRight(new)'
    BY <2>1, <2>2, <1>2, <1>3 DEF GivenRight, Counted
  <2>4. Later(new)' = {}
    BY <1>2, <1>3, <1>1, Typed DEF Later
  <2> QED BY <2>3, <2>4, <1>2, <1>3 DEF GivenStays, Sym
<1>9. GivenOK'
  BY <1>2, <1>7, <1>8 DEF GivenOK
<1> QED BY <1>4, <1>5, <1>6, <1>9 DEF IInv

(* The relocation that succeeds is the first attempt of its table, so it   *)
(* adds the section's address to symbols that have none yet.               *)
LEMMA RelocateGiveIInv ==
    ASSUME IInv, NEW h \in Handles, NEW f \in Fn, h \notin relocated, command(h, f)
    PROVE  IInv'
<1>1. TypeOK /\ last \in Handles /\ mixed' \in BOOLEAN /\ (~mixed' => ~mixed /\ h = last)
  BY NamesFacts DEF IInv, command
<1>2. /\ relocate_syms(h) /\ last \notin linked /\ Names(h)
      /\ relocated' = relocated \union {h}
      /\ placed' = [placed EXCEPT ![h] = Len(defs[h])]
      /\ Give(h, f, Based(h, Sym(f)))
      /\ UNCHANGED <<last, alive, type, code, defs>>
  BY DEF command, Resolves
<1> PICK b : b = Based(h, Sym(f))
  OBVIOUS
<1> PICK new : new = NewCommand(h, f, b)
  OBVIOUS
<1>3. commands' \subseteq commands \union {new}
  BY <1>2 DEF Give, NewCommand
<1>4. h \in 1 .. last
  BY <1>1, <1>2 DEF TypeOK, Names
<1>5. b \in Symbol /\ b = symtab'[last][f]
  BY <1>1, <1>2, RelocateFacts
<1>6. /\ new \in Command /\ new.handle = h /\ new.fn = f /\ new.table = last
      /\ new.sym = b /\ new.seen = Len(defs[last]) /\ new.seen \in Nat
  BY <1>1, <1>5, Typed DEF Command, NewCommand
<1>7. /\ placed' \in [Handles -> Nat] /\ placed'[h] = Len(defs[h])
      /\ \A j \in Handles \ {h} : placed'[j] = placed[j]
  BY <1>1, <1>2, Typed DEF TypeOK
<1>8. TypeOK'
  <2>1. relocated' \subseteq 1 .. last /\ commands' \subseteq Command
    BY <1>1, <1>2, <1>3, <1>4, <1>6 DEF TypeOK
  <2> QED BY <2>1, <1>1, <1>2, <1>7, RelocateFacts DEF TypeOK
<1>9. \A j \in Handles, k \in Fn : /\ symtab'[j][k].shndx = symtab[j][k].shndx
                                   /\ symtab'[j][k].at = symtab[j][k].at
  BY <1>1, <1>2, RelocateStays
<1>10. SymbolsOK' /\ \A j, k, i : Counted(j, k, i)' <=> Counted(j, k, i)
  BY <1>2, <1>9, TablesStay
<1>11. DefsOK'
  <2>1. ASSUME NEW j \in Handles PROVE placed'[j] <= Len(defs[j])
    <3>1. placed[j] <= Len(defs[j]) /\ Len(defs[j]) \in Nat
      BY <1>1, Typed DEF IInv, DefsOK
    <3> QED BY <3>1, <1>7
  <2> QED BY <2>1, <1>2 DEF IInv, DefsOK
<1>12. RelocatedOnce'
  <2> SUFFICES ASSUME ~mixed', NEW j \in Handles, NEW k \in Fn, symtab'[j][k].shndx = "text",
                      NEW i \in 1 .. Len(defs[j]), Counted(j, k, i)
               PROVE  IF j \in relocated'
                      THEN symtab'[j][k].base = IF i <= placed'[j] THEN "own" ELSE "none"
                      ELSE j \in linked' \/ symtab'[j][k].base = "none"
    BY <1>2, <1>10 DEF RelocatedOnce
  <2>0. ~mixed /\ h = last
    BY <1>1
  <2>1. CASE j # last
    <3>1. placed'[j] = placed[j] /\ symtab'[j] = symtab[j]
      BY <2>0, <2>1, <1>1, <1>2, <1>7, RelocateFacts
    <3> QED BY <3>1, <2>0, <2>1, <1>2 DEF IInv, RelocatedOnce, relocate_syms
  <2>2. CASE j = last
    <3>1. symtab'[j][k] = Based(h, Sym(k)) /\ Sym(k).shndx = "text"
      BY <2>2, <1>1, <1>2, RelocateFacts
    <3>2. Sym(k).base = "none"
      BY <3>1, <2>0, <2>2, <1>2 DEF IInv, RelocatedOnce, Sym
    <3>3. symtab'[j][k].base = "own"
      BY <3>1, <3>2, <2>0, <1>1, <1>2, RelocateFacts
    <3>4. i <= placed'[j]
      BY <2>0, <2>2, <1>1, <1>7, Typed
    <3> QED BY <3>3, <3>4, <2>0, <2>2, <1>2
  <2> QED BY <2>1, <2>2
<1>13. ASSUME NEW c \in commands, InTable(c.sym)
       PROVE  GivenRight(c)' /\ (~mixed' => GivenStays(c)')
  <2>1. c.table \in Handles
    BY <1>1 DEF TypeOK, Command
  <2>2. GivenRight(c) /\ (~mixed => GivenStays(c))
    BY <1>13 DEF IInv, GivenOK
  <2>3. CASE mixed'
    BY <2>2, <2>3, <1>2 DEF GivenRight
  <2>4. CASE ~mixed'
    <3>1. ~mixed /\ h = last /\ c.table \in relocated /\ c.table # last
      BY <2>2, <2>4, <1>1 DEF GivenRight
    <3>2. symtab'[c.table] = symtab[c.table] /\ placed'[c.table] = placed[c.table]
      BY <3>1, <2>1, <1>1, <1>2, <1>7, RelocateFacts
    <3>3. GivenRight(c)'
      BY <3>1, <3>2, <2>2, <1>2 DEF GivenRight
    <3>4. Later(c)' = Later(c) /\ \A i : IsLater(c, i) => IsLater(c, i)'
      BY <3>2, <1>2 DEF Later, IsLater
    <3> QED BY <3>1, <3>2, <3>3, <3>4, <2>2 DEF GivenStays
  <2> QED BY <2>3, <2>4
<1>14. ASSUME InTable(new.sym) PROVE GivenRight(new)' /\ GivenStays(new)'
  <2>1. PICK i \in 1 .. Len(defs[last]) : Counted(last, f, i) /\ IsGiven(b, defs[last][i])
    BY <1>1, <1>2, <1>5, <1>6, <1>10, <1>14 DEF SymbolsOK
  <2>2. ~mixed' => h = last /\ last \in relocated' /\ (b.shndx = "text" =>
                       b.base = IF i <= placed'[last] THEN "own" ELSE "none")
    BY <2>1, <1>1, <1>2, <1>5, <1>10, <1>12 DEF RelocatedOnce
  <2>3. GivenRight(new)'
    BY <2>1, <2>2, <1>2, <1>6 DEF GivenRight, Counted
  <2>4. Later(new)' = {}
    BY <1>2, <1>6 DEF Later
  <2> QED BY <2>3, <2>4, <1>2, <1>5, <1>6 DEF GivenStays
<1>15. GivenOK'
  BY <1>3, <1>13, <1>14 DEF GivenOK
<1> QED BY <1>8, <1>10, <1>11, <1>12, <1>15 DEF IInv

-----------------------------------------------------------------------------
(* IInv is inductive.                                                      *)
LEMMA NextIInv == IInv /\ [Next]_vars => IInv'
<1> SUFFICES ASSUME IInv, [Next]_vars PROVE IInv'
  OBVIOUS
<1>1. CASE \E t \in Types, old \in 0 .. MaxHandles : TccCreateCmd(t, old)
  BY <1>1, TccCreateCmdIInv
<1>2. CASE \E h \in Handles : TccCCommandDeleteProc(h)
  BY <1>2, TccCCommandDeleteProcIInv
<1>3. CASE \E h \in Handles : tcc_relocate_fails(h)
  BY <1>3, AttemptIInv DEF tcc_relocate_fails
<1>4. CASE \E h \in Handles : output_file(h)
  <2>1. PICK h \in Handles : output_file(h)
    BY <1>4
  <2> QED BY <2>1, AttemptIInv DEF output_file
<1>5. CASE \E h \in Handles, f \in Fn : add_symbol(h, f)
  BY <1>5, add_symbolIInv
<1>6. CASE \E h \in Handles, f \in Fn : command(h, f)
  BY <1>6, GiveIInv, RelocateGiveIInv
<1>7. CASE \E h \in Handles, f, g \in Fn, used, whole \in BOOLEAN :
              compile(h, f, g, used, whole) \/ add_file(h, f, g, used, whole)
  BY <1>7, CompileIInv DEF compile, add_file
<1>8. CASE UNCHANGED vars
  <2>1. TypeOK' = TypeOK
    BY <1>8 DEF vars, TypeOK
  <2>2. DefsOK' /\ SymbolsOK' /\ RelocatedOnce' /\ GivenOK'
    BY <1>8, SectionsStay DEF vars, IInv
  <2> QED BY <2>1, <2>2 DEF IInv
<1> QED BY <1>1, <1>2, <1>3, <1>4, <1>5, <1>6, <1>7, <1>8 DEF Next

(* IInv holds in every reachable state.                                    *)
THEOREM Invariance == Spec => []IInv
<1>1. Init => IInv
  BY InitIInv
<1>2. IInv /\ [Next]_vars => IInv'
  BY NextIInv
<1> QED BY <1>1, <1>2, PTL DEF Spec

(* What a Tcl command calls is the definition of its function that counts, *)
(* of those the table of the newest handle had been given; as long as      *)
(* every command names the newest handle, it is the table of the command's *)
(* own and its address was added once.                                     *)
THEOREM CommandsCallTheirOwn == Spec => []CommandsOwn
<1>1. IInv => CommandsOwn
  <2> SUFFICES ASSUME IInv, NEW c \in commands, InTable(c.sym)
               PROVE  \E i \in 1 .. c.seen :
                         /\ Counts(defs[c.table], c.fn, c.seen, i)
                         /\ IsGiven(c.sym, defs[c.table][i])
                         /\ c.sym.shndx = "text" /\ defs[c.table][i].whole =>
                               /\ c.sym.at <= Len(code[c.table])
                               /\ code[c.table][c.sym.at] = c.fn
                         /\ ~mixed => c.table = c.handle
                         /\ ~mixed /\ c.sym.shndx = "text" =>
                               c.sym.base = IF i <= placed[c.table] THEN "own" ELSE "none"
    BY DEF CommandsOwn, InTable
  <2>1. c.table \in Handles /\ c.seen \in Nat /\ TypeOK
    BY DEF IInv, TypeOK, Command
  <2>2. GivenRight(c)
    BY DEF IInv, GivenOK
  <2>3. PICK i \in 1 .. c.seen :
           /\ Counts(defs[c.table], c.fn, c.seen, i)
           /\ IsGiven(c.sym, defs[c.table][i])
           /\ ~mixed /\ c.sym.shndx = "text" =>
                 c.sym.base = IF i <= placed[c.table] THEN "own" ELSE "none"
    BY <2>2 DEF GivenRight
  <2>4. i \in 1 .. Len(defs[c.table])
    BY <2>1, <2>2, <2>3, Typed DEF GivenRight
  <2>5. defs[c.table][i].fn = c.fn
    BY <2>3 DEF Counts, Defs
  <2>6. c.sym.shndx = "text" /\ defs[c.table][i].whole =>
           c.sym.at <= Len(code[c.table]) /\ code[c.table][c.sym.at] = c.fn
    BY <2>1, <2>3, <2>4, <2>5 DEF IInv, DefsOK, IsGiven
  <2> QED BY <2>2, <2>3, <2>6 DEF GivenRight
<1> QED BY <1>1, Invariance, PTL

(* The symbol a Tcl command took its address from stays as it was until a  *)
(* later source uses the function and then defines it, as long as every    *)
(* command names the newest handle.                                        *)
THEOREM CommandsStayCurrent == Spec => []CommandsCurrent
<1>1. IInv => CommandsCurrent
  <2> SUFFICES ASSUME IInv, ~mixed, NEW c \in commands, InTable(c.sym)
               PROVE  IF Later(c) = {} THEN symtab[c.table][c.fn] = c.sym
                      ELSE \E i \in Later(c) :
                              /\ \A j \in Later(c) : j <= i
                              /\ symtab[c.table][c.fn] = TextAt(defs[c.table][i].at)
    BY DEF CommandsCurrent, InTable
  <2>1. GivenStays(c)
    BY DEF IInv, GivenOK
  <2> QED BY <2>1 DEF GivenStays, IsLater
<1> QED BY <1>1, Invariance, PTL
=============================================================================
