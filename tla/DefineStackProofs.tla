------------------------- MODULE DefineStackProofs -------------------------
(***************************************************************************)
(* Proofs about DefineStack, for all numbers of keywords, built-in macros, *)
(* names, handles and parameters and every height of the stack.            *)
(***************************************************************************)
EXTENDS DefineStack, TLAPS

(* A #define being parsed: its name is in the table, and the parameters    *)
(* read so far are Syms of parameters, on the stack.                       *)
DefiningOK ==
    defining # NoDefine =>
        /\ defining.v \in Tok /\ defining.v <= tok_ident
        /\ \A p \in defining.params :
              p # 0 /\ p <= Height /\ define_stack[p].field

(* ParamsBelow for every Sym of the stack, one a token still has or not.   *)
StackParams ==
    \A i \in 1 .. Height : \A p \in define_stack[i].params :
        p # 0 /\ p < i /\ define_stack[p].field

(* What the open unit has done so far: the definitions it has pushed are   *)
(* above define_start and named in defined; a name it has touched has no   *)
(* older definition left, and any other name still has the one it had.     *)
UnitSoFar ==
    /\ table_base <= Height
    /\ define_start <= Height
    /\ mode \in Units =>
         /\ table_base <= define_start
         /\ \A i \in define_start + 1 .. Height :
               ~define_stack[i].field /\ define_stack[i].v # 0
                  => define_stack[i].v \in defined
         /\ \A n \in Tok :
               IF n \in defined \union undefined
               THEN sym_define[n] = 0 \/ sym_define[n] > define_start
               ELSE sym_define[n] = at_start[n] /\ at_start[n] <= define_start
    /\ mode \notin Units => defined = {} /\ undefined = {} /\ define_start = 0

IInv == TypeOK /\ DefinesLive /\ OwnTable /\ DefiningOK /\ StackParams /\ UnitSoFar

-----------------------------------------------------------------------------

(* The fields of a Sym of the stack.                                       *)
LEMMA SymFacts ==
    ASSUME NEW s \in Seq(Sym), NEW i \in 1 .. Len(s)
    PROVE  /\ s[i] \in Sym
           /\ s[i].v \in 0 .. MaxTok
           /\ s[i].field \in BOOLEAN
           /\ s[i].params \subseteq Ptr
<1>1. s[i] \in Sym
  OBVIOUS
<1> QED BY <1>1 DEF Sym

(* Popping a sequence of Syms to height b keeps the b oldest as they are.  *)
LEMMA PopFacts ==
    ASSUME NEW s \in Seq(Sym), NEW b \in Nat, b <= Len(s)
    PROVE  /\ SubSeq(s, 1, b) \in Seq(Sym)
           /\ Len(SubSeq(s, 1, b)) = b
           /\ \A i \in 1 .. b : SubSeq(s, 1, b)[i] = s[i]
OBVIOUS

(* Pushing one Sym keeps the others as they are.                           *)
LEMMA PushFacts ==
    ASSUME NEW s \in Seq(Sym), NEW e \in Sym
    PROVE  /\ Append(s, e) \in Seq(Sym)
           /\ Len(Append(s, e)) = Len(s) + 1
           /\ Append(s, e)[Len(s) + 1] = e
           /\ \A i \in 1 .. Len(s) : Append(s, e)[i] = s[i]
OBVIOUS

(* So does pushing several.                                                *)
LEMMA ConcatFacts ==
    ASSUME NEW s \in Seq(Sym), NEW t \in Seq(Sym)
    PROVE  /\ s \o t \in Seq(Sym)
           /\ Len(s \o t) = Len(s) + Len(t)
           /\ \A i \in 1 .. Len(s) : (s \o t)[i] = s[i]
           /\ \A i \in 1 .. Len(t) : (s \o t)[Len(s) + i] = t[i]
OBVIOUS

(* What tcc_new pushes: a macro for each built-in, none with parameters.   *)
LEMMA BuiltinFacts ==
    /\ Builtins \in Nat
    /\ BuiltinSyms \in Seq(Sym) /\ Len(BuiltinSyms) = Builtins
    /\ \A i \in 1 .. Builtins : /\ BuiltinSyms[i].v = BuiltinTok(i)
                                /\ ~BuiltinSyms[i].field
                                /\ BuiltinSyms[i].params = {}
<1> USE DefineAssumption DEF Builtins
<1>1. \A i \in 1 .. Builtins : BuiltinTok(i) \in 0 .. MaxTok
  BY DEF BuiltinTok
<1>2. \A i \in 1 .. Builtins :
        [v |-> BuiltinTok(i), field |-> FALSE, params |-> {}] \in Sym
  BY <1>1 DEF Sym
<1>3. BuiltinSyms \in [1 .. Builtins -> Sym]
  BY <1>2 DEF BuiltinSyms
<1>4. Builtins \in Nat
  OBVIOUS
<1>5. BuiltinSyms \in Seq(Sym) /\ Len(BuiltinSyms) = Builtins
  BY <1>3, <1>4
<1>6. \A i \in 1 .. Builtins : /\ BuiltinSyms[i].v = BuiltinTok(i)
                               /\ ~BuiltinSyms[i].field
                               /\ BuiltinSyms[i].params = {}
  BY DEF BuiltinSyms
<1> QED BY <1>4, <1>5, <1>6

-----------------------------------------------------------------------------
(* The process starts in it, with no definition at all.                    *)
LEMMA InitIInv == Init => IInv
<1> SUFFICES ASSUME Init PROVE IInv
  OBVIOUS
<1> USE DefineAssumption DEF Init
<1>1. TypeOK
  BY DEF TypeOK, Tok, Ptr, Units, Defining, NoDefine, Height
<1>2. DefinesLive /\ OwnTable /\ DefiningOK
  BY DEF DefinesLive, OwnTable, DefiningOK
<1>3. StackParams
  BY DEF StackParams, Height
<1>4. UnitSoFar
  BY DEF UnitSoFar, Units, Height
<1> QED BY <1>1, <1>2, <1>3, <1>4 DEF IInv

(* A new handle: the built-ins are the only names of the new table.        *)
LEMMA tcc_newIInv == IInv /\ tcc_new => IInv'
<1> SUFFICES ASSUME IInv, tcc_new PROVE IInv'
  OBVIOUS
<1> USE DefineAssumption
<1>0. TypeOK /\ DefinesLive /\ StackParams /\ UnitSoFar
  BY DEF IInv
<1>1. /\ define_stack \in Seq(Sym) /\ Height \in Nat
      /\ define_stack' = define_stack \o BuiltinSyms
      /\ Height + Builtins <= MaxStack
  BY <1>0 DEF TypeOK, tcc_new, Height
<1>2. /\ define_stack' \in Seq(Sym)
      /\ Height' = Height + Builtins
      /\ \A i \in 1 .. Height : define_stack'[i] = define_stack[i]
      /\ \A i \in 1 .. Builtins : define_stack'[Height + i] = BuiltinSyms[i]
  BY <1>1, BuiltinFacts, ConcatFacts DEF Height
<1>3. ASSUME NEW n \in Tok, BuiltinDefine(n) # 0
      PROVE  /\ n <= Keywords + Standard
             /\ \E i \in 1 .. Builtins : BuiltinDefine(n) = Height + i /\ BuiltinTok(i) = n
  <2>1. CASE n <= Dummies
    BY <2>1, <1>1 DEF Tok, BuiltinDefine, BuiltinTok, Builtins
  <2>2. CASE n > Dummies
    <3> DEFINE j == Dummies + (n - Keywords)
    <3>1. n > Keywords /\ n <= Keywords + Standard /\ BuiltinDefine(n) = Height + j
      BY <2>2, <1>3, <1>1 DEF Tok, BuiltinDefine
    <3>2. j \in 1 .. Builtins /\ BuiltinTok(j) = n
      BY <3>1 DEF Tok, BuiltinTok, Builtins
    <3> QED BY <3>1, <3>2
  <2> QED BY <2>1, <2>2 DEF Tok
<1>4. \A n \in Tok : BuiltinDefine(n) \in Ptr
  BY <1>1, BuiltinFacts DEF Tok, Ptr, BuiltinDefine, Builtins
<1>5. TypeOK'
  <2>1. /\ define_stack' \in Seq(Sym) /\ Height' <= MaxStack
        /\ sym_define' \in [Tok -> Ptr]
        /\ tok_ident' \in 0 .. MaxTok /\ live' \in 0 .. MaxLive
        /\ table_base' \in Ptr
    BY <1>0, <1>1, <1>2, <1>4, BuiltinFacts DEF tcc_new, TypeOK, Ptr
  <2> QED BY <2>1, <1>0 DEF tcc_new, TypeOK, Ptr
<1>6. DefinesLive' /\ OwnTable'
  <2> SUFFICES ASSUME NEW n \in Tok, sym_define'[n] # 0
               PROVE  /\ sym_define'[n] <= Height'
                      /\ define_stack'[sym_define'[n]].v = n
                      /\ ~define_stack'[sym_define'[n]].field
                      /\ \A i \in sym_define'[n] + 1 .. Height' :
                            define_stack'[i].v = n => define_stack'[i].field
                      /\ n <= tok_ident' /\ sym_define'[n] > table_base'
    BY DEF DefinesLive, OwnTable
  <2>1. sym_define'[n] = BuiltinDefine(n)
    BY DEF tcc_new
  <2>2. PICK i \in 1 .. Builtins : BuiltinDefine(n) = Height + i /\ BuiltinTok(i) = n
    BY <2>1, <1>3
  <2>3. ASSUME NEW k \in sym_define'[n] + 1 .. Height'
        PROVE  define_stack'[k].v # n
    <3>1. k - Height \in 1 .. Builtins /\ k - Height > i /\ k = Height + (k - Height)
      BY <2>1, <2>2, <1>1, <1>2, BuiltinFacts
    <3>2. define_stack'[k].v = BuiltinTok(k - Height)
      BY <3>1, <1>2, BuiltinFacts
    <3>3. BuiltinTok(k - Height) # BuiltinTok(i)
      BY <3>1, <1>1 DEF BuiltinTok, Builtins
    <3> QED BY <3>2, <3>3, <2>2
  <2>4. n <= tok_ident' /\ sym_define'[n] > table_base'
    BY <2>1, <2>2, <1>1, <1>3 DEF tcc_new
  <2>5. sym_define'[n] = Height + i /\ sym_define'[n] <= Height'
    BY <2>1, <2>2, <1>1, <1>2, BuiltinFacts
  <2>6. define_stack'[sym_define'[n]].v = n /\ ~define_stack'[sym_define'[n]].field
    BY <2>5, <2>2, <1>2, BuiltinFacts
  <2> QED BY <2>3, <2>4, <2>5, <2>6
<1>7. DefiningOK'
  BY DEF tcc_new, DefiningOK, NoDefine
<1>8. StackParams'
  <2> SUFFICES ASSUME NEW i \in 1 .. Height', NEW p \in define_stack'[i].params
               PROVE  p # 0 /\ p < i /\ define_stack'[p].field
    BY DEF StackParams
  <2>1. CASE i <= Height
    <3>0. i \in 1 .. Height
      BY <2>1, <1>1, <1>2
    <3>1. p \in define_stack[i].params
      BY <3>0, <1>2
    <3>2. p # 0 /\ p < i /\ define_stack[p].field
      BY <3>0, <3>1, <1>0 DEF StackParams
    <3>3. p \in Ptr
      BY <3>0, <3>1, <1>1, SymFacts DEF Height
    <3>4. p \in 1 .. Height
      BY <3>0, <3>2, <3>3, <1>1 DEF Ptr
    <3> QED BY <3>2, <3>4, <1>2
  <2>2. CASE i > Height
    <3>1. i - Height \in 1 .. Builtins /\ i = Height + (i - Height)
      BY <2>2, <1>1, <1>2, BuiltinFacts
    <3>2. define_stack'[i].params = {}
      BY <3>1, <1>2, BuiltinFacts
    <3> QED BY <3>2
  <2>3. i <= Height \/ i > Height
    BY <1>1, <1>2, BuiltinFacts
  <2> QED BY <2>1, <2>2, <2>3
<1>9. UnitSoFar'
  BY <1>0, <1>1, <1>2, BuiltinFacts DEF UnitSoFar, tcc_new, Units, TypeOK, Ptr
<1> QED BY <1>5, <1>6, <1>7, <1>8, <1>9 DEF IInv

(* free_defines to height b: what is left of the stack is as it was, and   *)
(* a name keeps its definition unless a Sym of that name was popped.       *)
LEMMA FreeDefinesFacts ==
    ASSUME IInv, NEW b \in Nat, b <= Height, free_defines(b), tok_ident' = tok_ident
    PROVE  /\ define_stack' \in Seq(Sym) /\ Height' = b
           /\ \A i \in 1 .. b : define_stack'[i] = define_stack[i]
           /\ sym_define' \in [Tok -> Ptr]
           /\ \A n \in Tok : sym_define'[n] # 0 =>
                 sym_define'[n] = sym_define[n] /\ sym_define[n] <= b /\ n \notin Popped(b)
           /\ \A n \in Tok : n \notin Popped(b) => sym_define'[n] = sym_define[n]
           /\ DefinesLive'
           /\ StackParams'
<1> USE DefineAssumption
<1>1. /\ define_stack \in Seq(Sym) /\ Height \in Nat /\ sym_define \in [Tok -> Ptr]
      /\ define_stack' = SubSeq(define_stack, 1, b)
      /\ tok_ident \in Nat
  BY DEF IInv, TypeOK, free_defines, Height
<1>2. /\ define_stack' \in Seq(Sym) /\ Height' = b
      /\ \A i \in 1 .. b : define_stack'[i] = define_stack[i]
  BY <1>1, PopFacts DEF Height
<1>3. /\ sym_define' \in [Tok -> Ptr]
      /\ \A n \in Tok : sym_define'[n] =
            IF n \in Popped(b) /\ n <= tok_ident THEN 0 ELSE sym_define[n]
  BY <1>1 DEF free_defines, Ptr
<1>4. ASSUME NEW n \in Tok, sym_define'[n] # 0
      PROVE  sym_define'[n] = sym_define[n] /\ sym_define[n] <= b /\ n \notin Popped(b)
  <2>1. sym_define'[n] = sym_define[n] /\ ~(n \in Popped(b) /\ n <= tok_ident)
    BY <1>3, <1>4
  <2>2. n <= tok_ident
    BY <2>1, <1>4 DEF IInv, OwnTable
  <2>3. ASSUME sym_define[n] > b PROVE FALSE
    <3>1. /\ sym_define[n] \in 1 .. Height
          /\ define_stack[sym_define[n]].v = n /\ ~define_stack[sym_define[n]].field
      BY <1>1, <1>4, <2>1 DEF IInv, DefinesLive, Ptr
    <3>2. n \in Popped(b)
      BY <3>1, <2>3 DEF Popped
    <3> QED BY <3>2, <2>1, <2>2
  <2> QED BY <2>1, <2>2, <2>3, <1>1 DEF Ptr
<1>5. \A n \in Tok : n \notin Popped(b) => sym_define'[n] = sym_define[n]
  BY <1>3
<1>6. DefinesLive'
  <2> SUFFICES ASSUME NEW n \in Tok, sym_define'[n] # 0
               PROVE  /\ sym_define'[n] <= Height'
                      /\ define_stack'[sym_define'[n]].v = n
                      /\ ~define_stack'[sym_define'[n]].field
                      /\ \A i \in sym_define'[n] + 1 .. Height' :
                            define_stack'[i].v = n => define_stack'[i].field
    BY DEF DefinesLive
  <2>1. sym_define'[n] = sym_define[n] /\ sym_define[n] \in 1 .. b
    BY <1>1, <1>4 DEF Ptr
  <2>2. /\ define_stack[sym_define[n]].v = n /\ ~define_stack[sym_define[n]].field
        /\ \A i \in sym_define[n] + 1 .. Height :
              define_stack[i].v = n => define_stack[i].field
    BY <2>1 DEF IInv, DefinesLive
  <2>3. \A i \in sym_define'[n] + 1 .. b : i \in sym_define[n] + 1 .. Height /\ i \in 1 .. b
    BY <2>1, <1>1
  <2> QED BY <2>1, <2>2, <2>3, <1>2
<1>7. StackParams'
  <2> SUFFICES ASSUME NEW i \in 1 .. b, NEW p \in define_stack'[i].params
               PROVE  p # 0 /\ p < i /\ define_stack'[p].field
    BY <1>2 DEF StackParams
  <2>1. i \in 1 .. Height /\ p \in define_stack[i].params
    BY <1>1, <1>2
  <2>2. p # 0 /\ p < i /\ define_stack[p].field
    BY <2>1 DEF IInv, StackParams
  <2>3. p \in Ptr
    BY <2>1, <1>1, SymFacts DEF Height
  <2>4. p \in 1 .. b
    BY <2>2, <2>3 DEF Ptr
  <2> QED BY <2>2, <2>4, <1>2
<1> QED BY <1>2, <1>3, <1>4, <1>5, <1>6, <1>7

(* A memory handle goes and leaves the macros as they are.                 *)
LEMMA ForgetIInv == IInv /\ Forget => IInv'
<1> SUFFICES ASSUME IInv, Forget PROVE IInv'
  OBVIOUS
<1>1. TypeOK'
  BY DefineAssumption DEF IInv, TypeOK, Forget, Height
<1>2. DefinesLive' /\ OwnTable' /\ DefiningOK' /\ StackParams' /\ UnitSoFar'
  BY DEF IInv, DefinesLive, OwnTable, DefiningOK, StackParams, UnitSoFar, Forget, Height
<1> QED BY <1>1, <1>2 DEF IInv

(* tcc_delete pops the whole stack, so no name keeps a definition.         *)
LEMMA tcc_deleteIInv == IInv /\ tcc_delete => IInv'
<1> SUFFICES ASSUME IInv, tcc_delete PROVE IInv'
  OBVIOUS
<1> USE DefineAssumption
<1>1. TypeOK /\ Height \in Nat
  BY DEF IInv, TypeOK, Height
<1>2. /\ define_stack' \in Seq(Sym) /\ Height' = 0
      /\ sym_define' \in [Tok -> Ptr]
      /\ \A n \in Tok : sym_define'[n] = 0
      /\ DefinesLive' /\ StackParams'
  <2>1. \A n \in Tok : sym_define[n] <= 0 => sym_define[n] = 0
    BY <1>1 DEF TypeOK, Ptr
  <2> QED BY <1>1, <2>1, FreeDefinesFacts DEF tcc_delete
<1>3. TypeOK'
  BY <1>1, <1>2 DEF TypeOK, tcc_delete, Ptr
<1>4. OwnTable' /\ DefiningOK'
  BY <1>2 DEF OwnTable, DefiningOK, tcc_delete, NoDefine
<1>5. UnitSoFar'
  <2>1. mode' \notin Units /\ defined' = {} /\ undefined' = {}
    BY DEF IInv, UnitSoFar, tcc_delete, Units
  <2>2. define_start' = 0 /\ table_base' = 0
    BY DEF tcc_delete, IInv, UnitSoFar, Units
  <2> QED BY <2>1, <2>2, <1>2 DEF UnitSoFar
<1> QED BY <1>2, <1>3, <1>4, <1>5 DEF IInv

(* A unit remembers the height of the stack and every definition below it. *)
LEMMA OpenIInv == ASSUME NEW u \in Units PROVE IInv /\ Open(u) => IInv'
<1> SUFFICES ASSUME IInv, Open(u) PROVE IInv'
  OBVIOUS
<1> USE DefineAssumption
<1>1. TypeOK /\ Height \in Nat
  BY DEF IInv, TypeOK, Height
<1>2. TypeOK'
  BY <1>1 DEF TypeOK, Open, Ptr, Height
<1>3. DefinesLive' /\ OwnTable' /\ DefiningOK' /\ StackParams'
  BY DEF IInv, DefinesLive, OwnTable, DefiningOK, StackParams, Open, Height
<1>4. UnitSoFar'
  <2>1. defined' = {} /\ undefined' = {}
    BY DEF IInv, UnitSoFar, Open, Units
  <2>2. \A n \in Tok : sym_define'[n] = at_start'[n] /\ at_start'[n] <= define_start'
    BY <1>1 DEF IInv, DefinesLive, TypeOK, Ptr, Open
  <2>3. Height' = Height /\ define_start' = Height /\ table_base' = table_base
    BY DEF Open, Height
  <2>4. \A i \in define_start' + 1 .. Height' : FALSE
    BY <2>3, <1>1
  <2> QED BY <2>1, <2>2, <2>3, <2>4, <1>1 DEF IInv, UnitSoFar, Open
<1> QED BY <1>2, <1>3, <1>4 DEF IInv

(* Close undoes what the unit did, whatever was being parsed.              *)
LEMMA CloseFacts ==
    ASSUME IInv, Close
    PROVE  /\ IInv'
           /\ \A n \in Tok : sym_define'[n] =
                 IF n \in defined \union undefined THEN 0 ELSE at_start[n]
<1> USE DefineAssumption
<1>1. TypeOK /\ Height \in Nat /\ define_start \in Nat /\ define_start <= Height
  BY DEF IInv, TypeOK, UnitSoFar, Height, Ptr
<1>2. /\ define_stack' \in Seq(Sym) /\ Height' = define_start
      /\ sym_define' \in [Tok -> Ptr]
      /\ \A n \in Tok : sym_define'[n] # 0 =>
            /\ sym_define'[n] = sym_define[n] /\ sym_define[n] <= define_start
            /\ n \notin Popped(define_start)
      /\ \A n \in Tok : n \notin Popped(define_start) => sym_define'[n] = sym_define[n]
      /\ DefinesLive' /\ StackParams'
  BY <1>1, FreeDefinesFacts DEF Close
<1>3. TypeOK'
  BY <1>1, <1>2 DEF TypeOK, Close, Ptr, Defining, NoDefine
<1>4. OwnTable'
  BY <1>2 DEF IInv, OwnTable, Close
<1>5. DefiningOK'
  BY DEF DefiningOK, Close, NoDefine
<1>6. \A n \in Popped(define_start) : n # 0 => n \in defined
  BY <1>1 DEF Popped, IInv, UnitSoFar, Close
<1>7. ASSUME NEW n \in Tok
      PROVE sym_define'[n] = IF n \in defined \union undefined THEN 0 ELSE at_start[n]
  <2>1. CASE n \in defined \union undefined
    <3>1. sym_define[n] = 0 \/ sym_define[n] > define_start
      BY <2>1 DEF IInv, UnitSoFar, Close
    <3> QED BY <3>1, <1>1, <1>2, <2>1 DEF TypeOK, Ptr
  <2>2. CASE n \notin defined \union undefined
    <3>1. n \notin Popped(define_start)
      BY <1>6, <2>2 DEF Tok
    <3>2. sym_define[n] = at_start[n]
      BY <2>2 DEF IInv, UnitSoFar, Close
    <3> QED BY <3>1, <3>2, <1>2, <2>2
  <2> QED BY <2>1, <2>2
<1>8. UnitSoFar'
  BY <1>1, <1>2 DEF IInv, UnitSoFar, Close, Units
<1> QED BY <1>2, <1>3, <1>4, <1>5, <1>7, <1>8 DEF IInv

(* The process that exits leaves the empty state.                          *)
LEMMA ExitIInv == Exit => IInv'
<1> SUFFICES ASSUME Exit PROVE IInv'
  OBVIOUS
<1> USE DefineAssumption DEF Exit
<1>1. TypeOK'
  BY DEF TypeOK, Tok, Ptr, Defining, NoDefine, Height
<1>2. DefinesLive' /\ OwnTable' /\ DefiningOK'
  BY DEF DefinesLive, OwnTable, DefiningOK
<1>3. StackParams' /\ UnitSoFar'
  BY DEF StackParams, UnitSoFar, Units, Height
<1> QED BY <1>1, <1>2, <1>3 DEF IInv

(* parse_define reads the name and pushes nothing yet.                     *)
LEMMA parse_defineIInv == ASSUME NEW n \in Tok PROVE IInv /\ parse_define(n) => IInv'
<1> SUFFICES ASSUME IInv, parse_define(n) PROVE IInv'
  OBVIOUS
<1> USE DefineAssumption
<1>1. tok_ident' \in 0 .. MaxTok /\ tok_ident' >= tok_ident /\ n <= tok_ident'
  BY DEF IInv, TypeOK, parse_define, TokAlloc, Nameable, Tok
<1>2. TypeOK'
  BY <1>1 DEF IInv, TypeOK, parse_define, Defining, Tok, Height
<1>3. OwnTable'
  BY <1>1 DEF IInv, TypeOK, OwnTable, parse_define, Tok
<1>4. DefiningOK'
  BY <1>1 DEF DefiningOK, parse_define, Tok
<1>5. DefinesLive' /\ StackParams' /\ UnitSoFar'
  BY DEF IInv, DefinesLive, StackParams, UnitSoFar, parse_define, Height
<1> QED BY <1>2, <1>3, <1>4, <1>5 DEF IInv

(* A parameter is pushed above everything and is no definition of its name. *)
LEMMA parse_paramIInv == ASSUME NEW n \in Tok PROVE IInv /\ parse_param(n) => IInv'
<1> SUFFICES ASSUME IInv, parse_param(n) PROVE IInv'
  OBVIOUS
<1> USE DefineAssumption
<1> DEFINE e == [v |-> n, field |-> TRUE, params |-> {}]
<1>1. /\ TypeOK /\ define_stack \in Seq(Sym) /\ Height \in Nat /\ Height < MaxStack
      /\ e \in Sym /\ define_stack' = Append(define_stack, e)
  BY DEF IInv, TypeOK, Height, Sym, Tok, parse_param
<1> HIDE DEF e
<1>0. Height \in Nat
  BY <1>1
<1>2. /\ define_stack' \in Seq(Sym) /\ Height' = Height + 1
      /\ define_stack'[Height + 1] = e
      /\ \A i \in 1 .. Height : define_stack'[i] = define_stack[i]
  BY <1>1, PushFacts DEF Height
<1>3. define_stack'[Height + 1].field /\ define_stack'[Height + 1].params = {}
  BY <1>2 DEF e
<1>4. tok_ident' \in 0 .. MaxTok /\ tok_ident' >= tok_ident
  BY DEF IInv, TypeOK, parse_param, TokAlloc, Nameable, Tok
<1>5. sym_define' = sym_define /\ \A k \in Tok : sym_define[k] \in Ptr
  BY <1>1 DEF TypeOK, parse_param
<1>6. TypeOK'
  <2>1. defining' \in Defining
    <3>1. Height + 1 \in Ptr /\ defining \in Defining
      BY <1>1 DEF TypeOK, Ptr
    <3> QED BY <3>1 DEF parse_param, Defining
  <2> QED BY <1>1, <1>2, <1>4, <2>1, SMTT(30) DEF TypeOK, parse_param
<1>7. OwnTable'
  BY <1>4, <1>5 DEF IInv, TypeOK, OwnTable, parse_param, Tok
<1>8. DefinesLive'
  <2> SUFFICES ASSUME NEW k \in Tok, sym_define[k] # 0
               PROVE  /\ sym_define[k] <= Height'
                      /\ define_stack'[sym_define[k]].v = k
                      /\ ~define_stack'[sym_define[k]].field
                      /\ \A i \in sym_define[k] + 1 .. Height' :
                            define_stack'[i].v = k => define_stack'[i].field
    BY <1>5 DEF DefinesLive
  <2>1. /\ sym_define[k] \in 1 .. Height
        /\ define_stack[sym_define[k]].v = k /\ ~define_stack[sym_define[k]].field
        /\ \A i \in sym_define[k] + 1 .. Height :
              define_stack[i].v = k => define_stack[i].field
    BY <1>1, <1>5 DEF IInv, DefinesLive, Ptr
  <2>2. \A i \in sym_define[k] + 1 .. Height' :
           i = Height + 1 \/ (i \in sym_define[k] + 1 .. Height /\ i \in 1 .. Height)
    BY <2>1, <1>1, <1>2
  <2>3. /\ sym_define[k] <= Height'
        /\ define_stack'[sym_define[k]].v = k /\ ~define_stack'[sym_define[k]].field
    <3>1. define_stack'[sym_define[k]] = define_stack[sym_define[k]]
      BY <2>1, <1>2
    <3>2. sym_define[k] <= Height'
      BY <2>1, <1>0, <1>2
    <3> QED BY <3>1, <3>2, <2>1
  <2>4. \A i \in sym_define[k] + 1 .. Height' :
           define_stack'[i].v = k => define_stack'[i].field
    <3> TAKE i \in sym_define[k] + 1 .. Height'
    <3>1. CASE i = Height + 1
      BY <3>1, <1>3
    <3>2. CASE i \in sym_define[k] + 1 .. Height /\ i \in 1 .. Height
      BY <3>2, <2>1, <1>2
    <3> QED BY <2>2, <3>1, <3>2
  <2> QED BY <2>3, <2>4
<1>9. StackParams' /\ DefiningOK'
  <2>1. \A i \in 1 .. Height' : \A p \in define_stack'[i].params :
           p # 0 /\ p < i /\ define_stack'[p].field
    <3> TAKE i \in 1 .. Height'
    <3> TAKE p \in define_stack'[i].params
    <3>0. i # Height + 1
      BY <1>3
    <3>1. i \in 1 .. Height
      BY <3>0, <1>0, <1>2
    <3>2. p \in define_stack[i].params
      BY <3>1, <1>2
    <3>3. p # 0 /\ p < i /\ define_stack[p].field /\ p \in Ptr
      BY <3>1, <3>2, <1>1, SymFacts DEF IInv, StackParams, Height
    <3>4. p \in 1 .. Height
      BY <3>1, <3>3, <1>1 DEF Ptr
    <3> QED BY <3>3, <3>4, <1>2
  <2>2. defining.params \subseteq Ptr
    BY <1>1 DEF TypeOK, Defining
  <2>3. \A p \in defining.params : p \in 1 .. Height /\ define_stack[p].field
    BY <1>1, <2>2 DEF IInv, DefiningOK, parse_param, Ptr
  <2>4. /\ defining'.v = defining.v
        /\ defining'.params = defining.params \union {Height + 1}
    BY <1>1 DEF TypeOK, Defining, parse_param
  <2>5. \A p \in defining'.params : p # 0 /\ p <= Height' /\ define_stack'[p].field
    <3> TAKE p \in defining'.params
    <3>1. CASE p = Height + 1
      BY <3>1, <1>1, <1>2, <1>3
    <3>2. CASE p \in defining.params
      <4>1. p \in 1 .. Height /\ define_stack[p].field
        BY <3>2, <2>3
      <4> QED BY <4>1, <1>0, <1>2
    <3> QED BY <2>4, <3>1, <3>2
  <2>6. defining'.v \in Tok /\ defining'.v <= tok_ident'
    BY <2>4, <1>1, <1>4, SMTT(30) DEF IInv, DefiningOK, parse_param, TypeOK, Tok
  <2> QED BY <2>1, <2>5, <2>6 DEF StackParams, DefiningOK
<1>10. UnitSoFar'
  <2>1. /\ table_base' = table_base /\ define_start' = define_start /\ mode' = mode
        /\ defined' = defined /\ undefined' = undefined /\ at_start' = at_start
    BY DEF parse_param
  <2>2. table_base <= Height' /\ define_start <= Height'
    BY <1>1, <1>2 DEF IInv, UnitSoFar, TypeOK, Ptr
  <2>3. ASSUME mode \in Units, NEW i \in define_start + 1 .. Height',
               ~define_stack'[i].field, define_stack'[i].v # 0
        PROVE  define_stack'[i].v \in defined
    <3>0. i # Height + 1
      BY <2>3, <1>3
    <3>1. i \in define_start + 1 .. Height /\ i \in 1 .. Height
      BY <3>0, <1>1, <1>2 DEF TypeOK, Ptr
    <3> QED BY <3>1, <2>3, <1>2 DEF IInv, UnitSoFar
  <2> QED BY <2>1, <2>2, <2>3, <1>5 DEF IInv, UnitSoFar
<1> QED BY <1>6, <1>7, <1>8, <1>9, <1>10 DEF IInv

(* define_push makes the top of the stack the definition of its name.      *)
LEMMA define_pushIInv == IInv /\ define_push => IInv'
<1> SUFFICES ASSUME IInv, define_push PROVE IInv'
  OBVIOUS
<1> USE DefineAssumption
<1> DEFINE n == defining.v
           e == [v |-> n, field |-> FALSE, params |-> defining.params]
<1>1. TypeOK /\ Height \in Nat /\ Height < MaxStack /\ define_stack \in Seq(Sym)
  BY DEF IInv, TypeOK, Height, define_push
<1>2. n \in Tok /\ n <= tok_ident /\ n # 0
  BY DEF IInv, DefiningOK, define_push, Tok
<1>3. e \in Sym
  BY <1>1, <1>2 DEF TypeOK, Defining, Sym
<1>4. /\ define_stack' \in Seq(Sym) /\ Height' = Height + 1
      /\ define_stack'[Height + 1] = e
      /\ \A i \in 1 .. Height : define_stack'[i] = define_stack[i]
  BY <1>1, <1>3, PushFacts DEF Height, define_push
<1>5. /\ define_stack'[Height + 1].v = n /\ ~define_stack'[Height + 1].field
      /\ define_stack'[Height + 1].params = defining.params
  BY <1>4
<1>6. /\ sym_define' \in [Tok -> Ptr] /\ sym_define \in [Tok -> Ptr]
      /\ sym_define'[n] = Height + 1
      /\ \A k \in Tok \ {n} : sym_define'[k] = sym_define[k]
  BY <1>1, <1>2 DEF TypeOK, define_push, Ptr
<1> HIDE DEF e, n
<1>7. TypeOK'
  <2>1. defined' \subseteq Tok
    BY <1>1, <1>2 DEF TypeOK, define_push, n
  <2> QED BY <1>1, <1>4, <1>6, <2>1 DEF TypeOK, define_push, Defining, NoDefine
<1>8. OwnTable'
  <2> SUFFICES ASSUME NEW k \in Tok, sym_define'[k] # 0
               PROVE  k <= tok_ident /\ sym_define'[k] > table_base
    BY DEF OwnTable, define_push
  <2>1. CASE k = n
    BY <2>1, <1>1, <1>2, <1>6 DEF IInv, UnitSoFar, TypeOK, Ptr
  <2>2. CASE k # n
    BY <2>2, <1>6 DEF IInv, OwnTable
  <2> QED BY <2>1, <2>2
<1>9. DefinesLive'
  <2> SUFFICES ASSUME NEW k \in Tok, sym_define'[k] # 0
               PROVE  /\ sym_define'[k] <= Height'
                      /\ define_stack'[sym_define'[k]].v = k
                      /\ ~define_stack'[sym_define'[k]].field
                      /\ \A i \in sym_define'[k] + 1 .. Height' :
                            define_stack'[i].v = k => define_stack'[i].field
    BY DEF DefinesLive
  <2>1. CASE k = n
    BY <2>1, <1>1, <1>4, <1>5, <1>6
  <2>2. CASE k # n
    <3>1. /\ sym_define'[k] = sym_define[k] /\ sym_define[k] \in 1 .. Height
          /\ define_stack[sym_define[k]].v = k /\ ~define_stack[sym_define[k]].field
          /\ \A i \in sym_define[k] + 1 .. Height :
                define_stack[i].v = k => define_stack[i].field
      BY <2>2, <1>1, <1>6 DEF IInv, DefinesLive, Ptr
    <3>2. define_stack'[sym_define[k]] = define_stack[sym_define[k]]
      BY <3>1, <1>4
    <3>3. \A i \in sym_define[k] + 1 .. Height' :
             define_stack'[i].v = k => define_stack'[i].field
      <4> TAKE i \in sym_define[k] + 1 .. Height'
      <4>1. i = Height + 1 \/ (i \in sym_define[k] + 1 .. Height /\ i \in 1 .. Height)
        BY <3>1, <1>1, <1>4
      <4> QED BY <4>1, <3>1, <1>4, <1>5, <2>2
    <3>4. sym_define[k] <= Height'
      BY <3>1, <1>1, <1>4
    <3> QED BY <3>1, <3>2, <3>3, <3>4
  <2> QED BY <2>1, <2>2
<1>10. StackParams'
  <2> SUFFICES ASSUME NEW i \in 1 .. Height', NEW p \in define_stack'[i].params
               PROVE  p # 0 /\ p < i /\ define_stack'[p].field
    BY DEF StackParams
  <2>0. \A q \in define_stack'[i].params : q \in Ptr
    BY <1>4, SymFacts DEF Height
  <2>1. CASE i = Height + 1
    <3>1. p # 0 /\ p <= Height /\ define_stack[p].field
      BY <2>1, <1>5 DEF IInv, DefiningOK, define_push
    <3>2. p \in 1 .. Height
      BY <3>1, <2>0, <1>1 DEF Ptr
    <3> QED BY <3>1, <3>2, <2>1, <1>1, <1>4
  <2>2. CASE i \in 1 .. Height
    <3>1. p # 0 /\ p < i /\ define_stack[p].field
      BY <2>2, <1>4 DEF IInv, StackParams
    <3>2. p \in 1 .. Height
      BY <3>1, <2>0, <2>2, <1>1 DEF Ptr
    <3> QED BY <3>1, <3>2, <1>4
  <2>3. i = Height + 1 \/ i \in 1 .. Height
    BY <1>1, <1>4
  <2> QED BY <2>1, <2>2, <2>3
<1>11. DefiningOK'
  BY DEF DefiningOK, define_push
<1>12. UnitSoFar'
  <2>1. /\ table_base' = table_base /\ define_start' = define_start /\ mode' = mode
        /\ undefined' = undefined /\ at_start' = at_start
        /\ defined' = IF mode \in Units THEN defined \union {n} ELSE defined
    BY DEF define_push, n
  <2>2. table_base <= Height' /\ define_start <= Height'
    BY <1>1, <1>4 DEF IInv, UnitSoFar, TypeOK, Ptr
  <2>3. ASSUME mode \in Units, NEW i \in define_start + 1 .. Height',
               ~define_stack'[i].field, define_stack'[i].v # 0
        PROVE  define_stack'[i].v \in defined'
    <3>1. i = Height + 1 \/ (i \in define_start + 1 .. Height /\ i \in 1 .. Height)
      BY <1>1, <1>4 DEF TypeOK, Ptr
    <3>2. CASE i = Height + 1
      BY <3>2, <2>1, <2>3, <1>5
    <3>3. CASE i \in define_start + 1 .. Height /\ i \in 1 .. Height
      BY <3>3, <2>1, <2>3, <1>4 DEF IInv, UnitSoFar
    <3> QED BY <3>1, <3>2, <3>3
  <2>4. ASSUME mode \in Units, NEW k \in Tok
        PROVE  IF k \in defined' \union undefined'
               THEN sym_define'[k] = 0 \/ sym_define'[k] > define_start'
               ELSE sym_define'[k] = at_start'[k] /\ at_start'[k] <= define_start'
    <3>1. CASE k = n
      BY <3>1, <2>1, <2>4, <1>1, <1>6 DEF IInv, UnitSoFar, TypeOK, Ptr
    <3>2. CASE k # n
      BY <3>2, <2>1, <2>4, <1>6 DEF IInv, UnitSoFar
    <3> QED BY <3>1, <3>2
  <2> QED BY <2>1, <2>2, <2>3, <2>4 DEF IInv, UnitSoFar
<1> QED BY <1>7, <1>8, <1>9, <1>10, <1>11, <1>12 DEF IInv

(* define_undef changes no Sym but the definition of its name, and of it   *)
(* only the name.                                                          *)
LEMMA UndefFacts ==
    ASSUME IInv, NEW n \in Tok, define_undef(n)
    PROVE  /\ define_stack' \in Seq(Sym) /\ Height' = Height
           /\ \A i \in 1 .. Height :
                 /\ define_stack'[i].field = define_stack[i].field
                 /\ define_stack'[i].params = define_stack[i].params
                 /\ define_stack'[i].v \in {0, define_stack[i].v}
                 /\ define_stack[i].v # n => define_stack'[i].v = define_stack[i].v
<1> USE DefineAssumption
<1>1. TypeOK /\ Height \in Nat /\ define_stack \in Seq(Sym)
  BY DEF IInv, TypeOK, Height
<1>2. sym_define \in [Tok -> Ptr]
  BY <1>1 DEF TypeOK
<1>3. CASE sym_define[n] = 0
  BY <1>3, <1>1 DEF define_undef, define_find, Height
<1>4. CASE sym_define[n] # 0
  <2> DEFINE d == sym_define[n]
  <2>1. d \in 1 .. Height /\ define_stack[d].v = n
    BY <1>4, <1>1, <1>2 DEF IInv, DefinesLive, Ptr
  <2>2. define_stack' = [define_stack EXCEPT ![d].v = 0]
    BY <1>4 DEF define_undef, define_find
  <2>3. define_stack[d] \in Sym /\ [define_stack[d] EXCEPT !.v = 0] \in Sym
    <3>1. define_stack[d] \in Sym
      BY <2>1, <1>1, SymFacts DEF Height
    <3>2. 0 \in 0 .. MaxTok
      OBVIOUS
    <3> QED BY <3>1, <3>2 DEF Sym
  <2>4. define_stack' = [define_stack EXCEPT ![d] = [define_stack[d] EXCEPT !.v = 0]]
    BY <2>2
  <2> HIDE DEF d
  <2>5. define_stack' \in Seq(Sym) /\ Height' = Height
    BY <2>1, <2>3, <2>4, <1>1 DEF Height
  <2>6. \A i \in 1 .. Height : i # d => define_stack'[i] = define_stack[i]
    BY <2>1, <2>4, <1>1 DEF Height
  <2>7. define_stack'[d] = [define_stack[d] EXCEPT !.v = 0]
    BY <2>1, <2>4, <1>1 DEF Height
  <2>8. /\ define_stack'[d].field = define_stack[d].field
        /\ define_stack'[d].params = define_stack[d].params
        /\ define_stack'[d].v = 0
    BY <2>3, <2>7 DEF Sym
  <2> QED BY <2>1, <2>5, <2>6, <2>8
<1> QED BY <1>3, <1>4

(* define_undef takes the name from the Sym and the Sym from the name.     *)
LEMMA define_undefIInv == ASSUME NEW n \in Tok PROVE IInv /\ define_undef(n) => IInv'
<1> SUFFICES ASSUME IInv, define_undef(n) PROVE IInv'
  OBVIOUS
<1> USE DefineAssumption
<1>1. TypeOK /\ Height \in Nat /\ define_stack \in Seq(Sym)
  BY DEF IInv, TypeOK, Height
<1>2. /\ sym_define \in [Tok -> Ptr] /\ sym_define' \in [Tok -> Ptr]
      /\ sym_define'[n] = 0
      /\ \A k \in Tok \ {n} : sym_define'[k] = sym_define[k]
  BY <1>1 DEF TypeOK, define_undef, Ptr
<1>3. /\ define_stack' \in Seq(Sym) /\ Height' = Height
      /\ \A i \in 1 .. Height :
            /\ define_stack'[i].field = define_stack[i].field
            /\ define_stack'[i].params = define_stack[i].params
            /\ define_stack'[i].v \in {0, define_stack[i].v}
            /\ define_stack[i].v # n => define_stack'[i].v = define_stack[i].v
  BY UndefFacts
<1>4. tok_ident' \in 0 .. MaxTok /\ tok_ident' >= tok_ident
  BY DEF IInv, TypeOK, define_undef, TokAlloc, Nameable, Tok
<1>5. TypeOK'
  <2>1. undefined' \subseteq Tok
    BY <1>1 DEF TypeOK, define_undef
  <2> QED BY <1>1, <1>2, <1>3, <1>4, <2>1 DEF TypeOK, define_undef
<1>6. OwnTable'
  BY <1>1, <1>2, <1>4 DEF IInv, OwnTable, define_undef, TypeOK, Tok
<1>7. DefinesLive'
  <2> SUFFICES ASSUME NEW k \in Tok, sym_define'[k] # 0
               PROVE  /\ sym_define'[k] <= Height'
                      /\ define_stack'[sym_define'[k]].v = k
                      /\ ~define_stack'[sym_define'[k]].field
                      /\ \A i \in sym_define'[k] + 1 .. Height' :
                            define_stack'[i].v = k => define_stack'[i].field
    BY DEF DefinesLive
  <2>1. k # n /\ sym_define'[k] = sym_define[k]
    BY <1>2
  <2>2. /\ sym_define[k] \in 1 .. Height
        /\ define_stack[sym_define[k]].v = k /\ ~define_stack[sym_define[k]].field
        /\ \A i \in sym_define[k] + 1 .. Height :
              define_stack[i].v = k => define_stack[i].field
    BY <2>1, <1>1, <1>2 DEF IInv, DefinesLive, Ptr
  <2>3. /\ define_stack'[sym_define[k]].v = k
        /\ ~define_stack'[sym_define[k]].field
    BY <2>1, <2>2, <1>3
  <2>4. \A i \in sym_define[k] + 1 .. Height :
           define_stack'[i].v = k => define_stack'[i].field
    <3> TAKE i \in sym_define[k] + 1 .. Height
    <3>1. i \in 1 .. Height
      BY <2>2, <1>1
    <3>2. k # 0
      BY DEF Tok
    <3> QED BY <3>1, <3>2, <2>2, <1>3
  <2>5. sym_define[k] <= Height
    BY <2>2, <1>1
  <2> QED BY <2>1, <2>3, <2>4, <2>5, <1>3
<1>8. StackParams' /\ DefiningOK'
  <2>1. ASSUME NEW i \in 1 .. Height, NEW p \in define_stack'[i].params
        PROVE  p # 0 /\ p < i /\ define_stack'[p].field
    <3>1. p \in define_stack[i].params
      BY <1>3
    <3>2. p # 0 /\ p < i /\ define_stack[p].field
      BY <3>1 DEF IInv, StackParams
    <3>3. p \in Ptr
      BY <3>1, <1>1, SymFacts DEF Height
    <3>4. p \in 1 .. Height
      BY <3>2, <3>3, <1>1 DEF Ptr
    <3> QED BY <3>2, <3>4, <1>3
  <2>2. DefiningOK'
    BY DEF DefiningOK, define_undef
  <2> QED BY <2>1, <2>2, <1>3 DEF StackParams
<1>9. UnitSoFar'
  <2>1. /\ table_base' = table_base /\ define_start' = define_start /\ mode' = mode
        /\ defined' = defined /\ at_start' = at_start
        /\ undefined' = IF mode \in Units THEN undefined \union {n} ELSE undefined
    BY DEF define_undef
  <2>2. ASSUME mode \in Units, NEW i \in define_start + 1 .. Height,
               ~define_stack'[i].field, define_stack'[i].v # 0
        PROVE  define_stack'[i].v \in defined
    <3>1. i \in 1 .. Height
      BY <1>1 DEF TypeOK, Ptr
    <3>2. ~define_stack[i].field /\ define_stack'[i].v = define_stack[i].v
      BY <3>1, <2>2, <1>3
    <3> QED BY <3>2, <2>2 DEF IInv, UnitSoFar
  <2>3. ASSUME mode \in Units, NEW k \in Tok
        PROVE  IF k \in defined' \union undefined'
               THEN sym_define'[k] = 0 \/ sym_define'[k] > define_start'
               ELSE sym_define'[k] = at_start'[k] /\ at_start'[k] <= define_start'
    <3>1. CASE k = n
      BY <3>1, <2>1, <2>3, <1>2
    <3>2. CASE k # n
      BY <3>2, <2>1, <2>3, <1>2 DEF IInv, UnitSoFar
    <3> QED BY <3>1, <3>2
  <2> QED BY <2>1, <2>2, <2>3, <1>3 DEF IInv, UnitSoFar
<1> QED BY <1>5, <1>6, <1>7, <1>8, <1>9 DEF IInv

-----------------------------------------------------------------------------
(* IInv is inductive.                                                      *)
LEMMA NextIInv == IInv /\ [Next]_vars => IInv'
<1> SUFFICES ASSUME IInv, [Next]_vars PROVE IInv'
  OBVIOUS
<1>1. CASE tcc_new
  BY <1>1, tcc_newIInv
<1>2. CASE Forget
  BY <1>2, ForgetIInv
<1>3. CASE tcc_delete
  BY <1>3, tcc_deleteIInv
<1>4. CASE \E u \in Units : Open(u)
  BY <1>4, OpenIInv
<1>5. CASE EndOfFile
  BY <1>5, CloseFacts DEF EndOfFile
<1>6. CASE tcc_error
  BY <1>6, CloseFacts, ExitIInv DEF tcc_error
<1>7. CASE \E n \in Tok : parse_define(n)
  BY <1>7, parse_defineIInv
<1>8. CASE \E n \in Tok : parse_param(n)
  BY <1>8, parse_paramIInv
<1>9. CASE \E n \in Tok : define_undef(n)
  BY <1>9, define_undefIInv
<1>10. CASE define_push
  BY <1>10, define_pushIInv
<1>11. CASE UNCHANGED vars
  <2>1. TypeOK' = TypeOK /\ Height' = Height
    BY <1>11 DEF vars, TypeOK, Height
  <2>2. /\ DefinesLive' = DefinesLive /\ OwnTable' = OwnTable
        /\ DefiningOK' = DefiningOK /\ StackParams' = StackParams
        /\ UnitSoFar' = UnitSoFar
    BY <1>11, <2>1 DEF vars, DefinesLive, OwnTable, DefiningOK, StackParams, UnitSoFar
  <2> QED BY <2>1, <2>2 DEF IInv
<1> QED BY <1>1, <1>2, <1>3, <1>4, <1>5, <1>6, <1>7, <1>8, <1>9, <1>10, <1>11 DEF Next

(* IInv holds in every reachable state.                                    *)
THEOREM Invariance == Spec => []IInv
<1>1. Init => IInv
  BY InitIInv
<1>2. IInv /\ [Next]_vars => IInv'
  BY NextIInv
<1> QED BY <1>1, <1>2, PTL DEF Spec

(* Every reachable state has the types of the declarations of tcc.c.       *)
THEOREM TypeCorrect == Spec => []TypeOK
<1>1. IInv => TypeOK
  BY DEF IInv
<1> QED BY <1>1, Invariance, PTL

(* No token ever has a definition that was freed, undefined or replaced,   *)
(* nor one made under the token table of another handle.                   *)
THEOREM NoDanglingDefine == Spec => [](DefinesLive /\ OwnTable)
<1>1. IInv => DefinesLive /\ OwnTable
  BY DEF IInv
<1> QED BY <1>1, Invariance, PTL

(* Every definition a token has was made under the present token table, so *)
(* that tcc_new may replace the table and leave the stack.                 *)
THEOREM DefinitionsOfOwnTable == Spec => []OwnTable
<1> QED BY NoDanglingDefine, PTL

(* A macro that can be expanded has all its parameters below it.           *)
THEOREM ParametersBelow == Spec => []ParamsBelow
<1>1. IInv => ParamsBelow
  <2> SUFFICES ASSUME IInv, NEW n \in Tok, sym_define[n] # 0
               PROVE  \A p \in define_stack[sym_define[n]].params :
                         p # 0 /\ p < sym_define[n] /\ define_stack[p].field
    BY DEF ParamsBelow
  <2>1. sym_define[n] \in 1 .. Height
    BY DefineAssumption DEF IInv, TypeOK, DefinesLive, Ptr
  <2> QED BY <2>1 DEF IInv, StackParams
<1> QED BY <1>1, Invariance, PTL

(* A unit leaves every name it did not touch with the definition it had    *)
(* and every name it touched without one, however it ends.                 *)
THEOREM UnitFrameTheorem == Spec => UnitFrame
<1> DEFINE Frame == (mode \in Units /\ mode' = "idle") =>
          \A n \in Tok : sym_define'[n] =
              IF n \in defined \union undefined THEN 0 ELSE at_start[n]
<1>1. IInv /\ [Next]_vars => [Frame]_vars
  <2> SUFFICES ASSUME IInv, Next, mode \in Units, mode' = "idle"
               PROVE  \A n \in Tok : sym_define'[n] =
                        IF n \in defined \union undefined THEN 0 ELSE at_start[n]
    OBVIOUS
  <2>1. Close
    BY DEF Next, tcc_new, Forget, tcc_delete, Open, EndOfFile, tcc_error, Exit,
           parse_define, parse_param, define_undef, define_push, Units
  <2> QED BY <2>1, CloseFacts
<1>2. Spec => [][Frame]_vars
  BY <1>1, Invariance, PTL DEF Spec
<1> QED BY <1>2 DEF UnitFrame

-----------------------------------------------------------------------------
(* No parameter has two owners: neither two Syms of the stack nor a Sym    *)
(* and the #define being parsed, which has yet to hand its own over.       *)
OwnedInv ==
    /\ ParamsOwned
    /\ \A i \in 1 .. Height : define_stack[i].params \intersect defining.params = {}

(* A step that pushes nothing, gives no Sym another parameter and the      *)
(* #define being parsed none either, makes no second owner.                *)
LEMMA NothingPushed ==
    ASSUME OwnedInv,
           \A i \in 1 .. Height' : /\ i \in 1 .. Height
                                   /\ define_stack'[i].params = define_stack[i].params,
           defining'.params \subseteq defining.params
    PROVE  OwnedInv'
BY DEF OwnedInv, ParamsOwned

(* parse_param: the parameter is the Sym it has just pushed, which is none *)
(* that the stack had.                                                     *)
LEMMA parse_paramOwned ==
    ASSUME IInv, OwnedInv, NEW n \in Tok, parse_param(n) PROVE OwnedInv'
<1> USE DefineAssumption
<1> DEFINE e == [v |-> n, field |-> TRUE, params |-> {}]
<1>1. /\ Height \in Nat /\ define_stack \in Seq(Sym) /\ e \in Sym
      /\ define_stack' = Append(define_stack, e)
  BY DEF IInv, TypeOK, Height, Sym, Tok, parse_param
<1>2. e.params = {}
  OBVIOUS
<1> HIDE DEF e
<1>3. /\ Height' = Height + 1
      /\ define_stack'[Height + 1].params = {}
      /\ \A i \in 1 .. Height : define_stack'[i] = define_stack[i]
  BY <1>1, <1>2, PushFacts DEF Height
<1>4. defining'.params = defining.params \union {Height + 1}
  BY DEF IInv, TypeOK, Defining, parse_param
<1>5. \A i \in 1 .. Height : Height + 1 \notin define_stack[i].params
  <2> SUFFICES ASSUME NEW i \in 1 .. Height, Height + 1 \in define_stack[i].params
               PROVE  FALSE
    OBVIOUS
  <2>1. Height + 1 < i
    BY DEF IInv, StackParams
  <2> QED BY <2>1, <1>1
<1>6. \A i \in 1 .. Height' : i = Height + 1 \/ i \in 1 .. Height
  BY <1>1, <1>3
<1> QED BY <1>3, <1>4, <1>5, <1>6 DEF OwnedInv, ParamsOwned

(* define_push: the macro takes the parameters over from the #define.      *)
LEMMA define_pushOwned == ASSUME IInv, OwnedInv, define_push PROVE OwnedInv'
<1> USE DefineAssumption
<1> DEFINE e == [v |-> defining.v, field |-> FALSE, params |-> defining.params]
<1>1. /\ Height \in Nat /\ define_stack \in Seq(Sym) /\ e \in Sym
      /\ define_stack' = Append(define_stack, e)
  BY DEF IInv, TypeOK, Height, Sym, Defining, define_push
<1>2. e.params = defining.params /\ defining'.params = {}
  BY DEF define_push, NoDefine
<1> HIDE DEF e
<1>3. /\ Height' = Height + 1
      /\ define_stack'[Height + 1].params = defining.params
      /\ \A i \in 1 .. Height : define_stack'[i] = define_stack[i]
  BY <1>1, <1>2, PushFacts DEF Height
<1>4. \A i \in 1 .. Height' : i = Height + 1 \/ i \in 1 .. Height
  BY <1>1, <1>3
<1> QED BY <1>2, <1>3, <1>4 DEF OwnedInv, ParamsOwned

(* tcc_new: the built-in macros have no parameters.                        *)
LEMMA tcc_newOwned == ASSUME IInv, OwnedInv, tcc_new PROVE OwnedInv'
<1> USE DefineAssumption
<1>1. /\ define_stack \in Seq(Sym) /\ Height \in Nat
      /\ define_stack' = define_stack \o BuiltinSyms
      /\ defining' = defining
  BY DEF IInv, TypeOK, tcc_new, Height
<1>2. /\ Height' = Height + Builtins
      /\ \A i \in 1 .. Height : define_stack'[i] = define_stack[i]
      /\ \A i \in 1 .. Builtins : define_stack'[Height + i].params = {}
  <2>1. /\ Height' = Height + Builtins
        /\ \A i \in 1 .. Height : define_stack'[i] = define_stack[i]
        /\ \A i \in 1 .. Builtins : define_stack'[Height + i] = BuiltinSyms[i]
    BY <1>1, BuiltinFacts, ConcatFacts DEF Height
  <2> QED BY <2>1, BuiltinFacts
<1>3. ASSUME NEW i \in 1 .. Height'
      PROVE  i \in 1 .. Height \/ define_stack'[i].params = {}
  <2>1. CASE i > Height
    <3>1. i - Height \in 1 .. Builtins /\ i = Height + (i - Height)
      BY <2>1, <1>1, <1>2, BuiltinFacts
    <3> QED BY <3>1, <1>2
  <2>2. CASE ~(i > Height)
    BY <2>2, <1>1
  <2> QED BY <2>1, <2>2
<1> QED BY <1>1, <1>2, <1>3 DEF OwnedInv, ParamsOwned

(* OwnedInv is inductive together with IInv.                               *)
LEMMA NextOwned == ASSUME IInv, OwnedInv, [Next]_vars PROVE OwnedInv'
<1> USE DefineAssumption
<1>0. Height \in Nat /\ define_start \in Nat /\ define_start <= Height
  BY DEF IInv, TypeOK, Height, UnitSoFar, Ptr
<1>1. CASE tcc_new
  BY <1>1, tcc_newOwned
<1>2. CASE Forget \/ (\E u \in Units : Open(u)) \/ UNCHANGED vars
  BY <1>2, NothingPushed DEF Forget, Open, vars, Height
<1>3. CASE tcc_delete
  <2>1. Height' = 0 /\ defining' = defining
    BY <1>0, <1>3, FreeDefinesFacts DEF tcc_delete
  <2> QED BY <2>1, NothingPushed
<1>4. CASE Close
  <2>1. /\ Height' = define_start /\ defining'.params = {}
        /\ \A i \in 1 .. define_start : define_stack'[i] = define_stack[i]
    BY <1>0, <1>4, FreeDefinesFacts DEF Close, NoDefine
  <2> QED BY <2>1, <1>0, NothingPushed
<1>5. CASE Exit
  <2>1. Height' = 0
    BY <1>5 DEF Exit, Height
  <2>2. OwnedInv'
    BY <2>1 DEF OwnedInv, ParamsOwned
  <2> QED BY <2>2
<1>6. CASE \E n \in Tok : parse_define(n)
  <2>1. define_stack' = define_stack /\ defining'.params = {}
    BY <1>6 DEF parse_define
  <2> QED BY <2>1, NothingPushed DEF Height
<1>7. CASE \E n \in Tok : parse_param(n)
  BY <1>7, parse_paramOwned
<1>8. CASE \E n \in Tok : define_undef(n)
  <2>1. PICK n \in Tok : define_undef(n)
    BY <1>8
  <2>2. defining' = defining
    BY <2>1 DEF define_undef
  <2> QED BY <2>1, <2>2, UndefFacts, NothingPushed
<1>9. CASE define_push
  BY <1>9, define_pushOwned
<1> QED BY <1>1, <1>2, <1>3, <1>4, <1>5, <1>6, <1>7, <1>8, <1>9
        DEF Next, EndOfFile, tcc_error

(* No two macros of the stack share a parameter, so that freeing one never *)
(* frees a parameter that another still refers to.                         *)
THEOREM ParametersOwned == Spec => []ParamsOwned
<1>1. Init => OwnedInv
  BY DEF Init, OwnedInv, ParamsOwned, Height
<1>2. IInv /\ OwnedInv /\ [Next]_vars => OwnedInv'
  BY NextOwned
<1>3. OwnedInv => ParamsOwned
  BY DEF OwnedInv
<1> QED BY <1>1, <1>2, <1>3, Invariance, PTL DEF Spec

-----------------------------------------------------------------------------
(* After tcc_delete no name at all is a macro.                             *)
LEMMA tcc_deleteEmpty ==
    ASSUME IInv, tcc_delete PROVE \A n \in Tok : sym_define'[n] = 0
<1>1. \A n \in Tok : sym_define[n] <= 0 => sym_define[n] = 0
  BY DefineAssumption DEF IInv, TypeOK, Ptr
<1>2. 0 <= Height /\ tok_ident' = tok_ident
  BY DEF IInv, TypeOK, Height, tcc_delete
<1> QED BY <1>1, <1>2, FreeDefinesFacts DEF tcc_delete

(* The stack implements the abstract table of macros.                      *)
THEOREM Refinement == Spec => MacroEnvSpec
<1> USE DEF Macros!vars
<1>1. Init => Macros!Init
  BY DEF Init, Macros!Init
<1>2. IInv /\ [Next]_vars => [Macros!Next]_(Macros!vars)
  <2> SUFFICES ASSUME IInv, [Next]_vars PROVE Macros!Next \/ UNCHANGED Macros!vars
    OBVIOUS
  <2> DEFINE env == {n \in Tok : sym_define[n] # 0}
             touched == defined \union undefined
  <2>1. CASE tcc_new
    BY <2>1 DEF tcc_new, Macros!Next, Macros!NewTable
  <2>2. CASE Forget
    BY <2>2 DEF Forget
  <2>3. CASE tcc_delete
    <3>1. \A n \in Tok : sym_define'[n] = 0
      BY <2>3, tcc_deleteEmpty
    <3> QED BY <2>3, <3>1 DEF tcc_delete, Macros!Next, Macros!Wipe
  <2>4. CASE \E u \in Units : Open(u)
    BY <2>4 DEF Open, Macros!Next, Macros!Open, Units, Macros!Units
  <2>5. CASE Close
    <3>1. env' = env \ touched
      BY <2>5, CloseFacts DEF IInv, UnitSoFar, Close
    <3> QED BY <2>5, <3>1 DEF Close, Macros!Next, Macros!Close, Units, Macros!Units
  <2>6. CASE tcc_error /\ ~Close
    BY <2>6 DEF tcc_error, Exit, Macros!Next, Macros!Exit, Units
  <2>7. CASE \E n \in Tok : parse_define(n) \/ parse_param(n)
    BY <2>7 DEF parse_define, parse_param
  <2>8. ASSUME NEW n \in Tok, define_undef(n)
        PROVE Macros!Next
    <3>1. env' = env \ {n}
      BY <2>8 DEF IInv, TypeOK, define_undef, Ptr
    <3>2. touched' = IF mode \in Units THEN touched \union {n} ELSE touched
      BY <2>8 DEF define_undef
    <3>3. Macros!Undef(n)
      BY <2>8, <3>1, <3>2 DEF define_undef, Macros!Undef, Macros!Touch, Units, Macros!Units
    <3> QED BY <3>3 DEF Macros!Next
  <2>9. CASE define_push
    <3>1. PICK n \in Tok : n = defining.v
      BY <2>9 DEF IInv, DefiningOK, define_push
    <3>2. env' = env \union {n}
      BY <2>9, <3>1 DEF IInv, TypeOK, define_push, Ptr, Height
    <3>3. touched' = IF mode \in Units THEN touched \union {n} ELSE touched
      BY <2>9, <3>1 DEF define_push
    <3>4. Macros!Define(n)
      BY <2>9, <3>2, <3>3 DEF define_push, Macros!Define, Macros!Touch, Units, Macros!Units
    <3> QED BY <3>4 DEF Macros!Next
  <2>10. CASE UNCHANGED vars
    BY <2>10 DEF vars
  <2> HIDE DEF env, touched
  <2>11. CASE tcc_error
    BY <2>11, <2>5, <2>6
  <2>12. CASE EndOfFile
    BY <2>12, <2>5 DEF EndOfFile
  <2>13. CASE \E n \in Tok : parse_define(n) \/ parse_param(n) \/ define_undef(n)
    BY <2>13, <2>7, <2>8
  <2> HIDE DEF Macros!vars
  <2> QED BY <2>1, <2>2, <2>3, <2>4, <2>9, <2>10, <2>11, <2>12, <2>13 DEF Next
<1> QED BY <1>1, <1>2, Invariance, PTL DEF Spec, MacroEnvSpec, Macros!Spec
=============================================================================
