--------------------------- MODULE IncludesProofs ---------------------------
(***************************************************************************)
(* Proofs about Includes and EveryLine, for all files, whatever lines they *)
(* consist of, and for all sizes of the two stacks.  The second part is    *)
(* about files that are well formed, the third about the text of a unit.   *)
(***************************************************************************)
EXTENDS EveryLine, StackFacts, SequenceTheorems, TLAPS

(* Only the file at the bottom may be one that is not included.            *)
Included ==
    /\ include_stack # << >> => file.name \in Headers
    /\ \A i \in 1 .. Len(include_stack) : i > 1 => include_stack[i].name \in Headers

IInv == TypeOK /\ IfdefNested /\ Included

-----------------------------------------------------------------------------
(* The line to be processed, and what its directive has.                   *)
LEMMA LineFacts ==
    ASSUME TypeOK, NEW d, At(d)
    PROVE  /\ mode = "read" /\ Here \in Line /\ Here.d = d
           /\ d \in {"define", "undef", "ifdef", "ifndef", "elif"} => Here.m \in Macros
           /\ d = "include" => Here.c \in Types /\ Here.name \in Headers
<1>1. file \in File /\ lines \in [Files -> Seq(Line)] /\ mode = "read"
  BY DEF TypeOK, At
<1>2. file.name \in Files /\ file.pos \in Nat \ {0}
  BY <1>1 DEF File
<1>3. lines[file.name] \in Seq(Line)
  BY <1>1, <1>2
<1>4. file.pos \in 1 .. Len(lines[file.name])
  BY <1>2, <1>3 DEF At, AtEnd, Length
<1>5. Here \in Line /\ Here.d = d
  BY <1>3, <1>4 DEF Here, At
<1>6. \A l \in Line :
         /\ l.d \in {"define", "undef", "ifdef", "ifndef", "elif"} => l.m \in Macros
         /\ l.d = "include" => l.c \in Types /\ l.name \in Headers
  BY DEF Line, Types
<1> QED BY <1>1, <1>5, <1>6

(* A file goes on behind its line, or at a line that ends a branch.        *)
LEMMA AdvanceFacts ==
    ASSUME NEW f \in File, Advance(f)
    PROVE  file' \in File /\ file'.name = f.name /\ file'.ifdef_stack_ptr = f.ifdef_stack_ptr
BY DEF Advance, File

(* preprocess_skip finds a line of the same file, or fails.                *)
LEMMA SkipFacts ==
    ASSUME TypeOK, mode = "read", NEW f \in File, f.name = file.name,
           f.ifdef_stack_ptr = file.ifdef_stack_ptr, Skip(f)
    PROVE  /\ file' \in File /\ file'.name = file.name
           /\ file'.ifdef_stack_ptr = file.ifdef_stack_ptr
           /\ mode' \in {"read", "error"}
<1> DEFINE stops == SkipStops(f.pos + 1)
<1>1. file \in File
  BY DEF TypeOK
<1>2. CASE stops = {}
  BY <1>1, <1>2 DEF Skip
<1>3. CASE stops # {}
  <2> DEFINE q == CHOOSE q \in stops : \A r \in stops : q <= r
  <2>1. file' = [f EXCEPT !.pos = q] /\ UNCHANGED mode
    BY <1>3 DEF Skip
  <2>2. f.pos + 1 \in Nat \ {0}
    BY DEF File
  <2>3. \A r \in stops : r \in Nat \ {0}
    <3>1. Length(file.name) \in Nat
      BY <1>1 DEF TypeOK, File, Length
    <3> QED BY <2>2, <3>1 DEF SkipStops
  <2>4. \E r \in stops : \A s \in stops : r <= s
    <3>1. stops \subseteq Nat
      BY <2>3
    <3> HIDE DEF stops
    <3> QED BY <3>1, <1>3, LeastNat
  <2>5. q \in stops
    BY <2>4
  <2>6. q \in Nat \ {0}
    BY <2>3, <2>5
  <2> HIDE DEF q, stops
  <2> QED BY <2>1, <2>6 DEF File
<1> QED BY <1>2, <1>3

(* test_skip, likewise.                                                    *)
LEMMA TestSkipFacts ==
    ASSUME TypeOK, mode = "read", NEW f \in File, f.name = file.name,
           f.ifdef_stack_ptr = file.ifdef_stack_ptr, NEW c, TestSkip(f, c)
    PROVE  /\ file' \in File /\ file'.name = file.name
           /\ file'.ifdef_stack_ptr = file.ifdef_stack_ptr
           /\ mode' \in {"read", "error"}
<1>1. CASE c % 2 = 1
  BY <1>1, AdvanceFacts DEF TestSkip
<1>2. CASE ~(c % 2 = 1)
  BY <1>2, SkipFacts DEF TestSkip
<1> QED BY <1>1, <1>2

-----------------------------------------------------------------------------
(* What a directive does to the invariant when it stays in its file and    *)
(* the conditionals around the file stay open.                             *)
LEMMA SameFile ==
    ASSUME IInv, mode = "read",
           file' \in File, file'.name = file.name,
           file'.ifdef_stack_ptr = file.ifdef_stack_ptr,
           mode' \in {"read", "error"},
           ifdef_stack' \in Seq(0 .. 3), Len(ifdef_stack') <= IFDEF_STACK_SIZE,
           file.ifdef_stack_ptr <= Len(ifdef_stack'),
           next_tok_flags' \subseteq {"BOF", "ENDIF"}, defined' \subseteq Macros,
           UNCHANGED <<lines, include_stack, cached, units>>
    PROVE  IInv'
<1> USE DEF IInv
<1>1. TypeOK'
  BY DEF TypeOK
<1>2. \A i : Base(i)' = Base(i)
  BY DEF Base
<1>3. IfdefNested'
  BY <1>2 DEF IfdefNested
<1>4. Included'
  BY DEF Included
<1> QED BY <1>1, <1>3, <1>4

(* Text, #define and #undef.                                               *)
LEMMA PlainLines ==
    ASSUME IInv, Text \/ define \/ undef PROVE IInv'
<1>0. TypeOK /\ file \in File /\ defined \subseteq Macros
      /\ ifdef_stack \in Seq(0 .. 3) /\ Len(ifdef_stack) <= IFDEF_STACK_SIZE
      /\ file.ifdef_stack_ptr <= Len(ifdef_stack)
  BY DEF IInv, TypeOK, IfdefNested
<1>1. CASE Text
  <2> USE <1>1 DEF Text
  <2>1. mode = "read"
    BY DEF At
  <2> QED BY <2>1, <1>0, AdvanceFacts, SameFile
<1>2. CASE define
  <2> USE <1>2 DEF define, Directive
  <2>1. mode = "read" /\ Here.m \in Macros
    BY <1>0, LineFacts
  <2> QED BY <2>1, <1>0, AdvanceFacts, SameFile
<1>3. CASE undef
  <2> USE <1>3 DEF undef, Directive
  <2>1. mode = "read"
    BY DEF At
  <2> QED BY <2>1, <1>0, AdvanceFacts, SameFile
<1> QED BY <1>1, <1>2, <1>3

(* A conditional begins: it lies above those of the file.                  *)
LEMMA do_ifIInv ==
    ASSUME IInv, mode = "read", NEW f \in File, f.name = file.name,
           f.ifdef_stack_ptr = file.ifdef_stack_ptr, NEW c \in {0, 1}, do_if(f, c),
           next_tok_flags' = {}, UNCHANGED <<lines, include_stack, cached, defined, units>>
    PROVE  IInv'
<1>0. TypeOK /\ file \in File /\ defined \subseteq Macros
      /\ ifdef_stack \in Seq(0 .. 3) /\ Len(ifdef_stack) <= IFDEF_STACK_SIZE
      /\ file.ifdef_stack_ptr <= Len(ifdef_stack) /\ file.ifdef_stack_ptr \in Nat
      /\ IFDEF_STACK_SIZE \in Nat
  BY IncludeAssumption DEF IInv, TypeOK, IfdefNested, File
<1>1. CASE Len(ifdef_stack) < IFDEF_STACK_SIZE
  <2>1. ifdef_stack' = Append(ifdef_stack, c) /\ TestSkip(f, c)
    BY <1>1 DEF do_if
  <2>2. /\ file' \in File /\ file'.name = file.name
        /\ file'.ifdef_stack_ptr = file.ifdef_stack_ptr
        /\ mode' \in {"read", "error"}
    BY <2>1, <1>0, TestSkipFacts
  <2>3. /\ ifdef_stack' \in Seq(0 .. 3) /\ Len(ifdef_stack') = Len(ifdef_stack) + 1
    BY <2>1, <1>0
  <2>4. Len(ifdef_stack') <= IFDEF_STACK_SIZE /\ file.ifdef_stack_ptr <= Len(ifdef_stack')
    BY <2>3, <1>0, <1>1
  <2> QED BY <2>2, <2>3, <2>4, <1>0, SameFile
<1>2. CASE ~(Len(ifdef_stack) < IFDEF_STACK_SIZE)
  <2>1. mode' = "error" /\ UNCHANGED <<ifdef_stack, file>>
    BY <1>2 DEF do_if
  <2> QED BY <2>1, <1>0, SameFile
<1> QED BY <1>1, <1>2

(* #ifdef and #ifndef.                                                     *)
LEMMA ifIInv ==
    ASSUME IInv, ifdef \/ ifndef PROVE IInv'
<1>0. TypeOK /\ file \in File /\ \A b : Bit(b) \in {0, 1}
  BY DEF IInv, TypeOK, Bit
<1>1. CASE ifdef
  <2> USE <1>1 DEF ifdef, Directive
  <2>1. mode = "read"
    BY DEF At
  <2> QED BY <2>1, <1>0, do_ifIInv
<1>2. CASE ifndef
  <2> USE <1>2 DEF ifndef, Directive
  <2>1. mode = "read" /\ Here.m \in Macros
    BY <1>0, LineFacts
  <2> DEFINE f == IF "BOF" \in next_tok_flags THEN [file EXCEPT !.ifndef_macro = Here.m]
                  ELSE file
             c == Bit(Here.m \notin defined)
  <2>2. f \in File /\ f.name = file.name /\ f.ifdef_stack_ptr = file.ifdef_stack_ptr
    BY <2>1, <1>0 DEF File
  <2>3. do_if(f, c) /\ c \in {0, 1}
    BY <1>0
  <2> HIDE DEF f, c
  <2> QED BY <2>1, <2>2, <2>3, do_ifIInv
<1> QED BY <1>1, <1>2

(* The innermost conditional is one of the values of #if, #elif and #else. *)
LEMMA TopFacts ==
    ASSUME IInv, ifdef_stack # << >>, NEW c \in 0 .. 3, SetTop(c)
    PROVE  /\ ifdef_stack' \in Seq(0 .. 3) /\ Len(ifdef_stack') = Len(ifdef_stack)
<1>1. ifdef_stack \in Seq(0 .. 3)
  BY DEF IInv, TypeOK
<1> QED BY <1>1 DEF SetTop

(* #else and #elif.                                                        *)
LEMMA BranchIInv ==
    ASSUME IInv, else \/ elif PROVE IInv'
<1>0. /\ TypeOK /\ file \in File /\ defined \subseteq Macros
      /\ ifdef_stack \in Seq(0 .. 3) /\ Len(ifdef_stack) <= IFDEF_STACK_SIZE
      /\ file.ifdef_stack_ptr <= Len(ifdef_stack)
      /\ \A b : Bit(b) \in {0, 1}
  BY DEF IInv, TypeOK, IfdefNested, Bit
<1>1. ASSUME mode = "read", UNCHANGED <<lines, include_stack, cached, units, defined>>,
             next_tok_flags' = {}, Fails
      PROVE  IInv'
  BY <1>0, <1>1, SameFile DEF Fails
<1>2. ASSUME mode = "read", UNCHANGED <<lines, include_stack, cached, units, defined>>,
             next_tok_flags' = {}, ifdef_stack # << >>, NEW c \in 0 .. 3, SetTop(c),
             TestSkip(file, c)
      PROVE  IInv'
  <2>1. ifdef_stack' \in Seq(0 .. 3) /\ Len(ifdef_stack') = Len(ifdef_stack)
    BY <1>2, TopFacts
  <2>2. /\ file' \in File /\ file'.name = file.name
        /\ file'.ifdef_stack_ptr = file.ifdef_stack_ptr
        /\ mode' \in {"read", "error"}
    BY <1>0, <1>2, TestSkipFacts
  <2> QED BY <1>0, <1>2, <2>1, <2>2, SameFile
<1>3. ifdef_stack # << >> => Top \in 0 .. 3
  BY <1>0 DEF Top
<1>4. CASE else
  <2> USE <1>4 DEF else, Directive
  <2>1. mode = "read"
    BY DEF At
  <2>2. CASE ifdef_stack = << >> \/ (ifdef_stack # << >> /\ Top >= 2)
    BY <2>1, <2>2, <1>1
  <2>3. CASE ~(ifdef_stack = << >> \/ (ifdef_stack # << >> /\ Top >= 2))
    <3>1. 3 - Top \in 0 .. 3
      BY <2>3, <1>3
    <3> QED BY <2>1, <2>3, <3>1, <1>2
  <2> QED BY <2>2, <2>3
<1>5. CASE elif
  <2> USE <1>5 DEF elif, Directive
  <2>1. mode = "read"
    BY DEF At
  <2>2. CASE ifdef_stack = << >> \/ (ifdef_stack # << >> /\ Top > 1)
    BY <2>1, <2>2, <1>1
  <2>3. CASE ~(ifdef_stack = << >> \/ (ifdef_stack # << >> /\ Top > 1)) /\ Top = 1
    <3>1. Skip(file) /\ UNCHANGED ifdef_stack
      BY <2>3
    <3>2. /\ file' \in File /\ file'.name = file.name
          /\ file'.ifdef_stack_ptr = file.ifdef_stack_ptr
          /\ mode' \in {"read", "error"}
      BY <1>0, <2>1, <3>1, SkipFacts
    <3> QED BY <1>0, <2>1, <3>1, <3>2, SameFile
  <2>4. CASE ~(ifdef_stack = << >> \/ (ifdef_stack # << >> /\ Top > 1)) /\ Top # 1
    <3>1. PICK c : c = Bit(Here.m \in defined) /\ c \in 0 .. 3
      BY <1>0
    <3>2. SetTop(c) /\ TestSkip(file, c)
      BY <2>4, <3>1
    <3> QED BY <2>1, <2>4, <3>1, <3>2, <1>2
  <2> QED BY <2>2, <2>3, <2>4
<1> QED BY <1>4, <1>5

(* #endif closes a conditional of its own file.                            *)
LEMMA endifIInv ==
    ASSUME IInv, endif PROVE IInv'
<1> USE DEF endif
<1>0. /\ TypeOK /\ file \in File /\ defined \subseteq Macros /\ mode = "read"
      /\ ifdef_stack \in Seq(0 .. 3) /\ Len(ifdef_stack) <= IFDEF_STACK_SIZE
      /\ file.ifdef_stack_ptr <= Len(ifdef_stack)
      /\ file.ifdef_stack_ptr \in Nat /\ IFDEF_STACK_SIZE \in Nat
  BY IncludeAssumption DEF IInv, TypeOK, IfdefNested, At, File
<1>1. CASE Len(ifdef_stack) <= file.ifdef_stack_ptr
  <2>1. mode' = "error" /\ next_tok_flags' = {} /\ UNCHANGED <<ifdef_stack, file>>
    BY <1>1
  <2> QED BY <1>0, <2>1, SameFile
<1>2. CASE ~(Len(ifdef_stack) <= file.ifdef_stack_ptr)
  <2>1. ifdef_stack' = SubSeq(ifdef_stack, 1, Len(ifdef_stack) - 1) /\ UNCHANGED mode
    BY <1>2
  <2>2. ifdef_stack' \in Seq(0 .. 3) /\ Len(ifdef_stack') = Len(ifdef_stack) - 1
    <3>1. \A k \in 0 .. Len(ifdef_stack) : /\ SubSeq(ifdef_stack, 1, k) \in Seq(0 .. 3)
                                           /\ Len(SubSeq(ifdef_stack, 1, k)) = k
      BY <1>0
    <3>2. Len(ifdef_stack) - 1 \in 0 .. Len(ifdef_stack)
      BY <1>0, <1>2
    <3> QED BY <2>1, <3>1, <3>2
  <2>3. Len(ifdef_stack') <= IFDEF_STACK_SIZE /\ file.ifdef_stack_ptr <= Len(ifdef_stack')
    BY <2>2, <1>0, <1>2
  <2>4. CASE file.ifndef_macro # NoMacro /\ Len(ifdef_stack') = file.ifdef_stack_ptr
    <3> DEFINE f == [file EXCEPT !.ifndef_macro_saved = file.ifndef_macro,
                                 !.ifndef_macro = NoMacro]
    <3>1. f \in File /\ f.name = file.name /\ f.ifdef_stack_ptr = file.ifdef_stack_ptr
      BY <2>4, <1>0 DEF File
    <3>2. Advance(f) /\ next_tok_flags' = {"ENDIF"}
      BY <2>4, <1>2
    <3> HIDE DEF f
    <3>3. /\ file' \in File /\ file'.name = file.name
          /\ file'.ifdef_stack_ptr = file.ifdef_stack_ptr
      BY <3>1, <3>2, AdvanceFacts
    <3> QED BY <3>2, <3>3, <2>1, <2>2, <2>3, <1>0, SameFile
  <2>5. CASE ~(file.ifndef_macro # NoMacro /\ Len(ifdef_stack') = file.ifdef_stack_ptr)
    <3>1. Advance(file) /\ next_tok_flags' = {}
      BY <2>5, <1>2
    <3>2. /\ file' \in File /\ file'.name = file.name
          /\ file'.ifdef_stack_ptr = file.ifdef_stack_ptr
      BY <3>1, <1>0, AdvanceFacts
    <3> QED BY <3>1, <3>2, <2>1, <2>2, <2>3, <1>0, SameFile
  <2> QED BY <2>4, <2>5
<1> QED BY <1>1, <1>2

-----------------------------------------------------------------------------
(* The file that includes another goes on behind the #include.             *)
LEMMA SuspendedFacts ==
    ASSUME file \in File
    PROVE  /\ Suspended \in File /\ Suspended.name = file.name
           /\ Suspended.ifdef_stack_ptr = file.ifdef_stack_ptr
<1>1. file.pos + 1 \in Nat \ {0}
  BY DEF File
<1> QED BY <1>1 DEF Suspended, File

(* Where a file is left for one it includes, the conditionals of both nest.*)
LEMMA includeIInv ==
    ASSUME IInv, include PROVE IInv'
<1> USE DEF include
<1>0. /\ TypeOK /\ file \in File /\ defined \subseteq Macros /\ mode = "read"
      /\ ifdef_stack \in Seq(0 .. 3) /\ Len(ifdef_stack) <= IFDEF_STACK_SIZE
      /\ file.ifdef_stack_ptr <= Len(ifdef_stack)
      /\ include_stack \in Seq(File)
      /\ Here.c \in Types /\ Here.name \in Headers
      /\ INCLUDE_STACK_SIZE \in Nat
  <2>1. mode = "read" /\ Here.c \in Types /\ Here.name \in Headers
    BY LineFacts DEF IInv
  <2> QED BY <2>1, IncludeAssumption DEF IInv, TypeOK, IfdefNested
<1>1. CASE Skipped(Here.name, Here.c)
  <2>1. Advance(file) /\ next_tok_flags' = {} /\ UNCHANGED <<include_stack, mode>>
    BY <1>1
  <2>2. /\ file' \in File /\ file'.name = file.name
        /\ file'.ifdef_stack_ptr = file.ifdef_stack_ptr
    BY <2>1, <1>0, AdvanceFacts
  <2> QED BY <2>1, <2>2, <1>0, SameFile
<1>2. CASE ~Skipped(Here.name, Here.c) /\ Len(include_stack) < INCLUDE_STACK_SIZE
  <2>0. PICK K \in Nat : K = Len(include_stack)
    BY <1>0
  <2>1. /\ include_stack' = Append(include_stack, Suspended)
        /\ file' = tcc_open(Here.name, Here.c)
        /\ next_tok_flags' = {"BOF"} /\ UNCHANGED mode
    BY <1>2
  <2>2. Suspended \in File /\ Suspended.name = file.name
        /\ Suspended.ifdef_stack_ptr = file.ifdef_stack_ptr
    BY <1>0, SuspendedFacts
  <2>3. file' \in File /\ file'.name \in Headers /\ file'.ifdef_stack_ptr = Len(ifdef_stack)
    BY <2>1, <1>0 DEF tcc_open, File, Files
  <2>4. /\ include_stack' \in Seq(File) /\ K \in Nat /\ Len(include_stack') = K + 1
        /\ include_stack'[K + 1] = Suspended
        /\ \A i \in 1 .. K : include_stack'[i] = include_stack[i]
        /\ 1 .. K + 1 = 1 .. K \union {K + 1}
    BY <2>0, <2>1, <2>2, <1>0
  <2>5. TypeOK'
    BY <2>1, <2>0, <2>3, <2>4, <1>0, <1>2 DEF TypeOK
  <2>6. IfdefNested'
    <3>1. \A i \in 1 .. K + 1 : Base(i)' = Base(i)
      BY <2>0, <2>2, <2>4 DEF Base
    <3>2. Base(K + 2)' = Len(ifdef_stack) /\ Base(K + 1) = file.ifdef_stack_ptr
      BY <2>0, <2>3, <2>4 DEF Base
    <3>3. ASSUME NEW i \in 1 .. K + 1 PROVE Base(i)' <= Base(i + 1)'
      <4>1. CASE i = K + 1
        <5>1. Base(K + 1)' = file.ifdef_stack_ptr /\ (K + 1) + 1 = K + 2
          BY <3>1, <3>2, <2>4
        <5> QED BY <4>1, <5>1, <3>2, <1>0
      <4>2. CASE i \in 1 .. K
        <5>1. i + 1 \in 1 .. K + 1 /\ Base(i) <= Base(i + 1)
          BY <4>2, <2>0, <2>4 DEF IInv, IfdefNested
        <5>2. Base(i + 1)' = Base(i + 1) /\ Base(i)' = Base(i)
          BY <5>1, <3>1
        <5> QED BY <5>1, <5>2
      <4> QED BY <4>1, <4>2, <2>4
    <3>4. Len(ifdef_stack') = Len(ifdef_stack) /\ file'.ifdef_stack_ptr <= Len(ifdef_stack')
      BY <2>3, <1>0
    <3> QED BY <3>3, <3>4, <2>4 DEF IfdefNested
  <2>7. Included'
    <3>1. ASSUME NEW i \in 1 .. K + 1, i > 1 PROVE include_stack'[i].name \in Headers
      <4>1. CASE i = K + 1
        <5>1. include_stack # << >>
          BY <4>1, <3>1, <2>0
        <5> QED BY <4>1, <5>1, <2>0, <2>2, <2>4 DEF IInv, Included
      <4>2. CASE i \in 1 .. K
        BY <4>2, <3>1, <2>0, <2>4 DEF IInv, Included
      <4> QED BY <4>1, <4>2, <2>4
    <3> QED BY <3>1, <2>3, <2>4 DEF Included
  <2> QED BY <2>5, <2>6, <2>7 DEF IInv
<1>3. CASE ~Skipped(Here.name, Here.c) /\ ~(Len(include_stack) < INCLUDE_STACK_SIZE)
  <2>1. /\ mode' \in {"undefined", "error"} /\ next_tok_flags' = {}
        /\ UNCHANGED <<include_stack, file>>
    BY <1>3
  <2>2. TypeOK'
    BY <2>1, <1>0 DEF TypeOK
  <2>3. \A i : Base(i)' = Base(i)
    BY <2>1 DEF Base
  <2>4. IfdefNested' /\ Included'
    BY <2>1, <2>3 DEF IInv, IfdefNested, Included
  <2> QED BY <2>2, <2>4 DEF IInv
<1> QED BY <1>1, <1>2, <1>3

(* At the end of a file its includer goes on, whose conditionals are all   *)
(* open: the file has closed none but its own.                             *)
LEMMA PopIncludeIInv ==
    ASSUME IInv, PopInclude PROVE IInv'
<1> USE DEF PopInclude
<1> DEFINE K == Len(include_stack)
<1>0. /\ TypeOK /\ file \in File /\ file.name \in Headers
      /\ ifdef_stack \in Seq(0 .. 3)
      /\ include_stack \in Seq(File) /\ K \in Nat /\ K \in 1 .. K
  BY DEF IInv, TypeOK, Included
<1>1. Including \in File /\ Including = include_stack[K] /\ file' = Including
  BY <1>0 DEF Including
<1>2. /\ include_stack' \in Seq(File) /\ Len(include_stack') = K - 1
      /\ \A i \in 1 .. K - 1 : include_stack'[i] = include_stack[i]
  <2>1. \A k \in 0 .. K : /\ SubSeq(include_stack, 1, k) \in Seq(File)
                          /\ Len(SubSeq(include_stack, 1, k)) = k
                          /\ \A i \in 1 .. k : SubSeq(include_stack, 1, k)[i] = include_stack[i]
    BY <1>0
  <2>2. K - 1 \in 0 .. K
    BY <1>0
  <2> QED BY <2>1, <2>2
<1>3. cached' \subseteq [type : Types, name : Headers, ifndef_macro : Macros \union {NoMacro}]
  <2>0. cached \subseteq [type : Types, name : Headers, ifndef_macro : Macros \union {NoMacro}]
    BY <1>0 DEF TypeOK
  <2>1. ASSUME NEW m \in Macros \union {NoMacro}, add_cached_include(m)
        PROVE  cached' \subseteq [type : Types, name : Headers,
                                  ifndef_macro : Macros \union {NoMacro}]
    <3>1. file.inc_type \in Types
      BY <1>0 DEF File
    <3> QED BY <2>0, <2>1, <3>1, <1>0 DEF add_cached_include
  <2>2. file.ifndef_macro_saved # Junk => file.ifndef_macro_saved \in Macros
    BY <1>0 DEF File
  <2> QED BY <2>0, <2>1, <2>2
<1>4. TypeOK'
  <2>1. Len(include_stack') <= INCLUDE_STACK_SIZE
    BY <1>0, <1>2, IncludeAssumption DEF TypeOK
  <2> QED BY <2>1, <1>1, <1>2, <1>3, <1>0 DEF TypeOK
<1>5. IfdefNested'
  <2>1. \A i \in 1 .. K : Base(i)' = Base(i)
    BY <1>0, <1>1, <1>2 DEF Base
  <2>2. \A i \in 1 .. K - 1 : i \in 1 .. K /\ i + 1 \in 1 .. K /\ Base(i) <= Base(i + 1)
    BY <1>0 DEF IInv, IfdefNested
  <2>3. file'.ifdef_stack_ptr <= Len(ifdef_stack)
    <3>1. Base(K) <= Base(K + 1)
      BY <1>0 DEF IInv, IfdefNested
    <3>2. Base(K) = file'.ifdef_stack_ptr /\ Base(K + 1) = file.ifdef_stack_ptr
      BY <1>0, <1>1 DEF Base
    <3>3. /\ file.ifdef_stack_ptr \in Nat /\ file'.ifdef_stack_ptr \in Nat
          /\ Len(ifdef_stack) \in Nat /\ file.ifdef_stack_ptr <= Len(ifdef_stack)
      BY <1>0, <1>1 DEF File, IInv, IfdefNested
    <3> QED BY <3>1, <3>2, <3>3
  <2> QED BY <2>1, <2>2, <2>3, <1>2 DEF IfdefNested
<1>6. Included'
  <2>1. \A i \in 1 .. K - 1 : i \in 1 .. K
    BY <1>0
  <2>2. include_stack' # << >> => K > 1
    BY <1>0, <1>2
  <2> QED BY <2>1, <2>2, <1>0, <1>1, <1>2 DEF IInv, Included
<1> QED BY <1>4, <1>5, <1>6 DEF IInv

-----------------------------------------------------------------------------
(* Files, conditionals and the cache: everything read or included keeps    *)
(* its type, and the conditionals of a file lie above those of the files   *)
(* that include it.                                                        *)
THEOREM Invariance == Spec => []IInv
<1>1. Init => IInv
  <2> SUFFICES ASSUME Init PROVE IInv
    OBVIOUS
  <2> USE DEF Init
  <2>1. Start \in File /\ Start.ifdef_stack_ptr = 0
    BY DEF Start, File, Files, Types
  <2>2. TypeOK
    <3>1. lines \in [Files -> Seq(Line)]
      BY IncludeAssumption
    <3> QED BY <2>1, <3>1, IncludeAssumption DEF TypeOK
  <2>3. IfdefNested /\ Included
    BY <2>1 DEF IfdefNested, Included
  <2> QED BY <2>2, <2>3 DEF IInv
<1>2. IInv /\ [Next]_vars => IInv'
  <2> SUFFICES ASSUME IInv, [Next]_vars PROVE IInv'
    OBVIOUS
  <2>1. CASE Text \/ define \/ undef
    BY <2>1, PlainLines
  <2>2. CASE ifdef \/ ifndef
    BY <2>2, ifIInv
  <2>3. CASE else \/ elif
    BY <2>3, BranchIInv
  <2>4. CASE endif
    BY <2>4, endifIInv
  <2>5. CASE include
    BY <2>5, includeIInv
  <2>6. CASE PopInclude
    BY <2>6, PopIncludeIInv
  <2>7. CASE EndOfFile
    <3>1. \A i : Base(i)' = Base(i)
      BY <2>7 DEF EndOfFile, Base
    <3>2. TypeOK'
      BY <2>7 DEF EndOfFile, IInv, TypeOK
    <3> QED BY <2>7, <3>1, <3>2 DEF EndOfFile, IInv, IfdefNested, Included
  <2>8. CASE tcc_compile
    <3>1. Start \in File /\ Start.ifdef_stack_ptr = 0
      BY DEF Start, File, Files, Types
    <3>2. TypeOK'
      BY <2>8, <3>1, IncludeAssumption DEF tcc_compile, IInv, TypeOK
    <3>3. IfdefNested' /\ Included'
      BY <2>8, <3>1 DEF tcc_compile, IfdefNested, Included
    <3> QED BY <3>2, <3>3 DEF IInv
  <2>9. CASE UNCHANGED vars
    <3>1. \A i : Base(i)' = Base(i)
      BY <2>9 DEF vars, Base
    <3>2. TypeOK'
      BY <2>9 DEF vars, IInv, TypeOK
    <3> QED BY <2>9, <3>1, <3>2 DEF vars, IInv, IfdefNested, Included
  <2> QED BY <2>1, <2>2, <2>3, <2>4, <2>5, <2>6, <2>7, <2>8, <2>9 DEF Next
<1> QED BY <1>1, <1>2, PTL DEF Spec

(* Every state of the preprocessor is of its type, the two stacks within   *)
(* their sizes, and only headers are cached.                               *)
THEOREM TypeCorrect == Spec => []TypeOK
<1>1. IInv => TypeOK
  BY DEF IInv
<1> QED BY <1>1, Invariance, PTL

(* A file's #endif never closes a conditional of a file that includes it.  *)
THEOREM ConditionalsNest == Spec => []IfdefNested
<1>1. IInv => IfdefNested
  BY DEF IInv
<1> QED BY <1>1, Invariance, PTL

-----------------------------------------------------------------------------
(* How deep the lines x of a file nest.  Of the lines from p to q - 1,     *)
(* those whose directive is in D; and how many conditionals that begin in  *)
(* the file are open before its line p.                                    *)
Lines(x, D, p, q) == {i \in p .. q - 1 : x[i].d \in D}
Ifs == {"ifdef", "ifndef"}
Level(x, p) == Cardinality(Lines(x, Ifs, 1, p)) - Cardinality(Lines(x, {"endif"}, 1, p))

(* Lines are counted piece by piece.                                       *)
LEMMA LinesSplit ==
    ASSUME NEW x, NEW D, NEW p \in Nat \ {0}, NEW q \in Nat, p <= q
    PROVE  /\ Cardinality(Lines(x, D, 1, p)) \in Nat /\ Cardinality(Lines(x, D, p, q)) \in Nat
           /\ Cardinality(Lines(x, D, 1, q))
                = Cardinality(Lines(x, D, 1, p)) + Cardinality(Lines(x, D, p, q))
<1>1. PICK S, T, U : S = Lines(x, D, 1, p) /\ T = Lines(x, D, p, q) /\ U = Lines(x, D, 1, q)
  OBVIOUS
<1>2. IsFiniteSet(S) /\ IsFiniteSet(T)
  <2>1. IsFiniteSet(1 .. p - 1) /\ IsFiniteSet(p .. q - 1)
    BY FS_Interval
  <2>2. S \in SUBSET (1 .. p - 1) /\ T \in SUBSET (p .. q - 1)
    BY <1>1 DEF Lines
  <2> QED BY <2>1, <2>2, FS_Subset
<1>3. U = S \union T /\ S \intersect T = {}
  BY <1>1 DEF Lines
<1>4. Cardinality(U) = Cardinality(S) + Cardinality(T) - Cardinality({})
  BY <1>2, <1>3, FS_Union
<1>5. Cardinality(S) \in Nat /\ Cardinality(T) \in Nat /\ Cardinality({}) = 0
  BY <1>2, FS_CardinalityType, FS_EmptySet
<1> QED BY <1>1, <1>4, <1>5

(* A conditional opens or closes at its line, and nowhere else.            *)
LEMMA Levels ==
    ASSUME NEW x, NEW p \in Nat \ {0}
    PROVE  /\ Level(x, 1) = 0 /\ Level(x, p) \in Int
           /\ x[p].d \in Ifs => Level(x, p + 1) = Level(x, p) + 1
           /\ x[p].d = "endif" => Level(x, p + 1) = Level(x, p) - 1
           /\ x[p].d \notin Ifs \union {"endif"} => Level(x, p + 1) = Level(x, p)
<1>1. Level(x, 1) = 0
  <2>1. Lines(x, Ifs, 1, 1) = {} /\ Lines(x, {"endif"}, 1, 1) = {}
    BY DEF Lines
  <2>2. Cardinality({}) = 0
    BY FS_EmptySet
  <2> QED BY <2>1, <2>2 DEF Level
<1>2. ASSUME NEW D
      PROVE  /\ x[p].d \in D => Cardinality(Lines(x, D, p, p + 1)) = 1
             /\ x[p].d \notin D => Cardinality(Lines(x, D, p, p + 1)) = 0
  <2>1. p .. (p + 1) - 1 = {p}
    OBVIOUS
  <2>2. CASE x[p].d \in D
    <3>1. Lines(x, D, p, p + 1) = {p}
      BY <2>1, <2>2 DEF Lines
    <3> QED BY <3>1, <2>2, FS_Singleton
  <2>3. CASE x[p].d \notin D
    <3>1. Lines(x, D, p, p + 1) = {}
      BY <2>1, <2>3 DEF Lines
    <3> QED BY <3>1, <2>3, FS_EmptySet
  <2> QED BY <2>2, <2>3
<1>3. ASSUME NEW D
      PROVE  /\ Cardinality(Lines(x, D, 1, p)) \in Nat
             /\ Cardinality(Lines(x, D, 1, p + 1))
                  = Cardinality(Lines(x, D, 1, p)) + Cardinality(Lines(x, D, p, p + 1))
  <2>1. p + 1 \in Nat /\ p <= p + 1
    OBVIOUS
  <2> QED BY <2>1, LinesSplit
<1>4. PICK a, b, c, d :
         /\ a = Cardinality(Lines(x, Ifs, 1, p)) /\ b = Cardinality(Lines(x, {"endif"}, 1, p))
         /\ c = Cardinality(Lines(x, Ifs, p, p + 1))
         /\ d = Cardinality(Lines(x, {"endif"}, p, p + 1))
  OBVIOUS
<1>5. a \in Nat /\ b \in Nat /\ Level(x, p) = a - b /\ Level(x, p + 1) = (a + c) - (b + d)
  BY <1>3, <1>4 DEF Level
<1>6. /\ x[p].d \in Ifs => c = 1
      /\ x[p].d \notin Ifs => c = 0
      /\ x[p].d = "endif" => d = 1
      /\ x[p].d # "endif" => d = 0
  BY <1>2, <1>4
<1>7. x[p].d \in Ifs => x[p].d # "endif"
  BY DEF Ifs
<1> QED BY <1>1, <1>5, <1>6, <1>7

(* As many open as close between p and q if the levels are the same.       *)
LEMMA LevelSame ==
    ASSUME NEW x, NEW p \in Nat \ {0}, NEW q \in Nat \ {0}, p <= q
    PROVE  Cardinality(Lines(x, Ifs, p, q)) = Cardinality(Lines(x, {"endif"}, p, q))
             <=> Level(x, p) = Level(x, q)
<1>1. PICK a, b, c, d :
         /\ a = Cardinality(Lines(x, Ifs, 1, p)) /\ b = Cardinality(Lines(x, {"endif"}, 1, p))
         /\ c = Cardinality(Lines(x, Ifs, p, q)) /\ d = Cardinality(Lines(x, {"endif"}, p, q))
  OBVIOUS
<1>2. /\ a \in Nat /\ b \in Nat /\ c \in Nat /\ d \in Nat
      /\ Cardinality(Lines(x, Ifs, 1, q)) = a + c
      /\ Cardinality(Lines(x, {"endif"}, 1, q)) = b + d
  BY <1>1, LinesSplit
<1>3. Level(x, p) = a - b /\ Level(x, q) = (a + c) - (b + d)
  BY <1>1, <1>2 DEF Level
<1> QED BY <1>1, <1>2, <1>3

(* Where the level sinks below k, there is an #endif at level k.           *)
LEMMA Sinks ==
    ASSUME NEW x, NEW p \in Nat \ {0}, NEW q \in Nat, NEW k \in Int,
           Level(x, p) >= k, NEW u \in p .. q, Level(x, u) < k
    PROVE  \E i \in p .. u - 1 : x[i].d = "endif" /\ Level(x, i) = k
<1> DEFINE I == {v \in p .. q : Level(x, v) < k}
<1>1. I \subseteq Nat /\ u \in I
  OBVIOUS
<1> HIDE DEF I
<1>2. PICK v \in I : \A w \in I : v <= w
  BY <1>1, LeastNat
<1>3. v \in p .. q /\ Level(x, v) < k /\ v <= u
  BY <1>1, <1>2 DEF I
<1>a. v # p
  <2>1. Level(x, p) \in Int
    BY Levels
  <2> QED BY <2>1, <1>3
<1>4. PICK i : i = v - 1
  OBVIOUS
<1>5. i \in p .. u - 1 /\ i \in p .. q /\ i \in Nat \ {0} /\ i + 1 = v /\ ~(v <= i)
  BY <1>3, <1>a, <1>4
<1>6. i \notin I
  BY <1>2, <1>5
<1>7. Level(x, i) \in Int /\ ~(Level(x, i) < k)
  BY <1>5, <1>6, Levels DEF I
<1>8. x[i].d = "endif" /\ Level(x, i + 1) = Level(x, i) - 1
  BY <1>3, <1>5, <1>7, Levels
<1> QED BY <1>3, <1>5, <1>7, <1>8

(* Where it has risen to k, there is the #if that it has risen at.         *)
LEMMA Rises ==
    ASSUME NEW x, NEW a \in Nat \ {0}, NEW p \in Nat, a <= p, NEW k \in Int,
           Level(x, a) < k, Level(x, p) >= k
    PROVE  \E j \in a .. p - 1 :
              /\ x[j].d \in Ifs /\ Level(x, j) = k - 1 /\ Level(x, j + 1) = k
              /\ \A u \in j + 1 .. p : Level(x, u) >= k
<1> DEFINE I == {v \in a .. p : Level(x, v) < k}
<1>1. I \subseteq 0 .. p /\ I # {}
  OBVIOUS
<1> HIDE DEF I
<1>2. PICK j \in I : \A w \in I : w <= j
  BY <1>1, GreatestNat
<1>3. j \in a .. p - 1 /\ j \in Nat \ {0} /\ Level(x, j) < k /\ Level(x, j) \in Int
  <2>1. j \in a .. p /\ Level(x, j) < k
    BY DEF I
  <2>2. j \in Nat \ {0}
    BY <2>1
  <2>3. Level(x, j) \in Int /\ j # p
    BY <2>1, <2>2, Levels
  <2> QED BY <2>1, <2>2, <2>3
<1>4. \A u \in j + 1 .. p : Level(x, u) >= k
  <2> TAKE u \in j + 1 .. p
  <2>1. u \in a .. p /\ ~(u <= j) /\ u \in Nat \ {0}
    BY <1>3
  <2>2. u \notin I /\ Level(x, u) \in Int
    BY <2>1, <1>2, Levels
  <2> QED BY <2>1, <2>2 DEF I
<1>5. Level(x, j + 1) >= k
  <2>1. j + 1 \in j + 1 .. p
    BY <1>3
  <2> QED BY <2>1, <1>4
<1>6. x[j].d \in Ifs /\ Level(x, j) = k - 1 /\ Level(x, j + 1) = k
  BY <1>3, <1>5, Levels
<1> QED BY <1>3, <1>4, <1>6

(* What is left of WellFormed: no level is below 0, a branch is in a       *)
(* conditional and a conditional that is open is closed, and none has      *)
(* another branch after its #else.                                         *)
SameIf(x, r, p) == \A u \in r .. p : Level(x, u) >= Level(x, r)
Matched(x) ==
    /\ \A p \in 1 .. Len(x) + 1 :
          /\ Level(x, p) \in Nat
          /\ Level(x, p) > 0 => \E i \in p .. Len(x) : /\ x[i].d = "endif"
                                                       /\ Level(x, i) = Level(x, p)
    /\ \A p \in 1 .. Len(x) : x[p].d \in {"else", "elif", "endif"} => Level(x, p) > 0
    /\ \A r, p \in 1 .. Len(x) :
          ~ /\ x[r].d = "else" /\ x[p].d \in {"else", "elif"}
            /\ r < p /\ Level(x, r) = Level(x, p) /\ SameIf(x, r, p)

(* Owners, in the words of levels.                                         *)
LEMMA OwnersAre ==
    ASSUME NEW f, NEW x, x = lines[f], NEW i \in Nat \ {0}
    PROVE  Owners(f, i) = {j \in 1 .. i - 1 : x[j].d \in Ifs /\ Level(x, j + 1) = Level(x, i)}
<1>1. \A j : OpensIn(f, j) <=> x[j].d \in Ifs
  BY DEF OpensIn, Ifs
<1>2. ASSUME NEW j \in 1 .. i - 1
      PROVE  Cardinality({k \in j + 1 .. i - 1 : OpensIn(f, k)})
               = Cardinality({k \in j + 1 .. i - 1 : lines[f][k].d = "endif"})
             <=> Level(x, j + 1) = Level(x, i)
  <2>1. PICK S, T : /\ S = {k \in j + 1 .. i - 1 : OpensIn(f, k)}
                    /\ T = {k \in j + 1 .. i - 1 : lines[f][k].d = "endif"}
    OBVIOUS
  <2>2. S = Lines(x, Ifs, j + 1, i) /\ T = Lines(x, {"endif"}, j + 1, i)
    BY <2>1, <1>1 DEF Lines
  <2>3. j + 1 \in Nat \ {0} /\ j + 1 <= i
    OBVIOUS
  <2>4. Cardinality(S) = Cardinality(T) <=> Level(x, j + 1) = Level(x, i)
    BY <2>2, <2>3, LevelSame
  <2> QED BY <2>1, <2>4
<1> QED BY <1>1, <1>2 DEF Owners

(* The owner of a line opens the conditional the line is in.               *)
LEMMA OwnerIs ==
    ASSUME NEW f, NEW x, x = lines[f], NEW i \in Nat \ {0}, Owners(f, i) # {}
    PROVE  LET j == Owner(f, i)
           IN  /\ j \in 1 .. i - 1 /\ x[j].d \in Ifs /\ Level(x, j + 1) = Level(x, i)
               /\ \A u \in j + 1 .. i : Level(x, u) >= Level(x, i)
<1>1. PICK S : S = Owners(f, i)
  OBVIOUS
<1>2. S = {j \in 1 .. i - 1 : x[j].d \in Ifs /\ Level(x, j + 1) = Level(x, i)}
  BY <1>1, OwnersAre
<1>3. S \subseteq 0 .. i /\ S # {}
  BY <1>1, <1>2
<1>4. \E j \in S : \A k \in S : k <= j
  BY <1>3, GreatestNat
<1>5. PICK j : j = Owner(f, i)
  OBVIOUS
<1>6. j \in S /\ \A k \in S : k <= j
  BY <1>1, <1>4, <1>5 DEF Owner
<1>7. j \in 1 .. i - 1 /\ x[j].d \in Ifs /\ Level(x, j + 1) = Level(x, i)
  BY <1>2, <1>6
<1>8. PICK h : h = Level(x, i) /\ h \in Int
  BY Levels
<1>9. ASSUME NEW u \in j + 1 .. i, ~(Level(x, u) >= h) PROVE FALSE
  <2>1. u \in Nat \ {0} /\ u <= i
    BY <1>7, <1>9
  <2>2. Level(x, u) < h /\ Level(x, i) >= h
    BY <2>1, <1>8, <1>9, Levels
  <2>3. PICK k \in u .. i - 1 : x[k].d \in Ifs /\ Level(x, k + 1) = h
    BY <2>1, <2>2, <1>8, Rises
  <2>4. k \in 1 .. i - 1 /\ ~(k <= j)
    BY <2>1, <1>7, <1>9
  <2>5. k \in S
    BY <2>3, <2>4, <1>2, <1>8
  <2> QED BY <2>4, <2>5, <1>6
<1> QED BY <1>5, <1>7, <1>8, <1>9

(* Lines that lie in one conditional have one owner.                       *)
LEMMA OwnerSame ==
    ASSUME NEW f, NEW x, x = lines[f], NEW r \in Nat \ {0}, NEW p \in Nat, r < p,
           Level(x, r) = Level(x, p), SameIf(x, r, p)
    PROVE  Owner(f, r) = Owner(f, p)
<1>1. p \in Nat \ {0} /\ Level(x, r) \in Int
  BY Levels
<1>2. ASSUME NEW j \in r .. p - 1, x[j].d \in Ifs, Level(x, j + 1) = Level(x, p) PROVE FALSE
  <2>1. j \in r .. p /\ j \in Nat \ {0}
    OBVIOUS
  <2>2. Level(x, j) >= Level(x, r)
    BY <2>1 DEF SameIf
  <2>3. Level(x, j + 1) = Level(x, j) + 1 /\ Level(x, j) \in Int
    BY <2>1, <1>2, Levels
  <2> QED BY <2>2, <2>3, <1>1, <1>2
<1>3. \A j : j \in 1 .. p - 1 <=> j \in 1 .. r - 1 \/ j \in r .. p - 1
  OBVIOUS
<1>4. PICK S, T : S = Owners(f, r) /\ T = Owners(f, p)
  OBVIOUS
<1>5. /\ S = {j \in 1 .. r - 1 : x[j].d \in Ifs /\ Level(x, j + 1) = Level(x, r)}
      /\ T = {j \in 1 .. p - 1 : x[j].d \in Ifs /\ Level(x, j + 1) = Level(x, p)}
  BY <1>1, <1>4, OwnersAre
<1>6. S = T
  BY <1>2, <1>3, <1>5
<1> QED BY <1>4, <1>6 DEF Owner

(* A file that is well formed is matched.                                  *)
LEMMA WellFormedMatched ==
    ASSUME NEW f, NEW x, x = lines[f], Len(x) \in Nat, WellFormed(f)
    PROVE  Matched(x)
<1>1. PICK n : n = Len(x) /\ n \in Nat /\ n = Length(f)
  BY DEF Length
<1>2. \A i, D : i \in Of(f, D) <=> i \in 1 .. n /\ x[i].d \in D
  BY <1>1 DEF Of
<1>3. ASSUME NEW i \in 1 .. n, x[i].d \in {"else", "elif", "endif"}
      PROVE  LET j == Owner(f, i)
             IN  /\ j \in 1 .. i - 1 /\ x[j].d \in Ifs /\ Level(x, j + 1) = Level(x, i)
                 /\ \A u \in j + 1 .. i : Level(x, u) >= Level(x, i)
  <2>1. Owners(f, i) # {}
    BY <1>2, <1>3 DEF WellFormed
  <2>2. i \in Nat \ {0}
    OBVIOUS
  <2> QED BY <2>1, <2>2, OwnerIs
<1>4. \A p \in 1 .. n + 1 : p \in Nat \ {0} /\ Level(x, p) \in Int
  BY <1>1, Levels
<1>5. ASSUME NEW p \in 1 .. n + 1, Level(x, p) < 0 PROVE FALSE
  <2> DEFINE I == {v \in 1 .. n + 1 : Level(x, v) < 0}
  <2>1. I \subseteq Nat /\ I # {}
    BY <1>5
  <2> HIDE DEF I
  <2>2. PICK v \in I : \A w \in I : v <= w
    BY <2>1, LeastNat
  <2>3. v \in 1 .. n + 1 /\ Level(x, v) < 0
    BY DEF I
  <2>4. Level(x, 1) >= 0
    <3>1. 1 \in Nat \ {0}
      OBVIOUS
    <3>2. Level(x, 1) = 0
      BY <3>1, Levels
    <3> QED BY <3>2
  <2>5. PICK i \in 1 .. v - 1 : x[i].d = "endif" /\ Level(x, i) = 0
    BY <2>3, <2>4, <1>1, Sinks
  <2>6. PICK j : j = Owner(f, i)
    OBVIOUS
  <2>7. j \in 1 .. i - 1 /\ x[j].d \in Ifs /\ Level(x, j + 1) = 0
    <3>1. i \in 1 .. n
      BY <2>3, <1>1
    <3> QED BY <3>1, <2>5, <2>6, <1>3
  <2>8. j \in 1 .. n + 1 /\ ~(v <= j) /\ j \in Nat \ {0}
    BY <2>3, <2>7, <1>1
  <2>9. Level(x, j) < 0
    BY <2>7, <2>8, <1>4, Levels
  <2>10. j \in I
    BY <2>8, <2>9 DEF I
  <2> QED BY <2>2, <2>8, <2>10
<1>6. ASSUME NEW p \in 1 .. n + 1, Level(x, p) > 0
      PROVE  \E i \in p .. n : x[i].d = "endif" /\ Level(x, i) = Level(x, p)
  <2>1. PICK k \in Int : k = Level(x, p)
    BY <1>4
  <2>2. Level(x, 1) < k
    <3>1. 1 \in Nat \ {0}
      OBVIOUS
    <3>2. Level(x, 1) = 0
      BY <3>1, Levels
    <3> QED BY <3>2, <2>1, <1>6
  <2>3. PICK j \in 1 .. p - 1 : /\ x[j].d \in Ifs /\ Level(x, j + 1) = k
                                /\ \A u \in j + 1 .. p : Level(x, u) >= k
    <3>1. 1 \in Nat \ {0} /\ p \in Nat /\ 1 <= p /\ Level(x, p) >= k
      BY <2>1, <1>1
    <3> QED BY <3>1, <2>2, Rises
  <2>4. PICK i \in 1 .. n : x[i].d = "endif" /\ Owner(f, i) = j
    <3>1. j \in Of(f, {"ifdef", "ifndef"})
      BY <2>3, <1>1, <1>2 DEF Ifs
    <3>2. PICK S : S = {i \in Of(f, {"endif"}) : Owner(f, i) = j}
      OBVIOUS
    <3>3. Cardinality(S) = 1
      BY <3>1, <3>2 DEF WellFormed
    <3>4. S # {}
      BY <3>3, FS_EmptySet
    <3> QED BY <3>2, <3>4, <1>2
  <2>5. j \in 1 .. i - 1 /\ Level(x, j + 1) = Level(x, i)
    BY <2>4, <1>3
  <2>6. Level(x, i) = k
    BY <2>3, <2>5
  <2>7. CASE i < p
    <3>1. i + 1 \in j + 1 .. p /\ i \in Nat \ {0}
      BY <2>5, <2>7, <1>1
    <3>2. Level(x, i + 1) = k - 1
      BY <3>1, <2>4, <2>6, Levels
    <3> QED BY <3>1, <3>2, <2>3
  <2>8. CASE ~(i < p)
    <3>1. i \in p .. n
      BY <2>8, <1>1
    <3> QED BY <3>1, <2>1, <2>4, <2>6
  <2> QED BY <2>7, <2>8
<1>7. ASSUME NEW p \in 1 .. n, x[p].d \in {"else", "elif", "endif"} PROVE Level(x, p) > 0
  <2>1. PICK j : /\ j \in 1 .. p - 1 /\ x[j].d \in Ifs /\ Level(x, j + 1) = Level(x, p)
    BY <1>3, <1>7
  <2>2. j \in 1 .. n + 1 /\ j \in Nat \ {0}
    BY <2>1, <1>1
  <2>3. ~(Level(x, j) < 0) /\ Level(x, j) \in Int
    BY <2>2, <1>4, <1>5
  <2>4. Level(x, j + 1) = Level(x, j) + 1
    BY <2>1, <2>2, Levels
  <2> QED BY <2>1, <2>3, <2>4
<1>8. ASSUME NEW r \in 1 .. n, NEW p \in 1 .. n, x[r].d = "else", x[p].d \in {"else", "elif"},
             r < p, Level(x, r) = Level(x, p), SameIf(x, r, p)
      PROVE  FALSE
  <2>1. Owner(f, r) = Owner(f, p)
    <3>1. r \in Nat \ {0} /\ p \in Nat
      OBVIOUS
    <3> QED BY <3>1, <1>8, OwnerSame
  <2>2. r \in Of(f, {"else"}) /\ p \in Of(f, {"else", "elif"}) /\ p > r
    BY <1>2, <1>8
  <2> QED BY <2>1, <2>2 DEF WellFormed
<1>9. \A p \in 1 .. n + 1 : Level(x, p) \in Nat
  BY <1>4, <1>5
<1> QED BY <1>1, <1>6, <1>7, <1>8, <1>9 DEF Matched

-----------------------------------------------------------------------------
(* Where preprocess_skip may stop, and where it does.                      *)
LEMMA SkipStopsAre ==
    ASSUME NEW x, x = lines[file.name], NEW p \in Nat \ {0}
    PROVE  SkipStops(p) = {q \in p .. Len(x) : /\ x[q].d \in {"else", "elif", "endif"}
                                               /\ Level(x, p) = Level(x, q)}
<1>1. \A i : /\ Opens(i) <=> x[i].d \in Ifs
             /\ Closes(i) <=> x[i].d = "endif"
  BY DEF Opens, Closes, Ifs
<1>2. ASSUME NEW q \in p .. Len(x) PROVE SameLevel(p, q) <=> Level(x, p) = Level(x, q)
  <2>1. PICK S, T : S = {i \in p .. q - 1 : Opens(i)} /\ T = {i \in p .. q - 1 : Closes(i)}
    OBVIOUS
  <2>2. S = Lines(x, Ifs, p, q) /\ T = Lines(x, {"endif"}, p, q)
    BY <2>1, <1>1 DEF Lines
  <2>3. q \in Nat \ {0} /\ p <= q
    OBVIOUS
  <2>4. Cardinality(S) = Cardinality(T) <=> Level(x, p) = Level(x, q)
    BY <2>2, <2>3, LevelSame
  <2> QED BY <2>1, <2>4 DEF SameLevel
<1> QED BY <1>2 DEF SkipStops, Length

(* In a conditional it finds a line, and all before it lie deeper.         *)
LEMMA SkipArrives ==
    ASSUME NEW x, x = lines[file.name], Len(x) \in Nat, Matched(x),
           NEW p \in 1 .. Len(x) + 1, Level(x, p) > 0
    PROVE  /\ SkipStops(p) # {}
           /\ LET n == CHOOSE q \in SkipStops(p) : \A r \in SkipStops(p) : q <= r
              IN  /\ n \in p .. Len(x) /\ Level(x, n) = Level(x, p)
                  /\ \A u \in p .. n : Level(x, u) >= Level(x, p)
<1>1. PICK S : S = SkipStops(p)
  OBVIOUS
<1>2. S = {q \in p .. Len(x) : /\ x[q].d \in {"else", "elif", "endif"}
                               /\ Level(x, p) = Level(x, q)}
  <2>1. p \in Nat \ {0}
    OBVIOUS
  <2> QED BY <2>1, <1>1, SkipStopsAre
<1>3. S # {} /\ S \subseteq Nat
  <2>1. \E i \in p .. Len(x) : x[i].d = "endif" /\ Level(x, i) = Level(x, p)
    BY DEF Matched
  <2> QED BY <2>1, <1>2
<1>4. PICK m : m = CHOOSE q \in S : \A r \in S : q <= r
  OBVIOUS
<1>5. m \in S /\ \A r \in S : m <= r
  <2>1. \E q \in S : \A r \in S : q <= r
    BY <1>3, LeastNat
  <2> QED BY <2>1, <1>4
<1>6. m \in p .. Len(x) /\ Level(x, m) = Level(x, p)
  BY <1>2, <1>5
<1>7. PICK k \in Int : k = Level(x, p)
  BY Levels
<1>8. ASSUME NEW u \in p .. m, ~(Level(x, u) >= k) PROVE FALSE
  <2>1. u \in Nat \ {0} /\ p \in Nat \ {0} /\ m \in Nat
    BY <1>6
  <2>2. Level(x, u) < k /\ Level(x, p) >= k
    BY <2>1, <1>7, <1>8, Levels
  <2>3. PICK i \in p .. u - 1 : x[i].d = "endif" /\ Level(x, i) = k
    BY <2>1, <2>2, Sinks
  <2>4. i \in p .. Len(x) /\ ~(m <= i)
    BY <2>1, <1>6
  <2>5. i \in S
    BY <2>3, <2>4, <1>2, <1>7
  <2> QED BY <2>4, <2>5, <1>5
<1> QED BY <1>1, <1>3, <1>4, <1>6, <1>7, <1>8

(* The conditionals b + 1 .. t of the stack s are those that are open      *)
(* before line p of a file; one whose #else was met has one among the      *)
(* lines it consists of.                                                   *)
HasElse(x, p, k) == \E r \in 1 .. p - 1 : x[r].d = "else" /\ Level(x, r) = k /\ SameIf(x, r, p)
Frame(s, x, p, b, t) ==
    /\ p \in 1 .. Len(x) + 1 /\ t = b + Level(x, p)
    /\ \A i \in b + 1 .. t : s[i] >= 2 => HasElse(x, p, i - b)

(* From line p to line q of one conditional.                               *)
LEMMA FrameMoves ==
    ASSUME NEW x, Len(x) \in Nat, Matched(x), NEW s, NEW z, NEW p, NEW b \in Nat, NEW t, NEW v,
           Frame(s, x, p, b, t), NEW q \in p .. Len(x) + 1, v = b + Level(x, q),
           \A u \in p .. q : Level(x, u) >= Level(x, q),
           \A i \in b + 1 .. v : z[i] = s[i] \/ (z[i] >= 2 => HasElse(x, q, i - b))
    PROVE  Frame(z, x, q, b, v)
<1>1. p \in 1 .. Len(x) + 1 /\ t = b + Level(x, p) /\ q \in 1 .. Len(x) + 1
  BY DEF Frame
<1>2. Level(x, p) \in Nat /\ Level(x, q) \in Nat /\ Level(x, p) >= Level(x, q)
  <2>1. p \in p .. q
    BY <1>1
  <2> QED BY <2>1, <1>1 DEF Matched
<1>3. ASSUME NEW i \in b + 1 .. v, z[i] >= 2 PROVE HasElse(x, q, i - b)
  <2>1. CASE z[i] = s[i]
    <3>1. i \in b + 1 .. t /\ s[i] >= 2
      BY <2>1, <1>1, <1>2, <1>3
    <3>2. PICK r \in 1 .. p - 1 : /\ x[r].d = "else" /\ Level(x, r) = i - b
                                  /\ SameIf(x, r, p)
      BY <3>1 DEF Frame, HasElse
    <3>3. ASSUME NEW u \in r .. q PROVE Level(x, u) >= Level(x, r)
      <4>1. CASE u \in r .. p
        BY <4>1, <3>2 DEF SameIf
      <4>2. CASE u \in p .. q
        <5>1. Level(x, u) >= Level(x, q) /\ Level(x, u) \in Int
          <6>1. u \in Nat \ {0}
            BY <4>2, <1>1
          <6> QED BY <6>1, <4>2, Levels
        <5> QED BY <5>1, <3>2, <1>2
      <4> QED BY <4>1, <4>2, <1>1
    <3>4. r \in 1 .. q - 1
      BY <1>1
    <3> QED BY <3>2, <3>3, <3>4 DEF HasElse, SameIf
  <2>2. CASE ~(z[i] = s[i])
    BY <2>2, <1>3
  <2> QED BY <2>1, <2>2
<1> QED BY <1>1, <1>3 DEF Frame

(* #ifdef and #ifndef: one more.                                           *)
LEMMA FrameOpens ==
    ASSUME NEW x, Len(x) \in Nat, Matched(x), NEW s, NEW z, NEW p, NEW b \in Nat, NEW t,
           Frame(s, x, p, b, t), p <= Len(x), x[p].d \in Ifs,
           \A i \in b + 1 .. t : z[i] = s[i], ~(z[t + 1] >= 2)
    PROVE  Frame(z, x, p + 1, b, t + 1) /\ Level(x, p + 1) > 0
<1>1. p \in 1 .. Len(x) /\ t = b + Level(x, p) /\ p \in 1 .. Len(x) + 1 /\ p \in Nat \ {0}
  BY DEF Frame
<1>2. Level(x, p) \in Nat /\ Level(x, p + 1) = Level(x, p) + 1
  BY <1>1, Levels DEF Matched
<1>3. ASSUME NEW i \in b + 1 .. t + 1, z[i] >= 2 PROVE HasElse(x, p + 1, i - b)
  <2>1. i \in b + 1 .. t
    <3>1. i # t + 1
      BY <1>3
    <3> QED BY <3>1, <1>1, <1>2
  <2>2. PICK r \in 1 .. p - 1 : x[r].d = "else" /\ Level(x, r) = i - b /\ SameIf(x, r, p)
    BY <2>1, <1>3 DEF Frame, HasElse
  <2>3. ASSUME NEW u \in r .. p + 1 PROVE Level(x, u) >= Level(x, r)
    <3>1. CASE u = p + 1
      <4>1. p \in r .. p
        BY <1>1
      <4>2. Level(x, p) >= Level(x, r)
        BY <4>1, <2>2 DEF SameIf
      <4> QED BY <4>2, <3>1, <1>2, <2>2
    <3>2. CASE u # p + 1
      <4>1. u \in r .. p
        BY <3>2, <1>1
      <4> QED BY <4>1, <2>2 DEF SameIf
    <3> QED BY <3>1, <3>2
  <2>4. r \in 1 .. (p + 1) - 1
    BY <1>1
  <2> QED BY <2>2, <2>3, <2>4 DEF HasElse, SameIf
<1> QED BY <1>1, <1>2, <1>3 DEF Frame

(* A line that is no conditional.                                          *)
LEMMA FrameNext ==
    ASSUME NEW x, Len(x) \in Nat, Matched(x), NEW s, NEW z, NEW p, NEW b \in Nat, NEW t,
           Frame(s, x, p, b, t), p <= Len(x), x[p].d \notin Ifs \union {"endif"},
           \A i \in b + 1 .. t : z[i] = s[i] \/ (z[i] >= 2 => HasElse(x, p + 1, i - b))
    PROVE  Frame(z, x, p + 1, b, t)
<1>1. p \in Nat \ {0} /\ p + 1 \in p .. Len(x) + 1 /\ t = b + Level(x, p)
  BY DEF Frame
<1>2. Level(x, p + 1) = Level(x, p) /\ Level(x, p) \in Int
  BY <1>1, Levels
<1>3. \A u \in p .. p + 1 : u = p \/ u = p + 1
  BY <1>1
<1>4. \A u \in p .. p + 1 : Level(x, u) >= Level(x, p + 1)
  BY <1>2, <1>3
<1> QED BY <1>1, <1>2, <1>4, FrameMoves

(* Before the first line of a file none of its conditionals is open.       *)
LEMMA FrameStarts ==
    ASSUME NEW x, Len(x) \in Nat, NEW s, NEW b \in Nat
    PROVE  Frame(s, x, 1, b, b)
<1>1. 1 \in Nat \ {0} /\ 1 \in 1 .. Len(x) + 1
  OBVIOUS
<1>2. Level(x, 1) = 0
  BY <1>1, Levels
<1> QED BY <1>1, <1>2 DEF Frame

(* Nor behind its last.                                                    *)
LEMMA FrameEnds ==
    ASSUME NEW x, Len(x) \in Nat, Matched(x), NEW s, NEW p, NEW b \in Nat, NEW t,
           Frame(s, x, p, b, t), p > Len(x)
    PROVE  t = b
<1>1. p = Len(x) + 1 /\ p \in 1 .. Len(x) + 1 /\ t = b + Level(x, p)
  BY DEF Frame
<1>2. Level(x, p) \in Nat /\ ~(Level(x, p) > 0)
  <2>1. \A i : i \notin p .. Len(x)
    BY <1>1
  <2> QED BY <2>1, <1>1 DEF Matched
<1> QED BY <1>1, <1>2

(* From an #ifdef, #else or #elif of a conditional to another of its lines.*)
LEMMA SkipFrame ==
    ASSUME NEW x, x = lines[file.name], Len(x) \in Nat, Matched(x), NEW z, NEW b \in Nat, NEW t,
           NEW f \in File, f.name = file.name, f.pos = file.pos,
           Frame(z, x, file.pos + 1, b, t), Level(x, file.pos + 1) > 0, Skip(f)
    PROVE  mode' = mode /\ Frame(z, x, file'.pos, b, t)
<1>1. PICK p : p = f.pos + 1 /\ p = file.pos + 1
  OBVIOUS
<1>2. p \in 1 .. Len(x) + 1 /\ t = b + Level(x, p) /\ Level(x, p) > 0
  BY <1>1 DEF Frame
<1>3. PICK n : n = CHOOSE q \in SkipStops(p) : \A r \in SkipStops(p) : q <= r
  OBVIOUS
<1>4. /\ SkipStops(p) # {} /\ n \in p .. Len(x) /\ Level(x, n) = Level(x, p)
      /\ \A u \in p .. n : Level(x, u) >= Level(x, p)
  BY <1>2, <1>3, SkipArrives
<1>5. file' = [f EXCEPT !.pos = n] /\ mode' = mode
  BY <1>1, <1>3, <1>4 DEF Skip
<1>6. file'.pos = n
  BY <1>5 DEF File
<1>7. n \in p .. Len(x) + 1
  BY <1>2, <1>4
<1>8. Frame(z, x, n, b, t)
  BY <1>1, <1>2, <1>4, <1>7, FrameMoves
<1> QED BY <1>5, <1>6, <1>8

(* test_skip, likewise.                                                    *)
LEMMA TestSkipFrame ==
    ASSUME NEW x, x = lines[file.name], Len(x) \in Nat, Matched(x), NEW z, NEW b \in Nat, NEW t,
           NEW f \in File, f.name = file.name, f.pos = file.pos,
           Frame(z, x, file.pos + 1, b, t), Level(x, file.pos + 1) > 0,
           NEW c, TestSkip(f, c)
    PROVE  mode' = mode /\ Frame(z, x, file'.pos, b, t)
<1>1. CASE c % 2 = 1
  <2>1. Advance(f) /\ mode' = mode
    BY <1>1 DEF TestSkip
  <2>2. file'.pos = file.pos + 1
    BY <2>1 DEF Advance, File
  <2> QED BY <2>1, <2>2
<1>2. CASE ~(c % 2 = 1)
  BY <1>2, SkipFrame DEF TestSkip
<1> QED BY <1>1, <1>2

-----------------------------------------------------------------------------
(* Each file that is being read, the suspended ones too, has its own       *)
(* conditionals on the stack, and a unit is refused at a full stack only.  *)
Framed ==
    /\ \A i \in 1 .. Len(include_stack) :
          Frame(ifdef_stack, lines[include_stack[i].name], include_stack[i].pos,
                Base(i), Base(i + 1))
    /\ Frame(ifdef_stack, lines[file.name], file.pos, file.ifdef_stack_ptr, Len(ifdef_stack))
Full == \/ Len(include_stack) = INCLUDE_STACK_SIZE
        \/ Len(ifdef_stack) = IFDEF_STACK_SIZE
NInv == AllWellFormed => Framed /\ (mode = "error" => Full)

(* No file that is being read has conditionals above those of the last.    *)
LEMMA BasesBelow ==
    ASSUME IInv
    PROVE  /\ Len(include_stack) \in Nat /\ file.ifdef_stack_ptr \in Nat
           /\ \A i \in 1 .. Len(include_stack) + 1 :
                 Base(i) \in Nat /\ Base(i) <= file.ifdef_stack_ptr
<1>1. PICK K \in Nat : K = Len(include_stack)
  BY DEF IInv, TypeOK
<1>2. /\ include_stack \in Seq(File) /\ file \in File
      /\ \A i \in 1 .. K : Base(i) <= Base(i + 1)
  BY <1>1 DEF IInv, TypeOK, IfdefNested
<1>3. \A i \in 1 .. K : include_stack[i] \in File
  BY <1>1, <1>2
<1>4. \A i \in 1 .. K + 1 : Base(i) \in Nat
  BY <1>1, <1>2, <1>3 DEF Base, File
<1>5. Base(K + 1) = file.ifdef_stack_ptr
  BY <1>1 DEF Base
<1>6. ASSUME NEW i \in 1 .. K + 1, Base(i) > Base(K + 1) PROVE FALSE
  <2> DEFINE I == {j \in 1 .. K + 1 : Base(j) > Base(K + 1)}
  <2>1. I \subseteq 0 .. K + 1 /\ I # {} /\ K + 1 \in Nat
    BY <1>6
  <2> HIDE DEF I
  <2>2. PICK j \in I : \A m \in I : m <= j
    BY <2>1, GreatestNat
  <2>3. j \in 1 .. K + 1 /\ Base(j) > Base(K + 1)
    BY DEF I
  <2>4. j # K + 1 /\ j \in 1 .. K /\ j + 1 \in 1 .. K + 1 /\ K + 1 \in 1 .. K + 1
    BY <2>3, <1>4
  <2>5. Base(j + 1) > Base(K + 1)
    BY <2>3, <2>4, <1>2, <1>4
  <2>6. j + 1 \in I
    BY <2>4, <2>5 DEF I
  <2> QED BY <2>2, <2>4, <2>6
<1>7. \A i \in 1 .. K + 1 : Base(i) <= Base(K + 1)
  <2>1. K + 1 \in 1 .. K + 1
    OBVIOUS
  <2> QED BY <2>1, <1>4, <1>6
<1>8. file.ifdef_stack_ptr \in Nat
  BY <1>2 DEF File
<1> QED BY <1>1, <1>4, <1>5, <1>7, <1>8

(* The stack below the conditionals of a file is that of its includers.    *)
LEMMA FrameSame ==
    ASSUME NEW x, NEW s, NEW z, NEW p, NEW b \in Nat, NEW t \in Nat,
           Frame(s, x, p, b, t), \A i \in 1 .. t : z[i] = s[i]
    PROVE  Frame(z, x, p, b, t)
<1>1. \A i \in b + 1 .. t : i \in 1 .. t
  OBVIOUS
<1> QED BY <1>1 DEF Frame

(* What a directive that stays in its file has to keep.                    *)
LEMMA SameFileFrames ==
    ASSUME IInv, AllWellFormed, Framed,
           file'.name = file.name, file'.ifdef_stack_ptr = file.ifdef_stack_ptr,
           UNCHANGED <<lines, include_stack>>,
           \A i \in 1 .. file.ifdef_stack_ptr : ifdef_stack'[i] = ifdef_stack[i],
           Frame(ifdef_stack', lines[file.name], file'.pos, file.ifdef_stack_ptr,
                 Len(ifdef_stack')),
           mode' = "error" => Full'
    PROVE  NInv'
<1>1. \A i : Base(i)' = Base(i)
  BY DEF Base
<1>2. ASSUME NEW i \in 1 .. Len(include_stack)
      PROVE  Frame(ifdef_stack', lines[include_stack[i].name], include_stack[i].pos,
                   Base(i), Base(i + 1))
  <2>1. i \in 1 .. Len(include_stack) + 1 /\ i + 1 \in 1 .. Len(include_stack) + 1
    BY BasesBelow
  <2>2. PICK b, t : b = Base(i) /\ t = Base(i + 1)
    OBVIOUS
  <2>3. b \in Nat /\ t \in Nat /\ t <= file.ifdef_stack_ptr /\ file.ifdef_stack_ptr \in Nat
    BY <2>1, <2>2, BasesBelow
  <2>4. \A j \in 1 .. t : ifdef_stack'[j] = ifdef_stack[j]
    BY <2>3
  <2>5. Frame(ifdef_stack, lines[include_stack[i].name], include_stack[i].pos, b, t)
    BY <2>2 DEF Framed
  <2>6. PICK x, p, s, z : /\ x = lines[include_stack[i].name] /\ p = include_stack[i].pos
                          /\ s = ifdef_stack /\ z = ifdef_stack'
    OBVIOUS
  <2>7. Frame(z, x, p, b, t)
    BY <2>3, <2>4, <2>5, <2>6, FrameSame
  <2> QED BY <2>2, <2>6, <2>7
<1>3. Framed'
  BY <1>1, <1>2 DEF Framed
<1> QED BY <1>3 DEF NInv

(* The line that is processed, in a file that is matched.                  *)
LEMMA NowFacts ==
    ASSUME IInv, NInv, AllWellFormed
    PROVE  LET x == lines[file.name] IN
           /\ Framed /\ file \in File /\ Len(x) \in Nat /\ Matched(x)
           /\ file.ifdef_stack_ptr \in Nat /\ ifdef_stack \in Seq(0 .. 3)
           /\ Len(ifdef_stack) \in Nat /\ file.ifdef_stack_ptr <= Len(ifdef_stack)
           /\ Frame(ifdef_stack, x, file.pos, file.ifdef_stack_ptr, Len(ifdef_stack))
           /\ \A d : At(d) => mode = "read" /\ file.pos <= Len(x) /\ x[file.pos].d = d
<1>1. PICK x : x = lines[file.name]
  OBVIOUS
<1>2. file \in File /\ ifdef_stack \in Seq(0 .. 3) /\ file.ifdef_stack_ptr <= Len(ifdef_stack)
  BY DEF IInv, TypeOK, IfdefNested
<1>3. file.name \in Files /\ file.pos \in Nat /\ file.ifdef_stack_ptr \in Nat
  BY <1>2 DEF File
<1>4. Len(x) \in Nat
  BY <1>1, <1>3 DEF IInv, TypeOK
<1>5. Matched(x)
  BY <1>1, <1>3, <1>4, WellFormedMatched DEF AllWellFormed
<1>6. \A d : At(d) => mode = "read" /\ file.pos <= Len(x) /\ x[file.pos].d = d
  BY <1>1, <1>3, <1>4 DEF At, AtEnd, Length, Here
<1>7. Len(ifdef_stack) \in Nat
  BY <1>2
<1>8. Framed /\ Frame(ifdef_stack, x, file.pos, file.ifdef_stack_ptr, Len(ifdef_stack))
  BY <1>1 DEF NInv, Framed
<1> QED BY <1>1, <1>2, <1>3, <1>4, <1>5, <1>6, <1>7, <1>8

-----------------------------------------------------------------------------
(* The files do not change.                                                *)
LEMMA WellFormedKept ==
    ASSUME UNCHANGED lines PROVE AllWellFormed' <=> AllWellFormed
BY DEF AllWellFormed, WellFormed, Owners, OpensIn, Owner, Of, Length

(* Text, #define and #undef belong to no conditional.                      *)
LEMMA PlainNInv ==
    ASSUME IInv, NInv, Text \/ define \/ undef PROVE NInv'
<1> SUFFICES ASSUME AllWellFormed PROVE NInv'
  <2>1. UNCHANGED lines
    BY DEF Text, define, undef, Directive
  <2> QED BY <2>1, WellFormedKept DEF NInv
<1>1. PICK x, b, t : x = lines[file.name] /\ b = file.ifdef_stack_ptr /\ t = Len(ifdef_stack)
  OBVIOUS
<1>2. /\ Framed /\ file \in File /\ Len(x) \in Nat /\ Matched(x) /\ b \in Nat
      /\ Frame(ifdef_stack, x, file.pos, b, t)
      /\ \A d : At(d) => mode = "read" /\ file.pos <= Len(x) /\ x[file.pos].d = d
  BY <1>1, NowFacts
<1>3. /\ \E d \in {"text", "define", "undef"} : At(d)
      /\ Advance(file) /\ UNCHANGED <<lines, include_stack, ifdef_stack, mode>>
  BY DEF Text, define, undef, Directive
<1>4. file.pos <= Len(x) /\ x[file.pos].d \notin Ifs \union {"endif"} /\ mode' # "error"
  BY <1>2, <1>3 DEF Ifs
<1>5. Frame(ifdef_stack, x, file.pos + 1, b, t)
  BY <1>2, <1>4, FrameNext
<1>6. /\ file'.name = file.name /\ file'.ifdef_stack_ptr = file.ifdef_stack_ptr
      /\ file'.pos = file.pos + 1
  BY <1>2, <1>3 DEF Advance, File
<1> QED BY <1>1, <1>2, <1>3, <1>4, <1>5, <1>6, SameFileFrames

(* A conditional begins.                                                   *)
LEMMA do_ifNInv ==
    ASSUME IInv, NInv, AllWellFormed, NEW d \in Ifs, At(d),
           NEW f \in File, f.name = file.name, f.pos = file.pos,
           f.ifdef_stack_ptr = file.ifdef_stack_ptr,
           NEW c \in {0, 1}, do_if(f, c), UNCHANGED <<lines, include_stack>>
    PROVE  NInv'
<1>1. PICK x, b, t : x = lines[file.name] /\ b = file.ifdef_stack_ptr /\ t = Len(ifdef_stack)
  OBVIOUS
<1>2. /\ Framed /\ file \in File /\ Len(x) \in Nat /\ Matched(x) /\ b \in Nat /\ t \in Nat
      /\ b <= t /\ ifdef_stack \in Seq(0 .. 3)
      /\ Frame(ifdef_stack, x, file.pos, b, t)
      /\ mode = "read" /\ file.pos <= Len(x) /\ x[file.pos].d = d
  BY <1>1, NowFacts
<1>3. CASE t < IFDEF_STACK_SIZE
  <2>1. ifdef_stack' = Append(ifdef_stack, c) /\ TestSkip(f, c)
    BY <1>1, <1>3 DEF do_if
  <2>2. /\ Len(ifdef_stack') = t + 1 /\ ifdef_stack'[t + 1] = c
        /\ \A i \in 1 .. t : ifdef_stack'[i] = ifdef_stack[i]
    BY <1>1, <1>2, <2>1
  <2>3. PICK z : z = ifdef_stack'
    OBVIOUS
  <2>4. ~(z[t + 1] >= 2) /\ \A i \in b + 1 .. t : z[i] = ifdef_stack[i]
    BY <1>2, <2>2, <2>3
  <2>5. Frame(z, x, file.pos + 1, b, t + 1) /\ Level(x, file.pos + 1) > 0
    BY <1>2, <2>4, FrameOpens
  <2>6. mode' = mode /\ Frame(z, x, file'.pos, b, t + 1)
    BY <1>1, <1>2, <2>1, <2>5, TestSkipFrame
  <2>7. file'.name = file.name /\ file'.ifdef_stack_ptr = file.ifdef_stack_ptr
    BY <1>2, <2>1, TestSkipFacts DEF IInv
  <2>8. \A i \in 1 .. b : ifdef_stack'[i] = ifdef_stack[i]
    BY <1>2, <2>2
  <2> QED BY <1>1, <1>2, <2>2, <2>3, <2>6, <2>7, <2>8, SameFileFrames
<1>4. CASE ~(t < IFDEF_STACK_SIZE)
  <2>1. UNCHANGED <<ifdef_stack, file>>
    BY <1>1, <1>4 DEF do_if
  <2>2. t = IFDEF_STACK_SIZE
    BY <1>1, <1>2, <1>4, IncludeAssumption DEF IInv, TypeOK
  <2>3. Full'
    BY <1>1, <2>1, <2>2 DEF Full
  <2> QED BY <1>1, <1>2, <2>1, <2>3, SameFileFrames
<1> QED BY <1>3, <1>4

(* By #ifdef or #ifndef.                                                   *)
LEMMA ifNInv ==
    ASSUME IInv, NInv, ifdef \/ ifndef PROVE NInv'
<1> SUFFICES ASSUME AllWellFormed PROVE NInv'
  <2>1. UNCHANGED lines
    BY DEF ifdef, ifndef, Directive
  <2> QED BY <2>1, WellFormedKept DEF NInv
<1>0. file \in File /\ \A e : Bit(e) \in {0, 1}
  BY DEF IInv, TypeOK, Bit
<1>1. CASE ifdef
  <2>1. At("ifdef") /\ "ifdef" \in Ifs /\ UNCHANGED <<lines, include_stack>>
    BY <1>1 DEF ifdef, Directive, Ifs
  <2>2. PICK c \in {0, 1} : do_if(file, c)
    BY <1>0, <1>1 DEF ifdef
  <2> QED BY <2>1, <2>2, <1>0, do_ifNInv
<1>2. CASE ifndef
  <2>1. At("ifndef") /\ "ifndef" \in Ifs /\ UNCHANGED <<lines, include_stack>>
    BY <1>2 DEF ifndef, Directive, Ifs
  <2>2. Here.m \in Macros
    BY <2>1, LineFacts DEF IInv
  <2> DEFINE f == IF "BOF" \in next_tok_flags THEN [file EXCEPT !.ifndef_macro = Here.m]
                  ELSE file
  <2>3. /\ f \in File /\ f.name = file.name /\ f.pos = file.pos
        /\ f.ifdef_stack_ptr = file.ifdef_stack_ptr
    BY <1>0, <2>2 DEF File
  <2>4. PICK c \in {0, 1} : do_if(f, c)
    BY <1>0, <1>2 DEF ifndef
  <2> HIDE DEF f
  <2> QED BY <2>1, <2>3, <2>4, do_ifNInv
<1> QED BY <1>1, <1>2

(* In a conditional of the file a branch that has no #else before it goes  *)
(* on, or is skipped to the next.                                          *)
LEMMA BranchNInv ==
    ASSUME IInv, NInv, else \/ elif PROVE NInv'
<1> SUFFICES ASSUME AllWellFormed PROVE NInv'
  <2>1. UNCHANGED lines
    BY DEF else, elif, Directive
  <2> QED BY <2>1, WellFormedKept DEF NInv
<1>1. PICK x, b, t, p, s :
         /\ x = lines[file.name] /\ b = file.ifdef_stack_ptr /\ t = Len(ifdef_stack)
         /\ p = file.pos /\ s = ifdef_stack
  OBVIOUS
<1>2. PICK d \in {"else", "elif"} : At(d) /\ UNCHANGED <<lines, include_stack>>
  BY DEF else, elif, Directive
<1>3. /\ Framed /\ file \in File /\ Len(x) \in Nat /\ Matched(x) /\ b \in Nat /\ t \in Nat
      /\ b <= t /\ s \in Seq(0 .. 3) /\ Frame(s, x, p, b, t)
      /\ mode = "read" /\ p <= Len(x) /\ x[p].d = d
  BY <1>1, <1>2, NowFacts
<1>4. p \in 1 .. Len(x) /\ p \in Nat \ {0} /\ t = b + Level(x, p)
  BY <1>3 DEF Frame
<1>5. Level(x, p) > 0 /\ Level(x, p) \in Nat /\ Level(x, p + 1) = Level(x, p)
  <2>1. Level(x, p) > 0
    BY <1>3, <1>4 DEF Matched
  <2>2. p \in 1 .. Len(x) + 1
    BY <1>3, <1>4
  <2>3. Level(x, p) \in Nat
    BY <2>2, <1>3 DEF Matched
  <2>4. x[p].d \notin Ifs \union {"endif"}
    BY <1>3 DEF Ifs
  <2> QED BY <2>1, <2>3, <2>4, <1>4, Levels
<1>6. b < t /\ t \in 1 .. t /\ s # << >> /\ Top = s[t] /\ Top \in 0 .. 3
  <2>1. b < t /\ t \in 1 .. t
    BY <1>3, <1>4, <1>5
  <2>2. s # << >> /\ s[t] \in 0 .. 3
    BY <2>1, <1>1, <1>3
  <2> QED BY <2>1, <2>2, <1>1 DEF Top
<1>7. ~(Top >= 2)
  <2> SUFFICES ASSUME Top >= 2 PROVE FALSE
    OBVIOUS
  <2>1. t \in b + 1 .. t /\ t - b = Level(x, p)
    BY <1>3, <1>4, <1>5, <1>6
  <2>2. HasElse(x, p, Level(x, p))
    BY <2>1, <1>3, <1>6 DEF Frame
  <2>3. PICK r \in 1 .. p - 1 : /\ x[r].d = "else" /\ Level(x, r) = Level(x, p)
                                /\ SameIf(x, r, p)
    BY <2>2 DEF HasElse
  <2>4. r \in 1 .. Len(x) /\ r < p
    BY <2>3, <1>3, <1>4
  <2> QED BY <2>3, <2>4, <1>3, <1>4 DEF Matched
<1>8. p \in p .. p + 1 /\ \A u \in p .. p + 1 : Level(x, u) >= Level(x, p)
  <2>1. \A u \in p .. p + 1 : u = p \/ u = p + 1
    BY <1>4
  <2> QED BY <2>1, <1>4, <1>5
<1>9. x[p].d \notin Ifs \union {"endif"}
  BY <1>3 DEF Ifs
<1>10. ASSUME NEW c \in 0 .. 3, SetTop(c), TestSkip(file, c), c >= 2 => d = "else"
       PROVE  NInv'
  <2>1. PICK z : z = ifdef_stack'
    OBVIOUS
  <2>2. Len(z) = t /\ z[t] = c /\ \A i \in 1 .. t - 1 : z[i] = s[i]
    BY <2>1, <1>1, <1>3, <1>6, <1>10 DEF SetTop
  <2>3. ASSUME NEW i \in b + 1 .. t
        PROVE  z[i] = s[i] \/ (z[i] >= 2 => HasElse(x, p + 1, i - b))
    <3>1. CASE i = t
      <4>1. ASSUME z[t] >= 2 PROVE HasElse(x, p + 1, t - b)
        <5>1. x[p].d = "else"
          BY <4>1, <2>2, <1>3, <1>10
        <5>2. p \in 1 .. (p + 1) - 1 /\ Level(x, p) = t - b
          BY <1>3, <1>4, <1>5
        <5> QED BY <5>1, <5>2, <1>8 DEF HasElse, SameIf
      <4> QED BY <4>1, <3>1
    <3>2. CASE i # t
      <4>1. i \in 1 .. t - 1
        BY <3>2, <1>3
      <4> QED BY <4>1, <2>2
    <3> QED BY <3>1, <3>2
  <2>4. Frame(z, x, p + 1, b, t)
    BY <2>3, <1>3, <1>9, FrameNext
  <2>5. mode' = mode /\ Frame(z, x, file'.pos, b, t)
    BY <2>4, <1>1, <1>3, <1>5, <1>10, TestSkipFrame
  <2>6. file'.name = file.name /\ file'.ifdef_stack_ptr = file.ifdef_stack_ptr
    BY <1>3, <1>10, TestSkipFacts DEF IInv
  <2>7. \A i \in 1 .. b : ifdef_stack'[i] = ifdef_stack[i]
    <3>1. \A i \in 1 .. b : i \in 1 .. t - 1
      BY <1>3, <1>6
    <3> QED BY <3>1, <2>1, <2>2, <1>1
  <2> QED BY <1>1, <1>2, <1>3, <2>1, <2>2, <2>5, <2>6, <2>7, SameFileFrames
<1>11. CASE else
  <2>1. SetTop(3 - Top) /\ TestSkip(file, 3 - Top)
    BY <1>1, <1>6, <1>7, <1>11 DEF else
  <2>2. 3 - Top \in 0 .. 3 /\ d = "else"
    <3>1. At("else")
      BY <1>11 DEF else, Directive
    <3> QED BY <3>1, <1>2, <1>6 DEF At
  <2>3. PICK c \in 0 .. 3 : c = 3 - Top
    BY <2>2
  <2> QED BY <2>1, <2>2, <2>3, <1>10
<1>12. CASE elif
  <2>1. CASE Top = 1
    <3>1. Skip(file) /\ UNCHANGED ifdef_stack
      BY <2>1, <1>1, <1>6, <1>12 DEF elif
    <3>2. Frame(s, x, p + 1, b, t)
      BY <1>3, <1>9, FrameNext
    <3>3. mode' = mode /\ Frame(s, x, file'.pos, b, t)
      BY <3>1, <3>2, <1>1, <1>3, <1>5, SkipFrame
    <3>4. file'.name = file.name /\ file'.ifdef_stack_ptr = file.ifdef_stack_ptr
      BY <3>1, <1>3, SkipFacts DEF IInv
    <3> QED BY <3>1, <3>3, <3>4, <1>1, <1>2, <1>3, SameFileFrames
  <2>2. CASE Top # 1
    <3>1. PICK c \in {0, 1} : c = Bit(Here.m \in defined)
      BY DEF Bit
    <3>2. SetTop(c) /\ TestSkip(file, c)
      BY <2>2, <3>1, <1>1, <1>6, <1>7, <1>12 DEF elif
    <3>3. c \in 0 .. 3 /\ ~(c >= 2)
      OBVIOUS
    <3> QED BY <3>2, <3>3, <1>10
  <2> QED BY <2>1, <2>2
<1> QED BY <1>11, <1>12

(* #endif closes a conditional of the file.                                *)
LEMMA endifNInv ==
    ASSUME IInv, NInv, endif PROVE NInv'
<1> SUFFICES ASSUME AllWellFormed PROVE NInv'
  <2>1. UNCHANGED lines
    BY DEF endif
  <2> QED BY <2>1, WellFormedKept DEF NInv
<1>1. PICK x, b, t, p, s :
         /\ x = lines[file.name] /\ b = file.ifdef_stack_ptr /\ t = Len(ifdef_stack)
         /\ p = file.pos /\ s = ifdef_stack
  OBVIOUS
<1>2. At("endif") /\ UNCHANGED <<lines, include_stack>>
  BY DEF endif
<1>3. /\ Framed /\ file \in File /\ Len(x) \in Nat /\ Matched(x) /\ b \in Nat /\ t \in Nat
      /\ b <= t /\ s \in Seq(0 .. 3) /\ Frame(s, x, p, b, t)
      /\ mode = "read" /\ p <= Len(x) /\ x[p].d = "endif"
  BY <1>1, <1>2, NowFacts
<1>4. /\ p \in 1 .. Len(x) /\ p \in Nat \ {0} /\ p + 1 \in p .. Len(x) + 1
      /\ t = b + Level(x, p)
  BY <1>3 DEF Frame
<1>5. Level(x, p) > 0 /\ Level(x, p) \in Int /\ Level(x, p + 1) = Level(x, p) - 1
  <2>1. Level(x, p) > 0
    BY <1>3, <1>4 DEF Matched
  <2> QED BY <2>1, <1>3, <1>4, Levels
<1>6. b < t /\ t - 1 = b + Level(x, p + 1)
  BY <1>3, <1>4, <1>5
<1>7. /\ ifdef_stack' = SubSeq(ifdef_stack, 1, Len(ifdef_stack) - 1) /\ mode' = mode
      /\ \/ Advance([file EXCEPT !.ifndef_macro_saved = file.ifndef_macro,
                                 !.ifndef_macro = NoMacro])
         \/ Advance(file)
  BY <1>1, <1>3, <1>6 DEF endif
<1>8. /\ file'.name = file.name /\ file'.ifdef_stack_ptr = file.ifdef_stack_ptr
      /\ file'.pos = p + 1
  BY <1>1, <1>3, <1>7 DEF Advance, File
<1>9. PICK z : z = ifdef_stack'
  OBVIOUS
<1>10. Len(z) = t - 1 /\ \A i \in 1 .. t - 1 : z[i] = s[i]
  <2>1. \A k \in 0 .. t : /\ Len(SubSeq(s, 1, k)) = k
                          /\ \A i \in 1 .. k : SubSeq(s, 1, k)[i] = s[i]
    BY <1>1, <1>3
  <2>2. t - 1 \in 0 .. t /\ z = SubSeq(s, 1, t - 1)
    BY <1>1, <1>3, <1>6, <1>7, <1>9
  <2> QED BY <2>1, <2>2
<1>11. \A u \in p .. p + 1 : Level(x, u) >= Level(x, p + 1)
  <2>1. \A u \in p .. p + 1 : u = p \/ u = p + 1
    BY <1>4
  <2> QED BY <2>1, <1>5
<1>12. \A i \in b + 1 .. t - 1 : z[i] = s[i]
  BY <1>3, <1>10
<1>13. Frame(z, x, p + 1, b, t - 1)
  BY <1>3, <1>4, <1>6, <1>11, <1>12, FrameMoves
<1>14. \A i \in 1 .. b : ifdef_stack'[i] = ifdef_stack[i]
  <2>1. \A i \in 1 .. b : i \in 1 .. t - 1
    BY <1>3, <1>6
  <2> QED BY <2>1, <1>1, <1>9, <1>10
<1> QED BY <1>1, <1>2, <1>3, <1>7, <1>8, <1>9, <1>10, <1>13, <1>14, SameFileFrames

(* A file that is opened has none yet, and the one it is opened from keeps *)
(* those it has.                                                           *)
LEMMA includeNInv ==
    ASSUME IInv, NInv, include PROVE NInv'
<1> SUFFICES ASSUME AllWellFormed PROVE NInv'
  <2>1. UNCHANGED lines
    BY DEF include
  <2> QED BY <2>1, WellFormedKept DEF NInv
<1>1. PICK x, b, t, p, s :
         /\ x = lines[file.name] /\ b = file.ifdef_stack_ptr /\ t = Len(ifdef_stack)
         /\ p = file.pos /\ s = ifdef_stack
  OBVIOUS
<1>2. At("include") /\ UNCHANGED <<lines, ifdef_stack>>
  BY DEF include
<1>3. /\ Framed /\ file \in File /\ Len(x) \in Nat /\ Matched(x) /\ b \in Nat /\ t \in Nat
      /\ b <= t /\ s \in Seq(0 .. 3) /\ Frame(s, x, p, b, t)
      /\ mode = "read" /\ p <= Len(x) /\ x[p].d = "include"
  BY <1>1, <1>2, NowFacts
<1>4. Frame(s, x, p + 1, b, t)
  <2>1. x[p].d \notin Ifs \union {"endif"}
    BY <1>3 DEF Ifs
  <2> QED BY <2>1, <1>3, FrameNext
<1>5. CASE Skipped(Here.name, Here.c)
  <2>1. Advance(file) /\ UNCHANGED <<include_stack, mode>>
    BY <1>5 DEF include
  <2>2. /\ file'.name = file.name /\ file'.ifdef_stack_ptr = file.ifdef_stack_ptr
        /\ file'.pos = p + 1
    BY <2>1, <1>1, <1>3 DEF Advance, File
  <2> QED BY <2>1, <2>2, <1>1, <1>2, <1>3, <1>4, SameFileFrames
<1>6. CASE ~Skipped(Here.name, Here.c) /\ Len(include_stack) < INCLUDE_STACK_SIZE
  <2>1. /\ include_stack' = Append(include_stack, Suspended)
        /\ file' = tcc_open(Here.name, Here.c) /\ mode' = mode
    BY <1>6 DEF include
  <2>2. PICK K \in Nat : K = Len(include_stack)
    BY BasesBelow
  <2>3. Suspended.name = file.name /\ Suspended.ifdef_stack_ptr = b /\ Suspended.pos = p + 1
    BY <1>1, <1>3 DEF Suspended, File
  <2>4. /\ Len(include_stack') = K + 1 /\ include_stack'[K + 1] = Suspended
        /\ \A i \in 1 .. K : include_stack'[i] = include_stack[i]
    BY <2>1, <2>2, <1>3 DEF IInv, TypeOK
  <2>5. file'.pos = 1 /\ file'.ifdef_stack_ptr = t /\ file'.name \in Files
    <3>1. Here.name \in Headers
      BY <1>2, LineFacts DEF IInv
    <3> QED BY <3>1, <2>1, <1>1 DEF tcc_open, Files
  <2>6. \A i \in 1 .. K + 1 : Base(i)' = Base(i)
    BY <2>2, <2>3, <2>4, <1>1 DEF Base
  <2>7. Base(K + 2)' = t
    BY <2>4, <2>5 DEF Base
  <2>8. ASSUME NEW i \in 1 .. K + 1
        PROVE  Frame(s, lines[include_stack'[i].name], include_stack'[i].pos,
                     Base(i)', Base(i + 1)')
    <3>1. CASE i = K + 1
      <4>1. Base(K + 1)' = b /\ (K + 1) + 1 = K + 2
        BY <2>2, <2>6, <1>1 DEF Base
      <4> QED BY <3>1, <4>1, <2>3, <2>4, <2>7, <1>1, <1>4
    <3>2. CASE i \in 1 .. K
      <4>1. i + 1 \in 1 .. K + 1
        BY <3>2
      <4>2. Frame(s, lines[include_stack[i].name], include_stack[i].pos, Base(i), Base(i + 1))
        BY <3>2, <2>2, <1>1, <1>3 DEF Framed
      <4> QED BY <4>1, <4>2, <3>2, <2>4, <2>6
    <3> QED BY <3>1, <3>2
  <2>9. Frame(s, lines[file'.name], 1, t, t)
    <3>1. Len(lines[file'.name]) \in Nat
      BY <2>5 DEF IInv, TypeOK
    <3> QED BY <3>1, <1>3, FrameStarts
  <2>10. Framed'
    BY <2>4, <2>5, <2>8, <2>9, <1>1, <1>2 DEF Framed
  <2> QED BY <2>1, <2>10, <1>3 DEF NInv
<1>7. CASE ~Skipped(Here.name, Here.c) /\ ~(Len(include_stack) < INCLUDE_STACK_SIZE)
  <2>1. UNCHANGED <<include_stack, file>>
    BY <1>7 DEF include
  <2>2. Len(include_stack) = INCLUDE_STACK_SIZE
    <3>1. /\ Len(include_stack) <= INCLUDE_STACK_SIZE /\ Len(include_stack) \in Nat
      BY BasesBelow DEF IInv, TypeOK
    <3> QED BY <3>1, <1>7, IncludeAssumption
  <2>3. Full'
    BY <2>1, <2>2 DEF Full
  <2> QED BY <2>1, <2>3, <1>1, <1>2, <1>3, SameFileFrames
<1> QED BY <1>5, <1>6, <1>7

(* At the end of a file its conditionals are closed, and those of the file *)
(* that goes on are the last on the stack.                                 *)
LEMMA PopIncludeNInv ==
    ASSUME IInv, NInv, PopInclude PROVE NInv'
<1> SUFFICES ASSUME AllWellFormed PROVE NInv'
  <2>1. UNCHANGED lines
    BY DEF PopInclude
  <2> QED BY <2>1, WellFormedKept DEF NInv
<1>1. PICK x, b, t, p, s :
         /\ x = lines[file.name] /\ b = file.ifdef_stack_ptr /\ t = Len(ifdef_stack)
         /\ p = file.pos /\ s = ifdef_stack
  OBVIOUS
<1>2. /\ Framed /\ file \in File /\ Len(x) \in Nat /\ Matched(x) /\ b \in Nat /\ t \in Nat
      /\ Frame(s, x, p, b, t)
  BY <1>1, NowFacts
<1>3. /\ p > Len(x) /\ mode' # "error" /\ UNCHANGED <<lines, ifdef_stack>>
      /\ file' = Including /\ include_stack # << >>
      /\ include_stack' = SubSeq(include_stack, 1, Len(include_stack) - 1)
  BY <1>1 DEF PopInclude, AtEnd, Length
<1>4. t = b
  BY <1>2, <1>3, FrameEnds
<1>5. PICK K \in Nat : K = Len(include_stack)
  BY BasesBelow
<1>6. include_stack \in Seq(File) /\ K > 0
  BY <1>3, <1>5 DEF IInv, TypeOK
<1>7. Len(include_stack') = K - 1 /\ \A i \in 1 .. K - 1 : include_stack'[i] = include_stack[i]
  <2>1. \A k \in 0 .. K : /\ Len(SubSeq(include_stack, 1, k)) = k
                          /\ \A i \in 1 .. k : SubSeq(include_stack, 1, k)[i] = include_stack[i]
    BY <1>5, <1>6
  <2>2. K - 1 \in 0 .. K
    BY <1>6
  <2> QED BY <2>1, <2>2, <1>3, <1>5
<1>8. file' = include_stack[K] /\ K \in 1 .. K
  BY <1>3, <1>5, <1>6 DEF Including
<1>9. \A i \in 1 .. K : Base(i)' = Base(i)
  BY <1>5, <1>6, <1>7, <1>8 DEF Base
<1>10. ASSUME NEW i \in 1 .. K
       PROVE  Frame(s, lines[include_stack[i].name], include_stack[i].pos, Base(i), Base(i + 1))
  BY <1>1, <1>2, <1>5 DEF Framed
<1>11. ASSUME NEW i \in 1 .. K - 1
       PROVE  Frame(s, lines[include_stack'[i].name], include_stack'[i].pos,
                    Base(i)', Base(i + 1)')
  <2>1. i \in 1 .. K /\ i + 1 \in 1 .. K
    BY <1>6
  <2> QED BY <2>1, <1>7, <1>9, <1>10
<1>12. Frame(s, lines[file'.name], file'.pos, file'.ifdef_stack_ptr, t)
  <2>1. Base(K) = file'.ifdef_stack_ptr /\ Base(K + 1) = t
    BY <1>1, <1>4, <1>5, <1>8 DEF Base
  <2> QED BY <2>1, <1>8, <1>10
<1>13. Framed'
  BY <1>1, <1>3, <1>7, <1>11, <1>12 DEF Framed
<1> QED BY <1>3, <1>13 DEF NInv

(* Well-formed files have the conditionals their lines say.                *)
LEMMA FramesRight == Spec => []NInv
<1>1. ASSUME file = Start, include_stack = << >>, ifdef_stack = << >>, mode = "read",
             lines \in [Files -> Seq(Line)]
      PROVE  NInv
  <2>1. PICK s : s = ifdef_stack
    OBVIOUS
  <2>2. Frame(s, lines[Main], 1, 0, 0)
    <3>1. Len(lines[Main]) \in Nat
      BY <1>1 DEF Files
    <3> QED BY <3>1, FrameStarts
  <2>3. Framed
    BY <2>1, <2>2, <1>1 DEF Framed, Start
  <2> QED BY <2>3, <1>1 DEF NInv
<1>2. Init => NInv
  BY <1>1, IncludeAssumption DEF Init
<1>3. IInv /\ IInv' /\ NInv /\ [Next]_vars => NInv'
  <2> SUFFICES ASSUME IInv, IInv', NInv, [Next]_vars PROVE NInv'
    OBVIOUS
  <2>1. CASE Text \/ define \/ undef
    BY <2>1, PlainNInv
  <2>2. CASE ifdef \/ ifndef
    BY <2>2, ifNInv
  <2>3. CASE else \/ elif
    BY <2>3, BranchNInv
  <2>4. CASE endif
    BY <2>4, endifNInv
  <2>5. CASE include
    BY <2>5, includeNInv
  <2>6. CASE PopInclude
    BY <2>6, PopIncludeNInv
  <2>7. ASSUME UNCHANGED <<lines, file, include_stack, ifdef_stack>>,
               mode' = "error" => mode = "error"
        PROVE  NInv'
    <3>1. \A i : Base(i)' = Base(i)
      BY <2>7 DEF Base
    <3>2. AllWellFormed' <=> AllWellFormed
      BY <2>7, WellFormedKept
    <3>3. Framed' <=> Framed
      BY <2>7, <3>1 DEF Framed
    <3>4. Full' <=> Full
      BY <2>7 DEF Full
    <3> QED BY <2>7, <3>2, <3>3, <3>4 DEF NInv
  <2>8. CASE EndOfFile \/ UNCHANGED vars
    BY <2>7, <2>8 DEF EndOfFile, vars
  <2>9. CASE tcc_compile
    <3>1. /\ file' = Start /\ include_stack' = << >> /\ ifdef_stack' = << >>
          /\ mode' = "read" /\ UNCHANGED lines
      BY <2>9 DEF tcc_compile
    <3>2. PICK s : s = ifdef_stack'
      OBVIOUS
    <3>3. Frame(s, lines[Main], 1, 0, 0)
      <4>1. Len(lines[Main]) \in Nat
        BY DEF IInv, TypeOK, Files
      <4> QED BY <4>1, FrameStarts
    <3>4. Framed'
      BY <3>1, <3>2, <3>3 DEF Framed, Start
    <3> QED BY <3>1, <3>4 DEF NInv
  <2> QED BY <2>1, <2>2, <2>3, <2>4, <2>5, <2>6, <2>8, <2>9 DEF Next
<1> QED BY <1>2, <1>3, Invariance, PTL DEF Spec

(* Files that are well formed are refused only when they nest too deep:    *)
(* the #else, #elif and #endif of each finds its own conditional open, and *)
(* preprocess_skip its next branch or its end.                             *)
THEOREM WellFormedAccepted == Spec => []Accepted
<1>1. IInv /\ NInv => Accepted
  BY DEF NInv, Full, Accepted
<1> QED BY <1>1, FramesRight, Invariance, PTL

-----------------------------------------------------------------------------
(* The states the reference passes through, up to the one after k lines.   *)
Way(x, k, w) == w = [j \in 0 .. k |-> IF j = 0 THEN Begin ELSE Reads(x, w[j - 1])]
Reached(x, s) == \E k \in Nat : \E w : Way(x, k, w) /\ w[k] = s

(* It begins, and goes on from every state.                                *)
LEMMA ReachedBegin ==
    ASSUME NEW x PROVE Reached(x, Begin)
<1>1. PICK w : w = [j \in 0 .. 0 |-> Begin]
  OBVIOUS
<1>2. \A j \in 0 .. 0 : j = 0
  OBVIOUS
<1>3. w = [j \in 0 .. 0 |-> IF j = 0 THEN Begin ELSE Reads(x, w[j - 1])] /\ w[0] = Begin
  BY <1>1, <1>2
<1>4. 0 \in Nat /\ Way(x, 0, w) /\ w[0] = Begin
  BY <1>3 DEF Way
<1> QED BY <1>4 DEF Reached

(* From a state it reaches it goes on to the one after the next line.       *)
LEMMA ReachedNext ==
    ASSUME NEW x, NEW s, Reached(x, s) PROVE Reached(x, Reads(x, s))
<1>1. PICK k, w : k \in Nat /\ Way(x, k, w) /\ w[k] = s
  BY DEF Reached
<1>2. \A j \in 0 .. k : w[j] = IF j = 0 THEN Begin ELSE Reads(x, w[j - 1])
  BY <1>1 DEF Way
<1>3. PICK v : v = [j \in 0 .. k + 1 |-> IF j = k + 1 THEN Reads(x, s) ELSE w[j]]
  OBVIOUS
<1>4. ASSUME NEW j \in 0 .. k + 1
      PROVE  v[j] = IF j = 0 THEN Begin ELSE Reads(x, v[j - 1])
  <2>1. CASE j = k + 1
    <3>1. v[j] = Reads(x, s) /\ j # 0 /\ j - 1 = k /\ k \in 0 .. k + 1 /\ k # k + 1
      BY <2>1, <1>1, <1>3
    <3>2. v[j - 1] = w[k]
      BY <3>1, <1>3
    <3> QED BY <3>1, <3>2, <1>1
  <2>2. CASE j # k + 1
    <3>1. j \in 0 .. k /\ v[j] = w[j]
      BY <2>2, <1>1, <1>3
    <3>2. CASE j = 0
      BY <3>1, <3>2, <1>2
    <3>3. CASE j # 0
      <4>1. j - 1 \in 0 .. k + 1 /\ j - 1 # k + 1
        BY <3>1, <3>3, <1>1
      <4>2. v[j - 1] = w[j - 1]
        BY <4>1, <1>3
      <4> QED BY <4>2, <3>1, <3>3, <1>2
    <3> QED BY <3>2, <3>3
  <2> QED BY <2>1, <2>2
<1>5. Way(x, k + 1, v)
  BY <1>3, <1>4 DEF Way
<1>6. k + 1 \in Nat /\ v[k + 1] = Reads(x, s)
  BY <1>1, <1>3
<1> QED BY <1>5, <1>6 DEF Reached

(* What it reaches is what the recursive function says.                    *)
LEMMA ReferenceIs ==
    ASSUME NEW x, NEW k \in Nat, NEW w, Way(x, k, w) PROVE Reference(x, k) = w[k]
<1> DEFINE W(r) == r = [j \in 0 .. k |-> IF j = 0 THEN Begin ELSE Reads(x, r[j - 1])]
<1>1. Reference(x, k) = (CHOOSE r : W(r))[k]
  BY DEF Reference
<1>2. W(w)
  BY DEF Way
<1>3. PICK r : r = CHOOSE z : W(z)
  OBVIOUS
<1>4. W(r)
  BY <1>2, <1>3
<1>5. \A j \in 0 .. k : /\ r[j] = IF j = 0 THEN Begin ELSE Reads(x, r[j - 1])
                        /\ w[j] = IF j = 0 THEN Begin ELSE Reads(x, w[j - 1])
  BY <1>2, <1>4
<1>6. r[k] = w[k]
  <2> SUFFICES ASSUME r[k] # w[k] PROVE FALSE
    OBVIOUS
  <2> DEFINE I == {j \in 0 .. k : r[j] # w[j]}
  <2>1. I \subseteq Nat /\ k \in I
    OBVIOUS
  <2> HIDE DEF I, W
  <2>2. PICK j \in I : \A h \in I : j <= h
    BY <2>1, LeastNat
  <2>3. j \in 0 .. k /\ r[j] # w[j]
    BY DEF I
  <2>4. j # 0
    BY <2>3, <1>5
  <2>5. j - 1 \in 0 .. k /\ ~(j <= j - 1)
    BY <2>3, <2>4
  <2>6. r[j - 1] = w[j - 1]
    BY <2>2, <2>5 DEF I
  <2> QED BY <2>3, <2>4, <2>6, <1>5
<1> QED BY <1>1, <1>3, <1>6

(* The text of a state that is reached with no file left.                  *)
LEMMA TextReached ==
    ASSUME Steps = Nat, NEW env, NEW out,
           Reached(lines, State(<< >>, env, out))
    PROVE  TextIs(out)
<1>1. PICK s : s = State(<< >>, env, out)
  OBVIOUS
<1>2. PICK k, w : k \in Nat /\ Way(lines, k, w) /\ w[k] = s
  BY <1>1 DEF Reached
<1>3. Reference(lines, k) = s
  BY <1>2, ReferenceIs
<1>4. Finished(s) /\ s.out = out
  BY <1>1 DEF Finished, State
<1>5. k \in Steps /\ Finished(Reference(lines, k)) /\ Reference(lines, k).out = out
  BY <1>2, <1>3, <1>4
<1> QED BY <1>5 DEF TextIs

-----------------------------------------------------------------------------
(* One line of the reference, in the file f (from line p, in the           *)
(* conditionals c) that the files stk include.                             *)
Cond == [on : BOOLEAN, taken : BOOLEAN]
Suspension == [name : Files, pos : Nat, conds : Seq(Cond)]
AllOn(c) == \A i \in 1 .. Len(c) : c[i].on
In(stk, f, p, c, env, out) == State(Append(stk, Reading(f, p, c)), env, out)

(* The file that is read is the last of the files of the state.             *)
LEMMA InFacts ==
    ASSUME NEW stk \in Seq(Suspension), NEW f \in Files, NEW p \in Nat, NEW c \in Seq(Cond),
           NEW env, NEW out, NEW s, s = In(stk, f, p, c, env, out)
    PROVE  /\ ~Finished(s) /\ s.env = env /\ s.out = out
           /\ s.stack[Len(s.stack)] = Reading(f, p, c)
           /\ SubSeq(s.stack, 1, Len(s.stack) - 1) = stk
<1>1. PICK r : r = Reading(f, p, c)
  OBVIOUS
<1>2. r \in Suspension
  BY <1>1 DEF Reading, Suspension
<1>3. PICK n \in Nat : n = Len(stk)
  OBVIOUS
<1>4. s.stack = Append(stk, r) /\ s.env = env /\ s.out = out
  BY <1>1 DEF In, State
<1>5. Len(s.stack) = n + 1 /\ s.stack[n + 1] = r /\ s.stack # << >>
  BY <1>2, <1>3, <1>4
<1>6. SubSeq(s.stack, 1, Len(s.stack) - 1) = stk
  <2>1. SubSeq(Append(stk, r), 1, n) = stk
    BY <1>2, <1>3
  <2> QED BY <2>1, <1>4, <1>5, <1>3
<1> QED BY <1>1, <1>4, <1>5, <1>6 DEF Finished

(* At the end of the file.                                                 *)
LEMMA ReadsEnd ==
    ASSUME NEW x, NEW stk \in Seq(Suspension), NEW f \in Files, NEW p \in Nat, NEW c \in Seq(Cond),
           NEW env, NEW out, p > Len(x[f])
    PROVE  Reads(x, In(stk, f, p, c, env, out)) = State(stk, env, out)
<1>1. PICK s : s = In(stk, f, p, c, env, out)
  OBVIOUS
<1>2. PICK r : r = s.stack[Len(s.stack)] /\ r = Reading(f, p, c)
  BY <1>1, InFacts
<1>3. r.name = f /\ r.pos = p
  BY <1>2 DEF Reading
<1>4. /\ ~Finished(s) /\ SubSeq(s.stack, 1, Len(s.stack) - 1) = stk
      /\ s.env = env /\ s.out = out
  BY <1>1, InFacts
<1>5. Reads(x, s) = State(stk, env, out)
  BY <1>2, <1>3, <1>4 DEF Reads
<1> QED BY <1>1, <1>5

(* At a line of it that has to do with conditionals, or in a branch that   *)
(* is off.                                                                 *)
LEMMA ReachedBranch ==
    ASSUME NEW stk \in Seq(Suspension), NEW f \in Files, NEW p \in Nat, NEW c \in Seq(Cond),
           NEW env, NEW out, NEW l, l = lines[f][p], ~(p > Len(lines[f])),
           Reached(lines, In(stk, f, p, c, env, out)), NEW a \in BOOLEAN, a <=> AllOn(c),
           ~a \/ l.d \in {"ifdef", "ifndef", "else", "elif", "endif"},
           NEW d, d = Conds(c, l, a, env)
    PROVE  Reached(lines, In(stk, f, p + 1, d, env, out))
<1>1. PICK s : s = In(stk, f, p, c, env, out)
  OBVIOUS
<1>0. PICK next : next = Append(stk, Reading(f, p + 1, d))
  OBVIOUS
<1>2. PICK r : r = s.stack[Len(s.stack)] /\ r = Reading(f, p, c)
  BY <1>1, InFacts
<1>3. r.name = f /\ r.pos = p /\ r.conds = c /\ (Active(r) <=> a)
  BY <1>2 DEF Reading, Active, AllOn
<1>4. /\ ~Finished(s) /\ SubSeq(s.stack, 1, Len(s.stack) - 1) = stk
      /\ s.env = env /\ s.out = out
  BY <1>1, InFacts
<1>5. Active(r) = a
  BY <1>3 DEF Active
<1>6. Conds(r.conds, lines[r.name][r.pos], Active(r), s.env) = d
  BY <1>3, <1>4, <1>5
<1>7. CASE ~a
  <2>1. Reads(lines, s) = State(next, env, out)
    BY <1>0, <1>2, <1>3, <1>4, <1>6, <1>7 DEF Reads
  <2> QED BY <2>1, <1>0, <1>1, ReachedNext DEF In
<1>8. CASE a
  <2>1. Reads(lines, s) = State(next, env, out)
    BY <1>0, <1>2, <1>3, <1>4, <1>6, <1>8 DEF Reads
  <2> QED BY <2>1, <1>0, <1>1, ReachedNext DEF In
<1> QED BY <1>7, <1>8

(* At another, where all branches are on.                                  *)
LEMMA ReachedActive ==
    ASSUME NEW stk \in Seq(Suspension), NEW f \in Files, NEW p \in Nat, NEW c \in Seq(Cond),
           NEW env, NEW out, NEW l, l = lines[f][p], ~(p > Len(lines[f])),
           Reached(lines, In(stk, f, p, c, env, out)), AllOn(c)
    PROVE  /\ l.d = "text" => Reached(lines, In(stk, f, p + 1, c, env, Append(out, <<f, p>>)))
           /\ l.d = "define" => Reached(lines, In(stk, f, p + 1, c, env \union {l.m}, out))
           /\ l.d = "undef" => Reached(lines, In(stk, f, p + 1, c, env \ {l.m}, out))
           /\ l.d = "include" =>
                 Reached(lines, In(Append(stk, Reading(f, p + 1, c)), l.name, 1, << >>, env, out))
<1>1. PICK s : s = In(stk, f, p, c, env, out)
  OBVIOUS
<1>0. PICK next : next = Append(stk, Reading(f, p + 1, c))
  OBVIOUS
<1>2. PICK r : r = s.stack[Len(s.stack)] /\ r = Reading(f, p, c)
  BY <1>1, InFacts
<1>3. r.name = f /\ r.pos = p /\ r.conds = c /\ Active(r)
  BY <1>2 DEF Reading, Active, AllOn
<1>4. /\ ~Finished(s) /\ SubSeq(s.stack, 1, Len(s.stack) - 1) = stk
      /\ s.env = env /\ s.out = out
  BY <1>1, InFacts
<1>6. ASSUME l.d \in {"text", "define", "undef", "include"}
      PROVE  Conds(r.conds, lines[r.name][r.pos], Active(r), s.env) = c
  BY <1>3, <1>6 DEF Conds
<1>7. ASSUME l.d = "text" PROVE Reads(lines, s) = State(next, env, Append(out, <<f, p>>))
  BY <1>0, <1>2, <1>3, <1>4, <1>6, <1>7 DEF Reads
<1>8. ASSUME l.d = "define" PROVE Reads(lines, s) = State(next, env \union {l.m}, out)
  BY <1>0, <1>2, <1>3, <1>4, <1>6, <1>8 DEF Reads
<1>9. ASSUME l.d = "undef" PROVE Reads(lines, s) = State(next, env \ {l.m}, out)
  BY <1>0, <1>2, <1>3, <1>4, <1>6, <1>9 DEF Reads
<1>10. ASSUME l.d = "include"
       PROVE  Reads(lines, s) = State(Append(next, Reading(l.name, 1, << >>)), env, out)
  BY <1>0, <1>2, <1>3, <1>4, <1>6, <1>10 DEF Reads
<1> QED BY <1>0, <1>1, <1>7, <1>8, <1>9, <1>10, ReachedNext DEF In

(* The end of a file.                                                      *)
LEMMA ReachedEnd ==
    ASSUME NEW stk \in Seq(Suspension), NEW f \in Files, NEW p \in Nat, NEW c \in Seq(Cond),
           NEW env, NEW out, p > Len(lines[f]), Reached(lines, In(stk, f, p, c, env, out))
    PROVE  Reached(lines, State(stk, env, out))
<1>1. Reads(lines, In(stk, f, p, c, env, out)) = State(stk, env, out)
  BY ReadsEnd
<1> QED BY <1>1, ReachedNext

-----------------------------------------------------------------------------
(* The conditionals a are n on top of c; one of them more, and one less.   *)
OnTop(a, c, n) == c \in Seq(Cond) /\ n \in Seq(Cond) /\ a = c \o n

(* One conditional more on top.                                             *)
LEMMA OnTopPush ==
    ASSUME NEW c, NEW n, NEW a, OnTop(a, c, n), NEW b \in Cond
    PROVE  OnTop(Append(a, b), c, Append(n, b))
<1>0. c \in Seq(Cond) /\ n \in Seq(Cond) /\ a = c \o n
  BY DEF OnTop
<1>1. PICK e : e = <<b>>
  OBVIOUS
<1>2. a \in Seq(Cond) /\ e \in Seq(Cond) /\ Append(n, b) \in Seq(Cond)
  BY <1>0, <1>1, ConcatProperties
<1>3. Append(a, b) = a \o e /\ Append(n, b) = n \o e
  BY <1>0, <1>1, <1>2, AppendIsConcat
<1>4. (c \o n) \o e = c \o (n \o e)
  BY <1>0, <1>2, ConcatAssociative
<1> QED BY <1>0, <1>2, <1>3, <1>4 DEF OnTop

(* One less: the last is taken from those on top.                           *)
LEMMA OnTopPop ==
    ASSUME NEW c, NEW n, NEW a, OnTop(a, c, n), Len(n) > 0
    PROVE  /\ a[Len(a)] = n[Len(n)]
           /\ OnTop(SubSeq(a, 1, Len(a) - 1), c, SubSeq(n, 1, Len(n) - 1))
<1>0. c \in Seq(Cond) /\ n \in Seq(Cond) /\ a = c \o n
  BY DEF OnTop
<1>1. PICK k : k = Len(n)
  OBVIOUS
<1>2. k \in 1 .. Len(n) /\ k \in Nat
  BY <1>0, <1>1
<1>3. PICK v, b : v = SubSeq(n, 1, k - 1) /\ b = n[k]
  OBVIOUS
<1>4. v \in Seq(Cond) /\ b \in Cond
  BY <1>0, <1>2, <1>3, ElementOfSeq
<1>5. n = Append(v, b)
  <2>1. SubSeq(n, 1, k) = v \o <<b>>
    BY <1>0, <1>2, <1>3, SubSeqRecursiveSecond
  <2> QED BY <2>1, <1>0, <1>1, <1>4, SubSeqFull, AppendIsConcat
<1>6. PICK u : u = c \o v
  OBVIOUS
<1>7. u \in Seq(Cond) /\ OnTop(u, c, v)
  BY <1>0, <1>4, <1>6, ConcatProperties DEF OnTop
<1>8. OnTop(Append(u, b), c, n)
  BY <1>4, <1>5, <1>7, OnTopPush
<1>9. a = Append(u, b)
  BY <1>0, <1>8 DEF OnTop
<1>10. Len(a) = Len(u) + 1 /\ Len(u) \in Nat /\ a[Len(a)] = b
  BY <1>4, <1>7, <1>9
<1>11. SubSeq(a, 1, Len(a) - 1) = u
  BY <1>4, <1>7, <1>9, <1>10
<1> QED BY <1>1, <1>3, <1>7, <1>10, <1>11

(* The conditionals that begin in a branch that is off have branches that  *)
(* are off: n is k of them.                                                *)
Off == Branch(FALSE, TRUE)
Offs(n, k) == n \in Seq(Cond) /\ Len(n) = k /\ \A i \in 1 .. k : n[i] = Off

(* One line in such a branch.                                              *)
LEMMA OffLine ==
    ASSUME NEW c, NEW n, NEW a, OnTop(a, c, n), NEW k \in Nat, Offs(n, k), NEW l, NEW env,
           NEW h \in Nat,
           \/ l.d \in Ifs /\ h = k + 1
           \/ l.d = "endif" /\ h = k - 1
           \/ l.d \in {"else", "elif"} /\ h = k /\ k > 0
           \/ l.d \notin Ifs \union {"endif", "else", "elif"} /\ h = k
    PROVE  \E m : Offs(m, h) /\ OnTop(Conds(a, l, FALSE, env), c, m)
<1>1. Off \in Cond /\ Off.taken = TRUE /\ Off = Branch(FALSE, TRUE)
  BY DEF Off, Branch, Cond
<1>0. PICK o \in Cond : o = Off
  BY <1>1
<1>2. n \in Seq(Cond) /\ Len(n) = k /\ \A i \in 1 .. k : n[i] = Off
  BY DEF Offs
<1>4. a \in Seq(Cond)
  BY ConcatProperties DEF OnTop
<1>5. CASE l.d \in Ifs /\ h = k + 1
  <2>1. PICK m : m = Append(n, o)
    OBVIOUS
  <2>2. Offs(m, h)
    <3>1. m \in Seq(Cond) /\ Len(m) = k + 1
      BY <2>1, <1>0, <1>2, AppendProperties
    <3>2. ASSUME NEW i \in 1 .. k + 1 PROVE m[i] = Off
      BY <2>1, <1>0, <1>2, AppendProperties
    <3> QED BY <3>1, <3>2, <1>5 DEF Offs
  <2>3. Conds(a, l, FALSE, env) = Append(a, Off)
    BY <1>1, <1>5 DEF Conds, Ifs
  <2>4. OnTop(Append(a, o), c, m)
    BY <2>1, <1>0, OnTopPush
  <2> QED BY <2>2, <2>3, <2>4, <1>0
<1>6. CASE l.d = "endif" /\ h = k - 1
  <2>1. PICK m : m = SubSeq(n, 1, k - 1)
    OBVIOUS
  <2>2. Offs(m, h)
    BY <2>1, <1>2, <1>6 DEF Offs
  <2>3. Conds(a, l, FALSE, env) = SubSeq(a, 1, Len(a) - 1)
    BY <1>6 DEF Conds
  <2>4. k > 0
    BY <1>6
  <2>5. OnTop(SubSeq(a, 1, Len(a) - 1), c, m)
    BY <2>1, <2>4, <1>2, OnTopPop
  <2> QED BY <2>2, <2>3, <2>5
<1>7. CASE l.d \in {"else", "elif"} /\ h = k /\ k > 0
  <2>1. n[k] = Off
    BY <1>2, <1>7
  <2>2. a[Len(a)] = Off
    BY <2>1, <1>2, <1>7, OnTopPop
  <2>3. Branch(~TRUE, TRUE) = Off
    BY DEF Off, Branch
  <2>4. Conds(a, l, FALSE, env) = [a EXCEPT ![Len(a)] = Off]
    <3>1. a[Len(a)].taken = TRUE
      BY <2>2, <1>1
    <3>2. CASE l.d = "else"
      BY <3>1, <3>2, <2>3 DEF Conds
    <3>3. CASE l.d = "elif"
      BY <3>1, <3>3, <1>1 DEF Conds
    <3> QED BY <3>2, <3>3, <1>7
  <2>5. [a EXCEPT ![Len(a)] = Off] = a
    BY <2>2, <1>4
  <2> QED BY <2>4, <2>5, <1>2, <1>7 DEF Offs
<1>8. CASE l.d \notin Ifs \union {"endif", "else", "elif"} /\ h = k
  <2>1. Conds(a, l, FALSE, env) = a
    BY <1>8 DEF Conds, Ifs
  <2> QED BY <2>1, <1>2, <1>8 DEF Offs
<1> QED BY <1>5, <1>6, <1>7, <1>8

(* The reference in such a branch, over one line.                          *)
LEMMA OffStep ==
    ASSUME NEW stk \in Seq(Suspension), NEW f \in Files, NEW p \in Nat, NEW c \in Seq(Cond),
           ~AllOn(c), NEW n, NEW a, OnTop(a, c, n), NEW k \in Nat, Offs(n, k),
           NEW y, y = lines[f], ~(p > Len(y)),
           NEW env, NEW out, Reached(lines, In(stk, f, p, a, env, out)), NEW h \in Nat,
           \/ y[p].d \in Ifs /\ h = k + 1
           \/ y[p].d = "endif" /\ h = k - 1
           \/ y[p].d \in {"else", "elif"} /\ h = k /\ k > 0
           \/ y[p].d \notin Ifs \union {"endif", "else", "elif"} /\ h = k
    PROVE  \E m, d : Offs(m, h) /\ OnTop(d, c, m) /\ Reached(lines, In(stk, f, p + 1, d, env, out))
<1>1. PICK l : l = y[p]
  OBVIOUS
<1>2. PICK m : Offs(m, h) /\ OnTop(Conds(a, l, FALSE, env), c, m)
  BY <1>1, OffLine
<1>3. n \in Seq(Cond) /\ a = c \o n
  BY DEF OnTop
<1>5. /\ a \in Seq(Cond) /\ Len(a) = Len(c) + Len(n)
      /\ \A i \in 1 .. Len(c) + Len(n) : a[i] = IF i <= Len(c) THEN c[i] ELSE n[i - Len(c)]
  BY <1>3, ConcatProperties
<1>6. FALSE <=> AllOn(a)
  <2>1. PICK i \in 1 .. Len(c) : ~c[i].on
    BY DEF AllOn
  <2>2. Len(c) \in Nat /\ Len(n) \in Nat
    BY <1>3
  <2>3. i \in 1 .. Len(a) /\ a[i] = c[i]
    BY <2>1, <2>2, <1>5
  <2> QED BY <2>1, <2>3 DEF AllOn
<1>7. PICK d : d = Conds(a, l, FALSE, env)
  OBVIOUS
<1>8. l = lines[f][p] /\ ~(p > Len(lines[f]))
  BY <1>1
<1>9. Reached(lines, In(stk, f, p + 1, d, env, out))
  BY <1>5, <1>6, <1>7, <1>8, ReachedBranch
<1> QED BY <1>2, <1>7, <1>9

(* And from line p to line q of one conditional.                           *)
LEMMA SkipRun ==
    ASSUME NEW stk \in Seq(Suspension), NEW f \in Files, NEW c \in Seq(Cond), ~AllOn(c),
           NEW y, y = lines[f], Len(y) \in Nat, NEW p \in Nat \ {0}, NEW q \in Nat, p <= q,
           q <= Len(y), \A u \in p .. q : Level(y, u) >= Level(y, p),
           \A u \in p .. q - 1 : y[u].d \in {"else", "elif"} => Level(y, u) > Level(y, p),
           Level(y, q) = Level(y, p),
           NEW env, NEW out, Reached(lines, In(stk, f, p, c, env, out))
    PROVE  Reached(lines, In(stk, f, q, c, env, out))
<1> DEFINE P(u, n, a) == /\ Offs(n, Level(y, u) - Level(y, p)) /\ OnTop(a, c, n)
                         /\ Reached(lines, In(stk, f, u, a, env, out))
           I == {u \in p .. q : \A n, a : ~P(u, n, a)}
<1>0. ASSUME NEW n, Offs(n, 0), NEW a, OnTop(a, c, n) PROVE a = c
  <2>1. n \in Seq(Cond) /\ Len(n) = 0
    BY <1>0 DEF Offs
  <2>2. n = << >>
    BY <2>1, EmptySeq
  <2> QED BY <2>2, <1>0, ConcatEmptySeq DEF OnTop
<1>1. \A u \in p .. q : Level(y, u) - Level(y, p) \in Nat
  <2> TAKE u \in p .. q
  <2>1. u \in Nat \ {0}
    OBVIOUS
  <2>2. Level(y, u) \in Int /\ Level(y, p) \in Int
    BY <2>1, Levels
  <2> QED BY <2>2
<1>2. I = {}
  <2> SUFFICES ASSUME I # {} PROVE FALSE
    OBVIOUS
  <2>1. PICK j0 : j0 \in I
    OBVIOUS
  <2>2. I \subseteq Nat
    OBVIOUS
  <2>3. PICK j \in I : \A h \in I : j <= h
    <3> HIDE DEF I
    <3> QED BY <2>1, <2>2, LeastNat
  <2>4. j \in p .. q /\ \A n, a : ~P(j, n, a)
    BY <2>3
  <2>5. j # p
    <3> SUFFICES ASSUME j = p PROVE FALSE
      OBVIOUS
    <3>1. Level(y, p) - Level(y, p) = 0
      BY Levels
    <3>2. Offs(<< >>, 0) /\ OnTop(c, c, << >>)
      BY EmptySeq, ConcatEmptySeq DEF Offs, OnTop
    <3>3. P(p, << >>, c)
      BY <3>1, <3>2
    <3> QED BY <3>3, <2>4
  <2>6. PICK u : u = j - 1 /\ u \in p .. q - 1 /\ u \in Nat \ {0} /\ u + 1 = j /\ u \in p .. q
    BY <2>4, <2>5
  <2>7. PICK n, a : P(u, n, a)
    <3>1. ~(j <= u)
      BY <2>4, <2>6
    <3> HIDE DEF P
    <3> QED BY <3>1, <2>3, <2>6
  <2>8. PICK k, h : /\ k = Level(y, u) - Level(y, p) /\ h = Level(y, j) - Level(y, p)
                    /\ k \in Nat /\ h \in Nat
    BY <1>1, <2>4, <2>6
  <2>9. ~(u > Len(y))
    BY <2>6
  <2>10. \/ y[u].d \in Ifs /\ h = k + 1
         \/ y[u].d = "endif" /\ h = k - 1
         \/ y[u].d \in {"else", "elif"} /\ h = k /\ k > 0
         \/ y[u].d \notin Ifs \union {"endif", "else", "elif"} /\ h = k
    <3>1. Level(y, u) \in Int /\ Level(y, p) \in Int
      BY <2>6, Levels
    <3>2. y[u].d \in Ifs => Level(y, j) = Level(y, u) + 1
      BY <2>6, Levels
    <3>3. y[u].d = "endif" => Level(y, j) = Level(y, u) - 1
      BY <2>6, Levels
    <3>4. y[u].d \notin Ifs \union {"endif"} => Level(y, j) = Level(y, u)
      BY <2>6, Levels
    <3>5. y[u].d \in {"else", "elif"} => /\ Level(y, u) > Level(y, p)
                                         /\ y[u].d \notin Ifs \union {"endif"}
      BY <2>6 DEF Ifs
    <3> QED BY <2>8, <3>1, <3>2, <3>3, <3>4, <3>5
  <2>11. PICK m, d : /\ Offs(m, h) /\ OnTop(d, c, m)
                     /\ Reached(lines, In(stk, f, u + 1, d, env, out))
    <3>1. u \in Nat
      BY <2>6
    <3>2. Offs(n, k) /\ OnTop(a, c, n) /\ Reached(lines, In(stk, f, u, a, env, out))
      BY <2>7, <2>8
    <3> QED BY <2>8, <2>9, <2>10, <3>1, <3>2, OffStep
  <2>12. P(j, m, d)
    BY <2>6, <2>8, <2>11
  <2> QED BY <2>4, <2>12
<1>3. PICK n, a : P(q, n, a)
  <2>1. q \in p .. q
    OBVIOUS
  <2> HIDE DEF P
  <2> QED BY <2>1, <1>2
<1>4. Offs(n, 0)
  <2>1. Level(y, q) - Level(y, p) = 0
    BY Levels
  <2> QED BY <2>1, <1>3
<1> QED BY <1>0, <1>3, <1>4

(* A header that its #ifndef m guards.                                     *)
Guarded(y, m) ==
    /\ Len(y) \in Nat /\ Len(y) >= 2
    /\ y[1].d = "ifndef" /\ y[1].m = m
    /\ y[Len(y)].d = "endif" /\ Level(y, Len(y)) = 1
    /\ \A u \in 2 .. Len(y) : Level(y, u) >= 1
    /\ \A u \in 2 .. Len(y) - 1 : y[u].d \in {"else", "elif"} => Level(y, u) > 1

(* Reading it changes nothing once m is a macro.                           *)
LEMMA GuardRun ==
    ASSUME NEW stk \in Seq(Suspension), NEW f \in Files, NEW y, y = lines[f], NEW m,
           Guarded(y, m), NEW env, m \in env, NEW out,
           Reached(lines, In(stk, f, 1, << >>, env, out))
    PROVE  Reached(lines, State(stk, env, out))
<1>1. PICK k : k = Len(y) /\ k \in Nat /\ k >= 2
  BY DEF Guarded
<1>2. PICK b : b = Branch(FALSE, FALSE)
  OBVIOUS
<1>3. b \in Cond /\ ~b.on
  BY <1>2 DEF Branch, Cond
<1>4. PICK c : c = Append(<< >>, b)
  OBVIOUS
<1>5. c \in Seq(Cond) /\ Len(c) = 1 /\ c[1] = b /\ SubSeq(c, 1, Len(c) - 1) = << >>
  BY <1>3, <1>4
<1>6. (FALSE <=> AllOn(c)) /\ (TRUE <=> AllOn(<< >>))
  BY <1>3, <1>5 DEF AllOn
<1>7. Reached(lines, In(stk, f, 2, c, env, out))
  <2>1. PICK l : l = lines[f][1] /\ l.d = "ifndef" /\ l.m \in env /\ ~(1 > Len(lines[f]))
    BY <1>1 DEF Guarded
  <2>2. Conds(<< >>, l, TRUE, env) = c
    <3>1. Branch((l.m \in env) = (l.d = "ifdef"), (l.m \in env) = (l.d = "ifdef")) = b
      BY <2>1, <1>2 DEF Branch
    <3>2. l.d \in {"ifdef", "ifndef"}
      BY <2>1
    <3> QED BY <3>1, <3>2, <1>4 DEF Conds
  <2>3. << >> \in Seq(Cond) /\ l.d \in {"ifdef", "ifndef", "else", "elif", "endif"}
    BY <2>1
  <2>4. Reached(lines, In(stk, f, 1 + 1, c, env, out))
    BY <2>1, <2>2, <2>3, <1>6, ReachedBranch
  <2> QED BY <2>4
<1>8. Reached(lines, In(stk, f, k, c, env, out))
  <2>1. Level(y, 2) = 1
    <3>1. Level(y, 1) = 0 /\ y[1].d \in Ifs /\ 1 \in Nat \ {0} /\ 1 + 1 = 2
      BY Levels DEF Guarded, Ifs
    <3>2. Level(y, 1 + 1) = Level(y, 1) + 1
      BY <3>1, Levels
    <3> QED BY <3>1, <3>2
  <2>2. Level(y, k) = Level(y, 2) /\ \A u \in 2 .. k : Level(y, u) >= Level(y, 2)
    BY <1>1, <2>1 DEF Guarded
  <2>3. \A u \in 2 .. k - 1 : y[u].d \in {"else", "elif"} => Level(y, u) > Level(y, 2)
    BY <1>1, <2>1 DEF Guarded
  <2>4. ~AllOn(c) /\ 2 \in Nat \ {0} /\ 2 <= k /\ k <= Len(y) /\ Len(y) \in Nat
    BY <1>1, <1>6
  <2> QED BY <2>2, <2>3, <2>4, <1>1, <1>5, <1>7, SkipRun
<1>9. Reached(lines, In(stk, f, k + 1, << >>, env, out))
  <2>1. PICK l : l = lines[f][k] /\ l.d = "endif" /\ ~(k > Len(lines[f]))
    BY <1>1 DEF Guarded
  <2>2. Conds(c, l, FALSE, env) = << >>
    BY <2>1, <1>5 DEF Conds
  <2> QED BY <2>1, <2>2, <1>1, <1>5, <1>6, <1>8, ReachedBranch
<1>10. k + 1 > Len(lines[f]) /\ << >> \in Seq(Cond) /\ k + 1 \in Nat
  BY <1>1
<1> QED BY <1>9, <1>10, ReachedEnd

-----------------------------------------------------------------------------
(* Where preprocess_skip goes from line p: to the first line that ends the *)
(* branch.  Nothing else of the file changes.                              *)
BranchEnds(x, p, q) ==
    /\ q \in p .. Len(x) /\ Level(x, q) = Level(x, p) /\ x[q].d \in {"else", "elif", "endif"}
    /\ \A u \in p .. q : Level(x, u) >= Level(x, p)
    /\ \A u \in p .. q - 1 : x[u].d \in {"else", "elif"} => Level(x, u) > Level(x, p)
SameButPos(f) ==
    /\ file'.name = f.name /\ file'.ifdef_stack_ptr = f.ifdef_stack_ptr
    /\ file'.ifndef_macro = f.ifndef_macro

(* preprocess_skip ends at the line that ends the branch.                   *)
LEMMA SkipGoes ==
    ASSUME NEW x, x = lines[file.name], Len(x) \in Nat, Matched(x),
           NEW f \in File, f.name = file.name, f.pos = file.pos,
           NEW p \in 1 .. Len(x) + 1, p = file.pos + 1, Level(x, p) > 0, Skip(f)
    PROVE  mode' = mode /\ SameButPos(f) /\ BranchEnds(x, p, file'.pos)
<1>1. PICK n : n = CHOOSE q \in SkipStops(p) : \A r \in SkipStops(p) : q <= r
  OBVIOUS
<1>2. /\ SkipStops(p) # {} /\ n \in p .. Len(x) /\ Level(x, n) = Level(x, p)
      /\ \A u \in p .. n : Level(x, u) >= Level(x, p)
  BY <1>1, SkipArrives
<1>3. SkipStops(p) = {q \in p .. Len(x) : /\ x[q].d \in {"else", "elif", "endif"}
                                          /\ Level(x, p) = Level(x, q)}
  <2>1. p \in Nat \ {0}
    OBVIOUS
  <2> QED BY <2>1, SkipStopsAre
<1>4. n \in SkipStops(p) /\ \A r \in SkipStops(p) : n <= r
  <2>1. SkipStops(p) \subseteq Nat
    BY <1>3
  <2>2. \E q \in SkipStops(p) : \A r \in SkipStops(p) : q <= r
    BY <2>1, <1>2, LeastNat
  <2> QED BY <2>2, <1>1
<1>5. file' = [f EXCEPT !.pos = n] /\ mode' = mode
  BY <1>1, <1>2 DEF Skip
<1>6. file'.pos = n /\ SameButPos(f)
  BY <1>5 DEF File, SameButPos
<1>7. ASSUME NEW u \in p .. n - 1, x[u].d \in {"else", "elif"} PROVE Level(x, u) > Level(x, p)
  <2>1. u \in p .. n /\ u \in p .. Len(x) /\ ~(n <= u) /\ u \in Nat \ {0} /\ p \in Nat \ {0}
    BY <1>2
  <2>2. u \notin SkipStops(p)
    BY <2>1, <1>4
  <2>3. Level(x, p) # Level(x, u)
    BY <2>1, <2>2, <1>3, <1>7
  <2>4. Level(x, u) \in Int /\ Level(x, p) \in Int
    BY <2>1, Levels
  <2> QED BY <2>1, <2>3, <2>4, <1>2
<1>8. x[n].d \in {"else", "elif", "endif"}
  BY <1>3, <1>4
<1> QED BY <1>2, <1>5, <1>6, <1>7, <1>8 DEF BranchEnds

(* test_skip goes on behind the line, or skips.                            *)
LEMMA TestSkipGoes ==
    ASSUME NEW x, x = lines[file.name], Len(x) \in Nat, Matched(x),
           NEW f \in File, f.name = file.name, f.pos = file.pos,
           NEW p \in 1 .. Len(x) + 1, p = file.pos + 1, Level(x, p) > 0,
           NEW c, TestSkip(f, c)
    PROVE  /\ mode' = mode /\ SameButPos(f)
           /\ c % 2 = 1 => file'.pos = p
           /\ ~(c % 2 = 1) => BranchEnds(x, p, file'.pos)
<1>1. CASE c % 2 = 1
  <2>1. Advance(f) /\ mode' = mode
    BY <1>1 DEF TestSkip
  <2>2. file'.pos = p /\ SameButPos(f)
    BY <2>1 DEF Advance, File, SameButPos
  <2> QED BY <2>1, <2>2, <1>1
<1>2. CASE ~(c % 2 = 1)
  BY <1>2, SkipGoes DEF TestSkip
<1> QED BY <1>1, <1>2

-----------------------------------------------------------------------------
(* What the marks of a header say: that its first line is an #ifndef m     *)
(* that is open before line p, or that the line before p closed it.  The   *)
(* first may be said behind an #include as well, for the marks of the file *)
(* that was included are still there.                                      *)
GuardOpen(x, p, m) ==
    /\ p >= 2 /\ x[1].d = "ifndef" /\ x[1].m = m
    /\ \A u \in 2 .. p : Level(x, u) >= 1
GuardClosed(x, p, m) == GuardOpen(x, p - 1, m) /\ x[p - 1].d = "endif" /\ Level(x, p - 1) = 1
BehindInclude(g) == g.pos > 1 /\ lines[g.name][g.pos - 1].d = "include"
GuardKnown(g) ==
    g.name \in Headers /\ g.ifndef_macro # NoMacro =>
        GuardOpen(lines[g.name], g.pos, g.ifndef_macro)
FlagsRight ==
    file.name \in Headers =>
        /\ "BOF" \in next_tok_flags => file.pos = 1 \/ BehindInclude(file)
        /\ "ENDIF" \in next_tok_flags =>
              \/ BehindInclude(file)
              \/ GuardClosed(lines[file.name], file.pos, file.ifndef_macro_saved)

(* With headers that are plain, what the cache says of them is true.       *)
Good == AllWellFormed /\ \A f \in Headers : Plain(f)
CacheRight == \A e \in cached : Guarded(lines[e.name], e.ifndef_macro)
SuspendedRight ==
    \A i \in 1 .. Len(include_stack) :
        BehindInclude(include_stack[i]) /\ GuardKnown(include_stack[i])
Marks == /\ CacheRight
         /\ mode = "read" => SuspendedRight /\ GuardKnown(file) /\ FlagsRight
GInv == Good => Marks

(* The files do not change, so that good ones stay good.                    *)
LEMMA GoodKept ==
    ASSUME UNCHANGED lines PROVE Good' <=> Good
<1>1. (\A f \in Headers : Plain(f))' <=> \A f \in Headers : Plain(f)
  BY DEF Plain, Of, Owner, Owners, OpensIn, Length
<1> QED BY <1>1, WellFormedKept DEF Good

(* A guard stays open over lines that are in it.                           *)
LEMMA GuardOn ==
    ASSUME NEW x, NEW m, NEW p \in Nat, NEW q \in Nat, GuardOpen(x, p, m), p <= q,
           \A u \in p .. q : Level(x, u) >= Level(x, p)
    PROVE  GuardOpen(x, q, m)
<1>1. p >= 2 /\ p \in 2 .. p /\ \A u \in 2 .. p : Level(x, u) >= 1
  BY DEF GuardOpen
<1>2. ASSUME NEW u \in 2 .. q PROVE Level(x, u) >= 1
  <2>1. CASE u <= p
    BY <2>1, <1>1
  <2>2. CASE ~(u <= p)
    <3>1. u \in p .. q /\ u \in Nat \ {0} /\ p \in Nat \ {0}
      BY <2>2, <1>1
    <3>2. Level(x, u) \in Int /\ Level(x, p) \in Int
      BY <3>1, Levels
    <3> QED BY <3>1, <3>2, <1>1
  <2> QED BY <2>1, <2>2
<1> QED BY <1>1, <1>2 DEF GuardOpen

(* And over a line that is no #endif.                                      *)
LEMMA GuardNext ==
    ASSUME NEW x, NEW m, NEW p \in Nat, GuardOpen(x, p, m), x[p].d # "endif"
    PROVE  GuardOpen(x, p + 1, m)
<1>1. p \in Nat \ {0} /\ p \in 2 .. p
  BY DEF GuardOpen
<1>2. Level(x, p) \in Int /\ Level(x, p) >= 1
  BY <1>1, Levels DEF GuardOpen
<1>3. Level(x, p + 1) >= Level(x, p)
  <2>1. CASE x[p].d \in Ifs
    BY <2>1, <1>1, <1>2, Levels
  <2>2. CASE x[p].d \notin Ifs
    <3>1. x[p].d \notin Ifs \union {"endif"}
      BY <2>2
    <3>2. Level(x, p + 1) = Level(x, p)
      BY <3>1, <1>1, Levels
    <3> QED BY <3>2, <1>2
  <2> QED BY <2>1, <2>2
<1>4. \A u \in p .. p + 1 : Level(x, u) >= Level(x, p)
  <2>1. \A u \in p .. p + 1 : u = p \/ u = p + 1
    OBVIOUS
  <2> QED BY <2>1, <1>2, <1>3
<1> QED BY <1>4, GuardOn

(* A directive that stays in its file and clears the flags: f is the file  *)
(* behind the line, q the line at which it goes on.                        *)
LEMMA OnwardMarks ==
    ASSUME IInv, Marks, mode = "read", UNCHANGED <<lines, include_stack, cached>>,
           next_tok_flags' = {}, NEW f, f.name = file.name, NEW p, p = file.pos + 1,
           NEW x, x = lines[file.name],
           f.name \in Headers /\ f.ifndef_macro # NoMacro => GuardOpen(x, p, f.ifndef_macro),
           mode' = "read" => /\ SameButPos(f) /\ file'.pos \in Nat /\ p <= file'.pos
                             /\ \A u \in p .. file'.pos : Level(x, u) >= Level(x, p)
    PROVE  Marks'
<1>1. CacheRight'
  BY DEF Marks, CacheRight
<1>2. ASSUME mode' = "read" PROVE SuspendedRight' /\ GuardKnown(file)' /\ FlagsRight'
  <2>1. SuspendedRight'
    BY DEF Marks, SuspendedRight, GuardKnown, BehindInclude
  <2>2. FlagsRight'
    BY DEF FlagsRight
  <2>3. PICK q : q = file'.pos
    OBVIOUS
  <2>4. file.pos \in Nat
    BY DEF IInv, TypeOK, File
  <2>5. p \in Nat /\ q \in Nat /\ p <= q /\ \A u \in p .. q : Level(x, u) >= Level(x, p)
    BY <1>2, <2>3, <2>4
  <2>6. ASSUME f.name \in Headers /\ f.ifndef_macro # NoMacro
        PROVE  GuardOpen(x, q, f.ifndef_macro)
    BY <2>5, <2>6, GuardOn
  <2>7. GuardKnown(file)'
    BY <1>2, <2>3, <2>6 DEF GuardKnown, SameButPos
  <2> QED BY <2>1, <2>2, <2>7
<1> QED BY <1>1, <1>2 DEF Marks

-----------------------------------------------------------------------------
(* Where the lines of a file are, in good files.                           *)
LEMMA GoodFacts ==
    ASSUME IInv, NInv, Good, mode = "read"
    PROVE  LET x == lines[file.name] IN
           /\ file \in File /\ file.name \in Files /\ file.pos \in Nat \ {0} /\ x \in Seq(Line)
           /\ Len(x) \in Nat /\ Matched(x) /\ file.pos \in 1 .. Len(x) + 1
           /\ Level(x, file.pos) \in Nat
           /\ Len(ifdef_stack) = file.ifdef_stack_ptr + Level(x, file.pos)
           /\ ifdef_stack \in Seq(0 .. 3) /\ Len(ifdef_stack) \in Nat
           /\ file.ifdef_stack_ptr \in Nat
           /\ \A d : At(d) => /\ file.pos \in 1 .. Len(x) /\ x[file.pos].d = d
                              /\ file.pos + 1 \in 1 .. Len(x) + 1 /\ Here = x[file.pos]
                              /\ d \in {"else", "elif", "endif"} => Level(x, file.pos) > 0
<1>1. PICK x, p : x = lines[file.name] /\ p = file.pos
  OBVIOUS
<1>2. file \in File /\ file.name \in Files /\ p \in Nat \ {0} /\ x \in Seq(Line)
  BY <1>1 DEF IInv, TypeOK, File
<1>3. /\ Len(x) \in Nat /\ Matched(x) /\ file.ifdef_stack_ptr \in Nat
      /\ ifdef_stack \in Seq(0 .. 3) /\ Len(ifdef_stack) \in Nat
      /\ Frame(ifdef_stack, x, p, file.ifdef_stack_ptr, Len(ifdef_stack))
      /\ \A d : At(d) => mode = "read" /\ p <= Len(x) /\ x[p].d = d
  BY <1>1, NowFacts DEF Good
<1>4. p \in 1 .. Len(x) + 1 /\ Len(ifdef_stack) = file.ifdef_stack_ptr + Level(x, p)
  BY <1>3 DEF Frame
<1>5. Level(x, p) \in Nat
  BY <1>3, <1>4 DEF Matched
<1>6. ASSUME NEW d, At(d)
      PROVE  /\ p \in 1 .. Len(x) /\ x[p].d = d /\ p + 1 \in 1 .. Len(x) + 1 /\ Here = x[p]
             /\ d \in {"else", "elif", "endif"} => Level(x, p) > 0
  <2>1. p \in 1 .. Len(x) /\ x[p].d = d /\ p + 1 \in 1 .. Len(x) + 1
    BY <1>2, <1>3, <1>6
  <2>2. d \in {"else", "elif", "endif"} => Level(x, p) > 0
    BY <2>1, <1>3 DEF Matched
  <2> QED BY <2>1, <2>2, <1>1 DEF Here
<1> QED BY <1>1, <1>2, <1>3, <1>4, <1>5, <1>6

(* Text, #define and #undef keep the marks right, and so does an #include  *)
(* that is skipped.                                                        *)
LEMMA AdvanceMarks ==
    ASSUME IInv, NInv, Good, Marks, mode = "read", NEW d, At(d), d # "endif", Advance(file),
           next_tok_flags' = {}, UNCHANGED <<lines, include_stack, cached>>
    PROVE  Marks'
<1>1. PICK x, p : x = lines[file.name] /\ p = file.pos + 1
  OBVIOUS
<1>2. file \in File /\ file.pos \in Nat /\ x[file.pos].d # "endif"
  BY <1>1, GoodFacts
<1>3. file.name \in Headers /\ file.ifndef_macro # NoMacro => GuardOpen(x, p, file.ifndef_macro)
  BY <1>1, <1>2, GuardNext DEF Marks, GuardKnown
<1>4. SameButPos(file) /\ file'.pos = p
  BY <1>1, <1>2 DEF Advance, File, SameButPos
<1>5. file'.pos \in Nat /\ p <= file'.pos /\ \A u \in p .. file'.pos : Level(x, u) >= Level(x, p)
  <2>1. p \in Nat \ {0} /\ p <= p /\ \A u \in p .. p : u = p
    BY <1>1, <1>2
  <2>2. Level(x, p) \in Int
    BY <2>1, Levels
  <2> QED BY <2>1, <2>2, <1>4
<1> QED BY <1>1, <1>3, <1>4, <1>5, OnwardMarks

(* Text, #define and #undef.                                                *)
LEMMA PlainMarks ==
    ASSUME IInv, NInv, Good, Marks, Text \/ define \/ undef PROVE Marks'
<1>1. PICK d \in {"text", "define", "undef"} : At(d)
  BY DEF Text, define, undef, Directive
<1>2. /\ d # "endif" /\ mode = "read" /\ Advance(file) /\ next_tok_flags' = {}
      /\ UNCHANGED <<lines, include_stack, cached>>
  BY <1>1 DEF Text, define, undef, Directive, At
<1> QED BY <1>1, <1>2, AdvanceMarks

(* A conditional begins.  f is the file with its new mark.                 *)
LEMMA do_ifMarks ==
    ASSUME IInv, NInv, Good, Marks, NEW d \in Ifs, At(d),
           NEW f \in File, f.name = file.name, f.pos = file.pos,
           NEW c, do_if(f, c), next_tok_flags' = {},
           UNCHANGED <<lines, include_stack, cached>>,
           f.name \in Headers /\ f.ifndef_macro # NoMacro =>
               GuardOpen(lines[f.name], f.pos + 1, f.ifndef_macro)
    PROVE  Marks'
<1>0. mode = "read"
  BY DEF At
<1>1. PICK x, p : x = lines[file.name] /\ p = file.pos + 1
  OBVIOUS
<1>2. /\ file.pos \in Nat \ {0} /\ Len(x) \in Nat /\ Matched(x) /\ p \in 1 .. Len(x) + 1
      /\ x[file.pos].d \in Ifs /\ Level(x, file.pos) \in Nat
  BY <1>0, <1>1, GoodFacts
<1>3. Level(x, p) > 0 /\ Level(x, p) \in Int
  BY <1>1, <1>2, Levels
<1>4. ASSUME mode' = "read"
      PROVE  /\ SameButPos(f) /\ file'.pos \in Nat /\ p <= file'.pos
             /\ \A u \in p .. file'.pos : Level(x, u) >= Level(x, p)
  <2>1. TestSkip(f, c)
    BY <1>4 DEF do_if
  <2>2. /\ SameButPos(f)
        /\ c % 2 = 1 => file'.pos = p
        /\ ~(c % 2 = 1) => BranchEnds(x, p, file'.pos)
    BY <2>1, <1>1, <1>2, <1>3, TestSkipGoes
  <2>3. CASE c % 2 = 1
    <3>1. p \in Nat /\ p <= p /\ \A u \in p .. p : u = p
      BY <1>2
    <3> QED BY <2>2, <2>3, <3>1, <1>3
  <2>4. CASE ~(c % 2 = 1)
    BY <2>2, <2>4, <1>2 DEF BranchEnds
  <2> QED BY <2>3, <2>4
<1>5. f.name \in Headers /\ f.ifndef_macro # NoMacro => GuardOpen(x, p, f.ifndef_macro)
  BY <1>1
<1> QED BY <1>0, <1>1, <1>4, <1>5, OnwardMarks

(* The first line of a header may be its guard.                            *)
LEMMA ifMarks ==
    ASSUME IInv, NInv, Good, Marks, ifdef \/ ifndef PROVE Marks'
<1>0. mode = "read"
  BY DEF ifdef, ifndef, Directive, At
<1>1. PICK x, p : x = lines[file.name] /\ p = file.pos
  OBVIOUS
<1>2. PICK d \in Ifs : At(d)
  BY DEF ifdef, ifndef, Directive, Ifs
<1>3. /\ file \in File /\ p \in Nat \ {0} /\ p \in 1 .. Len(x) /\ x[p].d = d /\ x \in Seq(Line)
      /\ Len(x) \in Nat /\ x[p].d # "endif" /\ Here = x[p]
  BY <1>0, <1>1, <1>2, GoodFacts DEF Ifs
<1>4. file.name \in Headers /\ file.ifndef_macro # NoMacro =>
          GuardOpen(x, p + 1, file.ifndef_macro)
  BY <1>0, <1>1, <1>3, GuardNext DEF Marks, GuardKnown
<1>5. next_tok_flags' = {} /\ UNCHANGED <<lines, include_stack, cached>>
  BY DEF ifdef, ifndef, Directive
<1>6. ASSUME NEW c, do_if(file, c) PROVE Marks'
  BY <1>1, <1>2, <1>3, <1>4, <1>5, <1>6, do_ifMarks
<1>7. CASE ifdef
  <2>1. PICK c : c = Bit(Here.m \in defined)
    OBVIOUS
  <2> QED BY <2>1, <1>6, <1>7 DEF ifdef
<1>8. CASE ifndef
  <2>1. PICK c : c = Bit(Here.m \notin defined)
    OBVIOUS
  <2>2. CASE "BOF" \notin next_tok_flags
    BY <2>1, <2>2, <1>6, <1>8 DEF ifndef
  <2>3. CASE "BOF" \in next_tok_flags
    <3>1. PICK f : f = [file EXCEPT !.ifndef_macro = Here.m]
      OBVIOUS
    <3>2. do_if(f, c) /\ At("ifndef")
      BY <2>1, <2>3, <3>1, <1>8 DEF ifndef, Directive
    <3>3. Here.m \in Macros /\ x[p].d = "ifndef"
      BY <3>2, <1>3, LineFacts DEF IInv
    <3>4. /\ f \in File /\ f.name = file.name /\ f.pos = file.pos /\ f.ifndef_macro = x[p].m
      BY <3>1, <3>3, <1>3 DEF File
    <3>5. ASSUME file.name \in Headers PROVE GuardOpen(x, p + 1, x[p].m)
      <4>1. p = 1
        <5>1. p = 1 \/ (p > 1 /\ x[p - 1].d = "include")
          BY <2>3, <3>5, <1>0, <1>1 DEF Marks, FlagsRight, BehindInclude
        <5>2. ASSUME p > 1, x[p - 1].d = "include" PROVE FALSE
          <6>1. p - 1 \in 1 .. Len(x) /\ (p - 1) + 1 = p
            BY <5>2, <1>3
          <6>2. p - 1 \in Of(file.name, {"include"})
            BY <5>2, <6>1, <1>1 DEF Of, Length
          <6>3. lines[file.name][(p - 1) + 1].d # "ifndef"
            BY <6>2, <3>5 DEF Good, Plain
          <6> QED BY <6>1, <6>3, <3>3, <1>1
        <5> QED BY <5>1, <5>2
      <4>2. Level(x, 1) = 0 /\ Level(x, 1 + 1) = Level(x, 1) + 1
        <5>1. x[1].d \in Ifs /\ 1 \in Nat \ {0}
          BY <4>1, <3>3 DEF Ifs
        <5> QED BY <5>1, Levels
      <4>3. \A u \in 2 .. 2 : u = 2
        OBVIOUS
      <4> QED BY <4>1, <4>2, <4>3, <3>3 DEF GuardOpen
    <3>6. f.name \in Headers /\ f.ifndef_macro # NoMacro =>
              GuardOpen(lines[f.name], f.pos + 1, f.ifndef_macro)
      BY <3>4, <3>5, <1>1
    <3> QED BY <3>2, <3>4, <3>6, <1>2, <1>5, do_ifMarks
  <2> QED BY <2>2, <2>3
<1> QED BY <1>7, <1>8

(* #else and #elif.                                                        *)
LEMMA BranchMarks ==
    ASSUME IInv, NInv, Good, Marks, else \/ elif PROVE Marks'
<1>0. mode = "read"
  BY DEF else, elif, Directive, At
<1>1. PICK x, p : x = lines[file.name] /\ p = file.pos + 1
  OBVIOUS
<1>2. PICK d \in {"else", "elif"} : At(d)
  BY DEF else, elif, Directive
<1>3. /\ file \in File /\ file.pos \in Nat \ {0} /\ p \in 1 .. Len(x) + 1 /\ x[file.pos].d = d
      /\ Len(x) \in Nat /\ Matched(x) /\ Level(x, file.pos) > 0
  BY <1>0, <1>1, <1>2, GoodFacts
<1>4. Level(x, p) > 0 /\ Level(x, p) \in Int
  <2>1. x[file.pos].d \notin Ifs \union {"endif"}
    BY <1>3 DEF Ifs
  <2>2. Level(x, p) = Level(x, file.pos) /\ Level(x, file.pos) \in Int
    BY <2>1, <1>1, <1>3, Levels
  <2> QED BY <2>2, <1>3
<1>5. file.name \in Headers /\ file.ifndef_macro # NoMacro => GuardOpen(x, p, file.ifndef_macro)
  BY <1>0, <1>1, <1>3, GuardNext DEF Marks, GuardKnown
<1>6. ASSUME mode' = "read"
      PROVE  /\ SameButPos(file) /\ file'.pos \in Nat /\ p <= file'.pos
             /\ \A u \in p .. file'.pos : Level(x, u) >= Level(x, p)
  <2>1. Skip(file) \/ \E c : TestSkip(file, c)
    BY <1>6, <1>0 DEF else, elif, Fails
  <2>2. SameButPos(file) /\ (file'.pos = p \/ BranchEnds(x, p, file'.pos))
    <3>1. ASSUME NEW c, TestSkip(file, c)
          PROVE  SameButPos(file) /\ (file'.pos = p \/ BranchEnds(x, p, file'.pos))
      BY <3>1, <1>1, <1>3, <1>4, TestSkipGoes
    <3>2. CASE Skip(file)
      BY <3>2, <1>1, <1>3, <1>4, SkipGoes
    <3> QED BY <2>1, <3>1, <3>2
  <2>3. CASE file'.pos = p
    <3>1. p \in Nat /\ p <= p /\ \A u \in p .. p : u = p
      BY <1>3
    <3> QED BY <2>2, <2>3, <3>1, <1>4
  <2>4. CASE BranchEnds(x, p, file'.pos)
    BY <2>2, <2>4, <1>3 DEF BranchEnds
  <2> QED BY <2>2, <2>3, <2>4
<1>7. next_tok_flags' = {} /\ UNCHANGED <<lines, include_stack, cached>>
  BY DEF else, elif, Directive
<1> QED BY <1>0, <1>1, <1>5, <1>6, <1>7, OnwardMarks

(* The #endif of the guard leaves the mark that it is closed.              *)
LEMMA endifMarks ==
    ASSUME IInv, NInv, Good, Marks, endif PROVE Marks'
<1>0. mode = "read" /\ At("endif") /\ UNCHANGED <<lines, include_stack, cached>>
  BY DEF endif, At
<1>1. PICK x, p, m : x = lines[file.name] /\ p = file.pos /\ m = file.ifndef_macro
  OBVIOUS
<1>2. /\ file \in File /\ p \in Nat \ {0} /\ p \in 1 .. Len(x) /\ x[p].d = "endif"
      /\ Level(x, p) \in Nat /\ Level(x, p) > 0 /\ ifdef_stack \in Seq(0 .. 3)
      /\ Len(ifdef_stack) = file.ifdef_stack_ptr + Level(x, p) /\ Len(ifdef_stack) \in Nat
      /\ file.ifdef_stack_ptr \in Nat
  BY <1>0, <1>1, GoodFacts
<1>3. Level(x, p + 1) = Level(x, p) - 1
  BY <1>2, Levels
<1>4. ifdef_stack' = SubSeq(ifdef_stack, 1, Len(ifdef_stack) - 1) /\ mode' = mode
  BY <1>2 DEF endif
<1>5. Len(ifdef_stack') = Len(ifdef_stack) - 1
  BY <1>2, <1>4
<1>6. file.name \in Headers /\ m # NoMacro => GuardOpen(x, p, m)
  BY <1>0, <1>1 DEF Marks, GuardKnown
<1>7. CASE m # NoMacro /\ Len(ifdef_stack') = file.ifdef_stack_ptr
  <2>1. /\ Advance([file EXCEPT !.ifndef_macro_saved = file.ifndef_macro,
                                !.ifndef_macro = NoMacro])
        /\ next_tok_flags' = {"ENDIF"}
    BY <1>1, <1>2, <1>7 DEF endif
  <2>2. /\ file'.name = file.name /\ file'.pos = p + 1 /\ file'.ifndef_macro = NoMacro
        /\ file'.ifndef_macro_saved = m
    BY <2>1, <1>1, <1>2 DEF Advance, File
  <2>3. Level(x, p) = 1
    BY <1>2, <1>5, <1>7
  <2>4. file.name \in Headers => GuardClosed(x, p + 1, m)
    <3>1. (p + 1) - 1 = p
      BY <1>2
    <3> QED BY <3>1, <2>3, <1>2, <1>6, <1>7 DEF GuardClosed
  <2>5. FlagsRight' /\ GuardKnown(file)'
    BY <2>1, <2>2, <2>4, <1>0, <1>1 DEF FlagsRight, GuardKnown
  <2>6. CacheRight' /\ (mode' = "read" => SuspendedRight')
    BY <1>0 DEF Marks, CacheRight, SuspendedRight, GuardKnown, BehindInclude
  <2> QED BY <2>5, <2>6 DEF Marks
<1>8. CASE ~(m # NoMacro /\ Len(ifdef_stack') = file.ifdef_stack_ptr)
  <2>1. Advance(file) /\ next_tok_flags' = {}
    BY <1>1, <1>2, <1>8 DEF endif
  <2>2. SameButPos(file) /\ file'.pos = p + 1
    BY <2>1, <1>1, <1>2 DEF Advance, File, SameButPos
  <2>3. ASSUME file.name \in Headers, m # NoMacro PROVE GuardOpen(x, p + 1, m)
    <3>1. Level(x, p + 1) >= 1
      BY <2>3, <1>2, <1>3, <1>5, <1>8
    <3>2. GuardOpen(x, p, m)
      BY <2>3, <1>6
    <3>3. \A u \in 2 .. p + 1 : u \in 2 .. p \/ u = p + 1
      BY <1>2
    <3>4. p + 1 >= 2
      BY <1>2
    <3> QED BY <3>1, <3>2, <3>3, <3>4 DEF GuardOpen
  <2>4. PICK q : q = p + 1
    OBVIOUS
  <2>5. q \in Nat /\ q <= q /\ \A u \in q .. q : Level(x, u) >= Level(x, q)
    <3>1. q \in Nat \ {0} /\ \A u \in q .. q : u = q
      BY <2>4, <1>2
    <3>2. Level(x, q) \in Int
      BY <3>1, Levels
    <3> QED BY <3>1, <3>2
  <2>6. file'.pos = q /\ q = file.pos + 1
    BY <2>2, <2>4, <1>1
  <2>7. file.name \in Headers /\ file.ifndef_macro # NoMacro =>
            GuardOpen(x, q, file.ifndef_macro)
    BY <2>3, <2>4, <1>1
  <2> QED BY <2>1, <2>2, <2>5, <2>6, <2>7, <1>0, <1>1, OnwardMarks
<1> QED BY <1>7, <1>8

(* The file that an #include opens has no marks yet.                       *)
LEMMA includeMarks ==
    ASSUME IInv, NInv, Good, Marks, include PROVE Marks'
<1>0. mode = "read" /\ At("include") /\ UNCHANGED <<lines, cached>>
  BY DEF include, At
<1>1. PICK x, p : x = lines[file.name] /\ p = file.pos
  OBVIOUS
<1>2. /\ file \in File /\ p \in Nat \ {0} /\ p \in 1 .. Len(x) /\ x[p].d = "include"
      /\ Here = x[p]
  BY <1>0, <1>1, GoodFacts
<1>3. CASE Skipped(Here.name, Here.c)
  <2>1. Advance(file) /\ next_tok_flags' = {} /\ UNCHANGED include_stack
    BY <1>3 DEF include
  <2> QED BY <2>1, <1>0, AdvanceMarks
<1>4. CacheRight'
  BY <1>0 DEF Marks, CacheRight
<1>5. CASE ~Skipped(Here.name, Here.c) /\ Len(include_stack) < INCLUDE_STACK_SIZE
  <2>1. /\ include_stack' = Append(include_stack, Suspended)
        /\ file' = tcc_open(Here.name, Here.c)
        /\ next_tok_flags' = {"BOF"} /\ mode' = mode
    BY <1>5 DEF include
  <2>2. PICK K \in Nat : K = Len(include_stack)
    BY BasesBelow
  <2>3. PICK g : g = Suspended
    OBVIOUS
  <2>4. /\ Len(include_stack') = K + 1 /\ include_stack'[K + 1] = g
        /\ \A i \in 1 .. K : include_stack'[i] = include_stack[i]
    <3>1. include_stack \in Seq(File) /\ g \in File
      <4>1. file.pos + 1 \in Nat \ {0}
        BY <1>1, <1>2
      <4> QED BY <4>1, <2>3, <1>2 DEF IInv, TypeOK, Suspended, File
    <3> QED BY <3>1, <2>1, <2>2, <2>3
  <2>5. g.name = file.name /\ g.pos = p + 1 /\ g.ifndef_macro = file.ifndef_macro
    BY <2>3, <1>1, <1>2 DEF Suspended, File
  <2>6. BehindInclude(g)
    <3>1. p + 1 > 1 /\ (p + 1) - 1 = p
      BY <1>2
    <3> QED BY <3>1, <2>5, <1>1, <1>2 DEF BehindInclude
  <2>7. GuardKnown(g)
    <3>1. x[p].d # "endif" /\ p \in Nat
      BY <1>2
    <3>2. file.name \in Headers /\ file.ifndef_macro # NoMacro =>
             GuardOpen(x, p, file.ifndef_macro)
      BY <1>0, <1>1 DEF Marks, GuardKnown
    <3>3. file.name \in Headers /\ file.ifndef_macro # NoMacro =>
             GuardOpen(x, p + 1, file.ifndef_macro)
      BY <3>1, <3>2, GuardNext
    <3> QED BY <3>3, <2>5, <1>1 DEF GuardKnown
  <2>9. ASSUME NEW i \in 1 .. K + 1
        PROVE  BehindInclude(include_stack[i])' /\ GuardKnown(include_stack[i])'
    <3>1. PICK h : h = include_stack'[i]
      OBVIOUS
    <3>2. BehindInclude(h) /\ GuardKnown(h)
      <4>1. CASE i = K + 1
        BY <4>1, <3>1, <2>4, <2>6, <2>7
      <4>2. CASE i \in 1 .. K
        BY <4>2, <3>1, <2>2, <2>4, <1>0 DEF Marks, SuspendedRight
      <4> QED BY <4>1, <4>2
    <3> QED BY <3>1, <3>2, <1>0 DEF BehindInclude, GuardKnown
  <2>10. SuspendedRight'
    BY <2>4, <2>9 DEF SuspendedRight
  <2>11. file'.pos = 1 /\ file'.ifndef_macro = NoMacro
    BY <2>1 DEF tcc_open
  <2>12. GuardKnown(file)' /\ FlagsRight'
    BY <2>1, <2>11 DEF GuardKnown, FlagsRight
  <2> QED BY <2>10, <2>12, <1>4 DEF Marks
<1>6. CASE ~Skipped(Here.name, Here.c) /\ ~(Len(include_stack) < INCLUDE_STACK_SIZE)
  <2>1. mode' # "read"
    BY <1>6 DEF include
  <2> QED BY <2>1, <1>4 DEF Marks
<1> QED BY <1>3, <1>5, <1>6

(* A header that is put into the cache ends with the #endif of the guard   *)
(* it begins with, and none of its #else and #elif belongs to that.        *)
LEMMA GuardEnds ==
    ASSUME IInv, NInv, Good, Marks, mode = "read", AtEnd, file.name \in Headers,
           "ENDIF" \in next_tok_flags
    PROVE  Guarded(lines[file.name], file.ifndef_macro_saved)
<1>1. PICK x, p, m, n :
         /\ x = lines[file.name] /\ p = file.pos /\ m = file.ifndef_macro_saved /\ n = Len(x)
  OBVIOUS
<1>2. p \in Nat \ {0} /\ n \in Nat /\ Matched(x) /\ p \in 1 .. n + 1 /\ file.name \in Files
  BY <1>1, GoodFacts
<1>3. p = n + 1 /\ p - 1 = n
  BY <1>1, <1>2 DEF AtEnd, Length
<1>4. GuardClosed(x, p, m)
  <2> SUFFICES ASSUME BehindInclude(file) PROVE FALSE
    BY <1>1 DEF Marks, FlagsRight
  <2>1. p > 1 /\ x[n].d = "include"
    BY <1>1, <1>3 DEF BehindInclude
  <2>2. n \in Of(file.name, {"include"}) /\ Length(file.name) = n
    BY <2>1, <1>1, <1>2, <1>3 DEF Of, Length
  <2> QED BY <2>2, <1>2 DEF Good, Plain
<1>5. /\ n >= 2 /\ x[1].d = "ifndef" /\ x[1].m = m /\ x[n].d = "endif" /\ Level(x, n) = 1
      /\ \A u \in 2 .. n : Level(x, u) >= 1
  BY <1>3, <1>4 DEF GuardClosed, GuardOpen
<1>6. ASSUME NEW u \in 2 .. n - 1, x[u].d \in {"else", "elif"}, ~(Level(x, u) > 1)
      PROVE  FALSE
  <2>1. u \in Nat \ {0} /\ u \in 1 .. n /\ u \in 2 .. n
    BY <1>2
  <2>2. Level(x, u) = 1
    BY <2>1, <1>5, <1>6, Levels
  <2>3. u \in Of(file.name, {"else", "elif"})
    BY <2>1, <1>1, <1>6 DEF Of, Length
  <2>4. Owners(file.name, u) # {}
    <3>1. u \in Of(file.name, {"else", "elif", "endif"})
      BY <2>1, <1>1, <1>6 DEF Of, Length
    <3> QED BY <3>1, <1>2 DEF Good, AllWellFormed, WellFormed
  <2>5. PICK j : j = Owner(file.name, u)
    OBVIOUS
  <2>6. j \in 1 .. u - 1 /\ x[j].d \in Ifs /\ Level(x, j + 1) = Level(x, u)
    BY <2>1, <2>4, <2>5, <1>1, OwnerIs
  <2>7. ASSUME j # 1 PROVE FALSE
    <3>0. j # 1
      BY <2>7
    <3>1. j \in 2 .. n /\ j \in Nat \ {0}
      <4>1. j \in 1 .. u - 1 /\ u \in 1 .. n
        BY <2>1, <2>6
      <4> QED BY <4>1, <3>0, <1>2
    <3>2. Level(x, j) >= 1 /\ Level(x, j) \in Int /\ Level(x, j + 1) = Level(x, j) + 1
      BY <3>1, <2>6, <1>5, Levels
    <3> QED BY <3>2, <2>2, <2>6
  <2> QED BY <2>3, <2>5, <2>7, <1>1, <1>5 DEF Good, Plain
<1> QED BY <1>1, <1>2, <1>5, <1>6 DEF Guarded

(* At the end of a header.                                                 *)
LEMMA PopIncludeMarks ==
    ASSUME IInv, NInv, Good, Marks, PopInclude PROVE Marks'
<1>0. /\ mode = "read" /\ AtEnd /\ include_stack # << >> /\ file.name \in Headers
      /\ UNCHANGED <<lines, next_tok_flags>>
  BY DEF PopInclude, IInv, Included
<1>1. CacheRight'
  <2> SUFFICES ASSUME "ENDIF" \in next_tok_flags PROVE CacheRight'
    BY <1>0 DEF PopInclude, Marks, CacheRight
  <2>1. PICK m : m = file.ifndef_macro_saved
    OBVIOUS
  <2>2. Guarded(lines[file.name], m)
    BY <2>1, <1>0, GuardEnds
  <2>3. m # Junk
    <3>1. PICK x : x = lines[file.name] /\ x[1].d = "ifndef" /\ x[1].m = m /\ Len(x) >= 2
      BY <2>2 DEF Guarded
    <3>2. x \in Seq(Line)
      BY <3>1 DEF IInv, TypeOK, File
    <3>3. x[1] \in Line
      BY <3>1, <3>2
    <3>4. x[1].m \in Macros
      BY <3>1, <3>3 DEF Line
    <3> QED BY <3>1, <3>4, IncludeAssumption
  <2>4. add_cached_include(m)
    BY <2>1, <2>3 DEF PopInclude
  <2>5. ASSUME NEW e \in cached' PROVE Guarded(lines[e.name], e.ifndef_macro)
    <3>1. e \in cached \/ (e.name = file.name /\ e.ifndef_macro = m)
      BY <2>4, <2>5 DEF add_cached_include
    <3> QED BY <3>1, <2>2 DEF Marks, CacheRight
  <2> QED BY <2>5, <1>0 DEF CacheRight
<1>2. PICK K \in Nat : K = Len(include_stack)
  BY BasesBelow
<1>3. include_stack \in Seq(File) /\ K > 0
  BY <1>0, <1>2 DEF IInv, TypeOK
<1>4. Len(include_stack') = K - 1 /\ \A i \in 1 .. K - 1 : include_stack'[i] = include_stack[i]
  <2>1. \A k \in 0 .. K : /\ Len(SubSeq(include_stack, 1, k)) = k
                          /\ \A i \in 1 .. k : SubSeq(include_stack, 1, k)[i] = include_stack[i]
    BY <1>2, <1>3
  <2>2. K - 1 \in 0 .. K
    BY <1>3
  <2>3. include_stack' = SubSeq(include_stack, 1, K - 1)
    BY <1>2 DEF PopInclude
  <2> QED BY <2>1, <2>2, <2>3
<1>5. file' = include_stack[K] /\ K \in 1 .. K
  BY <1>2, <1>3 DEF PopInclude, Including
<1>6. \A i \in 1 .. K : BehindInclude(include_stack[i]) /\ GuardKnown(include_stack[i])
  BY <1>0, <1>2 DEF Marks, SuspendedRight
<1>7. SuspendedRight'
  <2>1. \A i \in 1 .. K - 1 : BehindInclude(include_stack[i]) /\ GuardKnown(include_stack[i])
    BY <1>3, <1>6
  <2> QED BY <2>1, <1>0, <1>4 DEF SuspendedRight, BehindInclude, GuardKnown
<1>8. GuardKnown(file)' /\ FlagsRight'
  <2>1. BehindInclude(include_stack[K]) /\ GuardKnown(include_stack[K])
    BY <1>5, <1>6
  <2> QED BY <2>1, <1>0, <1>5 DEF FlagsRight, BehindInclude, GuardKnown
<1> QED BY <1>1, <1>7, <1>8 DEF Marks

(* What the cache and the marks of good files say is true.                 *)
LEMMA GuardsRight ==
    ASSUME IInv, NInv, GInv, [Next]_vars PROVE GInv'
<1>1. UNCHANGED lines
  BY DEF Next, Text, define, undef, ifdef, ifndef, else, elif, endif, include, PopInclude,
         EndOfFile, tcc_compile, Directive, vars
<1> SUFFICES ASSUME Good PROVE Marks'
  BY <1>1, GoodKept DEF GInv
<1>2. Marks
  BY DEF GInv
<1>3. ASSUME UNCHANGED <<lines, cached>>, mode' = "read" =>
                UNCHANGED <<mode, file, include_stack, next_tok_flags>>
      PROVE  Marks'
  <2>1. CacheRight'
    BY <1>2, <1>3 DEF Marks, CacheRight
  <2>2. mode' = "read" => SuspendedRight' /\ GuardKnown(file)' /\ FlagsRight'
    BY <1>2, <1>3 DEF Marks, SuspendedRight, GuardKnown, FlagsRight, BehindInclude
  <2> QED BY <2>1, <2>2 DEF Marks
<1>4. CASE EndOfFile \/ UNCHANGED vars
  BY <1>3, <1>4 DEF EndOfFile, vars
<1>5. CASE tcc_compile
  <2>1. /\ file' = Start /\ include_stack' = << >> /\ UNCHANGED <<lines, cached>>
    BY <1>5 DEF tcc_compile
  <2>2. CacheRight'
    BY <2>1, <1>2 DEF Marks, CacheRight
  <2>3. file'.name \notin Headers
    BY <2>1, IncludeAssumption DEF Start
  <2>4. GuardKnown(file)' /\ FlagsRight'
    BY <2>3 DEF GuardKnown, FlagsRight
  <2>5. SuspendedRight'
    BY <2>1 DEF SuspendedRight
  <2> QED BY <2>2, <2>4, <2>5 DEF Marks
<1> QED BY <1>2, <1>4, <1>5, PlainMarks, ifMarks, BranchMarks, endifMarks, includeMarks,
           PopIncludeMarks DEF Next

-----------------------------------------------------------------------------
(* The reference knows the conditionals c of a file as b + 1 .. t of the   *)
(* stack s.  While a file is being read all its branches are on, but for   *)
(* the last of them where preprocess_skip has arrived.                     *)
SameConds(c, s, b, t) ==
    c \in Seq(Cond) /\ Len(c) = t - b /\ \A i \in 1 .. t - b : c[i].taken <=> s[b + i] # 0
ButLast(c) == c \in Seq(Cond) /\ Len(c) > 0 /\ \A i \in 1 .. Len(c) - 1 : c[i].on
Arrived(c, x, p) ==
    AllOn(c) \/ (ButLast(c) /\ p <= Len(x) /\ x[p].d \in {"else", "elif", "endif"})

(* It does not depend on the stack above t.                                 *)
LEMMA SameCondsKept ==
    ASSUME NEW c, NEW s, NEW b \in Nat, NEW t \in Nat, SameConds(c, s, b, t),
           NEW z, \A i \in 1 .. t : z[i] = s[i]
    PROVE  SameConds(c, z, b, t)
<1>1. \A i \in 1 .. t - b : b + i \in 1 .. t
  OBVIOUS
<1> QED BY <1>1 DEF SameConds

Pushed(d, c, v) == d = Append(c, v)
Replaced(d, c, v) == d = [c EXCEPT ![Len(c)] = v]
Popped(d, c) == d = SubSeq(c, 1, Len(c) - 1)

(* A conditional begins.                                                   *)
LEMMA CondsPush ==
    ASSUME NEW c, AllOn(c), NEW s, NEW b \in Nat, NEW t \in Nat, b <= t, SameConds(c, s, b, t),
           NEW v \in Cond, NEW u \in Nat, u = t + 1,
           NEW z, v.taken <=> z[u] # 0, \A i \in 1 .. t : z[i] = s[i], NEW d, Pushed(d, c, v)
    PROVE  SameConds(d, z, b, u) /\ ButLast(d) /\ (AllOn(d) <=> v.on)
<1>1. PICK k \in Nat : k = t - b
  OBVIOUS
<1>2. c \in Seq(Cond) /\ Len(c) = k /\ \A i \in 1 .. k : c[i].taken <=> s[b + i] # 0
  BY <1>1 DEF SameConds
<1>3. /\ d \in Seq(Cond) /\ Len(d) = k + 1 /\ d[k + 1] = v
      /\ \A i \in 1 .. k : d[i] = c[i]
  BY <1>2 DEF Pushed
<1>4. \A i \in 1 .. k + 1 : i \in 1 .. k \/ i = k + 1
  OBVIOUS
<1>5. \A i \in 1 .. k : d[i].on
  BY <1>2, <1>3 DEF AllOn
<1>6. ButLast(d)
  <2>1. Len(d) > 0 /\ Len(d) - 1 = k
    BY <1>3
  <2> QED BY <2>1, <1>3, <1>5 DEF ButLast
<1>7. AllOn(d) <=> v.on
  <2>1. k + 1 \in 1 .. k + 1
    OBVIOUS
  <2> QED BY <2>1, <1>3, <1>4, <1>5 DEF AllOn
<1>8. ASSUME NEW i \in 1 .. k + 1 PROVE d[i].taken <=> z[b + i] # 0
  <2>1. CASE i \in 1 .. k
    <3>1. b + i \in 1 .. t
      BY <2>1, <1>1
    <3> QED BY <3>1, <2>1, <1>2, <1>3
  <2>2. CASE i = k + 1
    <3>1. b + i = t + 1
      BY <2>2, <1>1
    <3> QED BY <3>1, <2>2, <1>3
  <2> QED BY <2>1, <2>2, <1>4
<1>9. (t + 1) - b = k + 1
  BY <1>1
<1> QED BY <1>3, <1>6, <1>7, <1>8, <1>9 DEF SameConds

(* Another branch of it begins.                                            *)
LEMMA CondsSet ==
    ASSUME NEW c, ButLast(c), NEW s, NEW b \in Nat, NEW t \in Nat, b <= t, SameConds(c, s, b, t),
           NEW v \in Cond, NEW z, v.taken <=> z[t] # 0, \A i \in 1 .. t - 1 : z[i] = s[i],
           NEW d, Replaced(d, c, v)
    PROVE  SameConds(d, z, b, t) /\ ButLast(d) /\ (AllOn(d) <=> v.on)
<1>1. PICK k \in Nat : k = t - b
  OBVIOUS
<1>2. /\ c \in Seq(Cond) /\ Len(c) = k /\ k > 0 /\ \A i \in 1 .. k : c[i].taken <=> s[b + i] # 0
      /\ \A i \in 1 .. k - 1 : c[i].on
  BY <1>1 DEF SameConds, ButLast
<1>3. /\ d \in Seq(Cond) /\ Len(d) = k /\ d[k] = v
      /\ \A i \in 1 .. k - 1 : d[i] = c[i]
  BY <1>2 DEF Replaced
<1>4. \A i \in 1 .. k : i \in 1 .. k - 1 \/ i = k
  OBVIOUS
<1>5. \A i \in 1 .. k - 1 : d[i].on
  BY <1>2, <1>3
<1>6. ButLast(d)
  BY <1>2, <1>3, <1>5 DEF ButLast
<1>7. AllOn(d) <=> v.on
  <2>1. k \in 1 .. k
    BY <1>2
  <2> QED BY <2>1, <1>3, <1>4, <1>5 DEF AllOn
<1>8. ASSUME NEW i \in 1 .. k PROVE d[i].taken <=> z[b + i] # 0
  <2>1. CASE i \in 1 .. k - 1
    <3>1. b + i \in 1 .. t - 1 /\ i \in 1 .. k
      BY <2>1, <1>1
    <3> QED BY <3>1, <2>1, <1>2, <1>3
  <2>2. CASE i = k
    <3>1. b + i = t
      BY <2>2, <1>1
    <3> QED BY <3>1, <2>2, <1>3
  <2> QED BY <2>1, <2>2, <1>4
<1> QED BY <1>1, <1>3, <1>6, <1>7, <1>8 DEF SameConds

(* It ends.                                                                *)
LEMMA CondsPop ==
    ASSUME NEW c, ButLast(c), NEW s, NEW b \in Nat, NEW t \in Nat, b <= t, SameConds(c, s, b, t),
           NEW z, \A i \in 1 .. t - 1 : z[i] = s[i], NEW d, Popped(d, c)
    PROVE  SameConds(d, z, b, t - 1) /\ AllOn(d)
<1>1. PICK k \in Nat : k = t - b
  OBVIOUS
<1>2. /\ c \in Seq(Cond) /\ Len(c) = k /\ k > 0 /\ \A i \in 1 .. k : c[i].taken <=> s[b + i] # 0
      /\ \A i \in 1 .. k - 1 : c[i].on
  BY <1>1 DEF SameConds, ButLast
<1>3. d \in Seq(Cond) /\ Len(d) = k - 1 /\ \A i \in 1 .. k - 1 : d[i] = c[i]
  <2>1. \A h \in 0 .. k : /\ SubSeq(c, 1, h) \in Seq(Cond) /\ Len(SubSeq(c, 1, h)) = h
                          /\ \A i \in 1 .. h : SubSeq(c, 1, h)[i] = c[i]
    BY <1>2
  <2>2. k - 1 \in 0 .. k /\ d = SubSeq(c, 1, k - 1)
    BY <1>2 DEF Popped
  <2> QED BY <2>1, <2>2
<1>4. \A i \in 1 .. k - 1 : i \in 1 .. k /\ b + i \in 1 .. t - 1
  BY <1>1
<1>5. (t - 1) - b = k - 1
  BY <1>1
<1> QED BY <1>2, <1>3, <1>4, <1>5 DEF SameConds, AllOn

(* The files that are suspended, as the reference has them: stk.           *)
Below(stk) ==
    /\ stk \in Seq(Suspension) /\ Len(stk) = Len(include_stack)
    /\ \A i \in 1 .. Len(include_stack) :
          /\ stk[i].name = include_stack[i].name /\ stk[i].pos = include_stack[i].pos
          /\ AllOn(stk[i].conds)
          /\ SameConds(stk[i].conds, ifdef_stack, Base(i), Base(i + 1))

(* It has read as much as the program has, and what it has skipped.        *)
Follows(stk, c) ==
    /\ Below(stk)
    /\ SameConds(c, ifdef_stack, file.ifdef_stack_ptr, Len(ifdef_stack))
    /\ Arrived(c, lines[file.name], file.pos)
    /\ Reached(lines, In(stk, file.name, file.pos, c, defined, output))
CInv == Good => /\ mode = "read" => \E stk, c : Follows(stk, c)
                /\ mode = "end" => \E env : Reached(lines, State(<< >>, env, output))

(* A line that leaves the includers and their conditionals as they are.    *)
LEMMA BelowKept ==
    ASSUME IInv, NEW stk, Below(stk), UNCHANGED include_stack,
           file'.ifdef_stack_ptr = file.ifdef_stack_ptr,
           \A i \in 1 .. file.ifdef_stack_ptr : ifdef_stack'[i] = ifdef_stack[i]
    PROVE  Below(stk)'
<1>1. \A i : Base(i)' = Base(i)
  BY DEF Base
<1>2. ASSUME NEW i \in 1 .. Len(include_stack)
      PROVE  SameConds(stk[i].conds, ifdef_stack', Base(i), Base(i + 1))
  <2>1. i \in 1 .. Len(include_stack) + 1 /\ i + 1 \in 1 .. Len(include_stack) + 1
    BY BasesBelow
  <2>2. PICK b, t, c, s, z : /\ b = Base(i) /\ t = Base(i + 1) /\ c = stk[i].conds
                             /\ s = ifdef_stack /\ z = ifdef_stack'
    OBVIOUS
  <2>3. b \in Nat /\ t \in Nat /\ t <= file.ifdef_stack_ptr /\ file.ifdef_stack_ptr \in Nat
    BY <2>1, <2>2, BasesBelow
  <2>4. \A j \in 1 .. t : z[j] = s[j]
    BY <2>2, <2>3
  <2>5. SameConds(c, s, b, t)
    BY <2>2 DEF Below
  <2>6. SameConds(c, z, b, t)
    BY <2>3, <2>4, <2>5, SameCondsKept
  <2> QED BY <2>2, <2>6
<1> QED BY <1>1, <1>2 DEF Below

(* The program goes on at line p, or skips the branch that begins there,   *)
(* and the reference follows.                                              *)
LEMMA GoesOn ==
    ASSUME IInv, NEW stk, Below(stk), UNCHANGED <<lines, include_stack>>,
           file.name \in Files, NEW x, x = lines[file.name], Len(x) \in Nat, NEW p \in Nat \ {0},
           file'.name = file.name, file'.ifdef_stack_ptr = file.ifdef_stack_ptr,
           \A i \in 1 .. file.ifdef_stack_ptr : ifdef_stack'[i] = ifdef_stack[i],
           NEW d, SameConds(d, ifdef_stack', file.ifdef_stack_ptr, Len(ifdef_stack')),
           Reached(lines, In(stk, file.name, p, d, defined', output')),
           \/ AllOn(d) /\ file'.pos = p
           \/ ~AllOn(d) /\ ButLast(d) /\ BranchEnds(x, p, file'.pos)
    PROVE  Follows(stk, d)'
<1>1. Below(stk)'
  BY BelowKept
<1>2. PICK q, f, env, out : /\ q = file'.pos /\ f = file.name /\ env = defined' /\ out = output'
  OBVIOUS
<1>3. d \in Seq(Cond)
  BY DEF SameConds
<1>4. Arrived(d, x, q) /\ Reached(lines, In(stk, f, q, d, env, out))
  <2>1. CASE AllOn(d) /\ q = p
    BY <2>1, <1>2 DEF Arrived
  <2>2. CASE ~AllOn(d) /\ ButLast(d) /\ BranchEnds(x, p, q)
    <3>1. /\ q \in Nat /\ p <= q /\ q <= Len(x) /\ x[q].d \in {"else", "elif", "endif"}
          /\ Level(x, q) = Level(x, p) /\ \A u \in p .. q : Level(x, u) >= Level(x, p)
          /\ \A u \in p .. q - 1 : x[u].d \in {"else", "elif"} => Level(x, u) > Level(x, p)
      BY <2>2 DEF BranchEnds
    <3>2. Arrived(d, x, q)
      BY <2>2, <3>1 DEF Arrived
    <3>3. stk \in Seq(Suspension) /\ f \in Files /\ x = lines[f]
      BY <1>2 DEF Below
    <3>4. Reached(lines, In(stk, f, p, d, env, out))
      BY <1>2
    <3>5. Reached(lines, In(stk, f, q, d, env, out))
      BY <2>2, <3>1, <3>3, <3>4, <1>3, SkipRun
    <3> QED BY <3>2, <3>5
  <2> QED BY <2>1, <2>2, <1>2
<1> QED BY <1>1, <1>2, <1>4 DEF Follows

(* What the reference knows of a line that is read.                        *)
LEMMA LineFollows ==
    ASSUME IInv, NInv, Good, NEW d, At(d), NEW stk, NEW c, Follows(stk, c)
    PROVE  LET x == lines[file.name]
               p == file.pos
           IN  /\ mode = "read" /\ file \in File /\ file.name \in Files /\ p \in Nat \ {0}
               /\ Len(x) \in Nat /\ Matched(x) /\ x[p] = Here /\ x[p].d = d
               /\ ~(p > Len(lines[file.name])) /\ p + 1 \in Nat \ {0} /\ p + 1 \in 1 .. Len(x) + 1
               /\ p \in Nat /\ stk \in Seq(Suspension) /\ Below(stk) /\ c \in Seq(Cond)
               /\ SameConds(c, ifdef_stack, file.ifdef_stack_ptr, Len(ifdef_stack))
               /\ Reached(lines, In(stk, file.name, p, c, defined, output))
               /\ d \notin {"else", "elif", "endif"} => AllOn(c)
               /\ d \in {"else", "elif", "endif"} => ButLast(c)
<1>0. mode = "read"
  BY DEF At
<1>1. PICK x, p, b, t : /\ x = lines[file.name] /\ p = file.pos
                        /\ b = file.ifdef_stack_ptr /\ t = Len(ifdef_stack)
  OBVIOUS
<1>2. /\ file \in File /\ file.name \in Files /\ p \in Nat \ {0} /\ Len(x) \in Nat /\ Matched(x)
      /\ Here = x[p] /\ x[p].d = d /\ p \in 1 .. Len(x) /\ p + 1 \in 1 .. Len(x) + 1
      /\ t = b + Level(x, p) /\ t \in Nat /\ b \in Nat
      /\ d \in {"else", "elif", "endif"} => Level(x, p) > 0
      /\ Level(x, p) \in Nat
  BY <1>0, <1>1, GoodFacts
<1>3. /\ SameConds(c, ifdef_stack, b, t) /\ stk \in Seq(Suspension) /\ Below(stk)
      /\ Arrived(c, x, p) /\ Reached(lines, In(stk, file.name, p, c, defined, output))
  BY <1>1 DEF Follows, Below
<1>4. c \in Seq(Cond) /\ Len(c) = Level(x, p)
  BY <1>2, <1>3 DEF SameConds
<1>5. d \notin {"else", "elif", "endif"} => AllOn(c)
  BY <1>2, <1>3 DEF Arrived
<1>6. ASSUME d \in {"else", "elif", "endif"} PROVE ButLast(c)
  <2>1. Len(c) > 0
    BY <1>2, <1>4, <1>6
  <2>2. CASE AllOn(c)
    <3>1. \A i \in 1 .. Len(c) - 1 : i \in 1 .. Len(c)
      BY <1>4
    <3> QED BY <2>1, <2>2, <3>1, <1>4 DEF AllOn, ButLast
  <2>3. CASE ~AllOn(c)
    BY <2>3, <1>3 DEF Arrived
  <2> QED BY <2>2, <2>3
<1>7. ~(p > Len(x)) /\ p + 1 \in Nat \ {0} /\ p \in Nat
  BY <1>2
<1> QED BY <1>0, <1>1, <1>2, <1>3, <1>4, <1>5, <1>6, <1>7

(* Behind a line that has to do with no conditional.                       *)
LEMMA AdvanceFollows ==
    ASSUME IInv, NInv, Good, NEW d, At(d), d \notin Ifs \union {"else", "elif", "endif"},
           NEW stk, NEW c, Follows(stk, c), Advance(file),
           UNCHANGED <<lines, include_stack, ifdef_stack>>,
           Reached(lines, In(stk, file.name, file.pos + 1, c, defined', output'))
    PROVE  Follows(stk, c)'
<1>1. PICK x, p : x = lines[file.name] /\ p = file.pos + 1
  OBVIOUS
<1>2. /\ file \in File /\ file.name \in Files /\ Len(x) \in Nat /\ p \in Nat \ {0} /\ AllOn(c)
      /\ SameConds(c, ifdef_stack, file.ifdef_stack_ptr, Len(ifdef_stack)) /\ Below(stk)
  BY <1>1, LineFollows
<1>3. /\ file'.name = file.name /\ file'.ifdef_stack_ptr = file.ifdef_stack_ptr
      /\ file'.pos = p
  BY <1>1, <1>2 DEF Advance, File
<1> QED BY <1>1, <1>2, <1>3, GoesOn

(* Text, #define and #undef: the reference reads the line too.              *)
LEMMA PlainFollows ==
    ASSUME IInv, NInv, Good, NEW stk, NEW c, Follows(stk, c), Text \/ define \/ undef
    PROVE  Follows(stk, c)'
<1>1. PICK d \in {"text", "define", "undef"} :
         /\ At(d)
         /\ d = "text" => Text
         /\ d = "define" => define
         /\ d = "undef" => undef
  BY DEF Text, define, undef, Directive
<1>2. Advance(file) /\ UNCHANGED <<lines, include_stack, ifdef_stack>>
  BY <1>1 DEF Text, define, undef, Directive
<1>3. PICK p, f, env, out : f = file.name /\ p = file.pos /\ env = defined /\ out = output
  OBVIOUS
<1>0. PICK l : l = Here
  OBVIOUS
<1>4. /\ l = lines[f][p] /\ l.d = d /\ f \in Files /\ p \in Nat /\ ~(p > Len(lines[f]))
      /\ stk \in Seq(Suspension) /\ c \in Seq(Cond) /\ AllOn(c)
      /\ Reached(lines, In(stk, f, p, c, env, out))
  <2>1. d \notin {"else", "elif", "endif"} /\ At(d)
    BY <1>1
  <2>2. /\ lines[file.name][file.pos] = Here /\ lines[file.name][file.pos].d = d
        /\ file.name \in Files /\ file.pos \in Nat /\ ~(file.pos > Len(lines[file.name]))
        /\ stk \in Seq(Suspension) /\ c \in Seq(Cond) /\ AllOn(c)
        /\ Reached(lines, In(stk, file.name, file.pos, c, defined, output))
    BY <2>1, LineFollows
  <2> QED BY <2>2, <1>0, <1>3
<1>5. /\ l.d = "text" => Reached(lines, In(stk, f, p + 1, c, env, Append(out, <<f, p>>)))
      /\ l.d = "define" => Reached(lines, In(stk, f, p + 1, c, env \union {l.m}, out))
      /\ l.d = "undef" => Reached(lines, In(stk, f, p + 1, c, env \ {l.m}, out))
  BY <1>4, ReachedActive
<1>6. Reached(lines, In(stk, f, p + 1, c, defined', output'))
  <2>1. CASE d = "text"
    <3>1. defined' = env /\ output' = Append(out, <<f, p>>)
      BY <2>1, <1>1, <1>3 DEF Text
    <3> QED BY <2>1, <3>1, <1>4, <1>5
  <2>2. CASE d = "define"
    <3>1. defined' = env \union {l.m} /\ output' = out
      BY <2>2, <1>0, <1>1, <1>3 DEF define, Directive
    <3> QED BY <2>2, <3>1, <1>4, <1>5
  <2>3. CASE d = "undef"
    <3>1. defined' = env \ {l.m} /\ output' = out
      BY <2>3, <1>0, <1>1, <1>3 DEF undef, Directive
    <3> QED BY <2>3, <3>1, <1>4, <1>5
  <2> QED BY <2>1, <2>2, <2>3
<1>7. d \notin Ifs \union {"else", "elif", "endif"} /\ At(d)
  BY <1>1 DEF Ifs
<1>8. Reached(lines, In(stk, file.name, file.pos + 1, c, defined', output'))
  BY <1>3, <1>6
<1> QED BY <1>2, <1>7, <1>8, AdvanceFollows

(* Behind a line that has: d are its conditionals now, v says whether the  *)
(* program goes on behind the line.                                        *)
LEMMA TestSkipFollows ==
    ASSUME IInv, NEW stk, Below(stk), UNCHANGED <<lines, include_stack>>,
           file.name \in Files, NEW x, x = lines[file.name], Len(x) \in Nat, Matched(x),
           NEW f \in File, f.name = file.name, f.pos = file.pos,
           f.ifdef_stack_ptr = file.ifdef_stack_ptr,
           NEW p \in 1 .. Len(x) + 1, p = file.pos + 1, Level(x, p) > 0,
           \A i \in 1 .. file.ifdef_stack_ptr : ifdef_stack'[i] = ifdef_stack[i],
           NEW d, SameConds(d, ifdef_stack', file.ifdef_stack_ptr, Len(ifdef_stack')),
           ButLast(d), NEW v, AllOn(d) <=> v % 2 = 1, TestSkip(f, v),
           Reached(lines, In(stk, file.name, p, d, defined', output'))
    PROVE  Follows(stk, d)'
<1>1. /\ SameButPos(f)
      /\ v % 2 = 1 => file'.pos = p
      /\ ~(v % 2 = 1) => BranchEnds(x, p, file'.pos)
  BY TestSkipGoes
<1>2. file'.name = file.name /\ file'.ifdef_stack_ptr = file.ifdef_stack_ptr
  BY <1>1 DEF SameButPos
<1>3. p \in Nat \ {0}
  OBVIOUS
<1> QED BY <1>1, <1>2, <1>3, GoesOn

(* #ifdef and #ifndef.                                                     *)
LEMMA do_ifFollows ==
    ASSUME IInv, NInv, Good, NEW d \in Ifs, At(d), NEW stk, NEW c, Follows(stk, c),
           UNCHANGED <<lines, include_stack, defined, output>>,
           NEW f \in File, f.name = file.name, f.pos = file.pos,
           f.ifdef_stack_ptr = file.ifdef_stack_ptr,
           NEW on \in BOOLEAN, on <=> ((Here.m \in defined) <=> d = "ifdef"),
           do_if(f, Bit(on)), mode' = "read"
    PROVE  \E h : Follows(stk, h)'
<1>1. PICK x, p, b, t, g, env, out, s :
         /\ x = lines[file.name] /\ p = file.pos /\ b = file.ifdef_stack_ptr
         /\ t = Len(ifdef_stack) /\ g = file.name /\ env = defined /\ out = output
         /\ s = ifdef_stack
  OBVIOUS
<1>2. /\ mode = "read" /\ g \in Files /\ p \in Nat \ {0}
      /\ Len(x) \in Nat /\ Matched(x) /\ x[p] = Here /\ x[p].d = d /\ p \in Nat
      /\ ~(p > Len(lines[g])) /\ p + 1 \in 1 .. Len(x) + 1
      /\ stk \in Seq(Suspension) /\ Below(stk) /\ c \in Seq(Cond)
      /\ SameConds(c, s, b, t) /\ Reached(lines, In(stk, g, p, c, env, out))
      /\ d \notin {"else", "elif", "endif"} => AllOn(c)
  BY <1>1, LineFollows
<1>3. AllOn(c)
  BY <1>2 DEF Ifs
<1>4. b \in Nat /\ t \in Nat /\ s \in Seq(0 .. 3) /\ b <= t /\ Level(x, p) \in Nat
  <2>1. /\ b \in Nat /\ t \in Nat /\ s \in Seq(0 .. 3) /\ t = b + Level(x, p)
        /\ Level(x, p) \in Nat
    BY <1>1, <1>2, GoodFacts
  <2> QED BY <2>1
<1>5. Level(x, p + 1) > 0
  BY <1>2, <1>4, Levels
<1>6. PICK v : v = Branch(on, on)
  OBVIOUS
<1>7. v \in Cond /\ (v.on <=> on) /\ (v.taken <=> on)
  BY <1>6 DEF Branch, Cond
<1>8. PICK h : h = Append(c, v)
  OBVIOUS
<1>9. PICK l : l = x[p]
  OBVIOUS
<1>10. Conds(c, l, TRUE, env) = h
  <2>1. ((l.m \in env) = (l.d = "ifdef")) = on
    BY <1>1, <1>2, <1>9
  <2>2. l.d \in {"ifdef", "ifndef"}
    BY <1>2, <1>9 DEF Ifs
  <2> QED BY <2>1, <2>2, <1>6, <1>8 DEF Conds
<1>11. Reached(lines, In(stk, g, p + 1, h, env, out))
  <2>1. /\ l = lines[g][p] /\ (TRUE <=> AllOn(c))
        /\ l.d \in {"ifdef", "ifndef", "else", "elif", "endif"}
    BY <1>1, <1>2, <1>3, <1>9 DEF Ifs
  <2> QED BY <2>1, <1>2, <1>10, ReachedBranch
<1>12. PICK w : w = Bit(on)
  OBVIOUS
<1>13. w \in 0 .. 3 /\ (w # 0 <=> on) /\ (w % 2 = 1 <=> on)
  BY <1>12 DEF Bit
<1>14. ifdef_stack' = Append(ifdef_stack, w) /\ TestSkip(f, w)
  BY <1>12 DEF do_if
<1>15. PICK z : z = ifdef_stack'
  OBVIOUS
<1>16. Len(z) = t + 1 /\ z[t + 1] = w /\ \A i \in 1 .. t : z[i] = s[i]
  BY <1>1, <1>4, <1>13, <1>14, <1>15
<1>17. SameConds(h, z, b, t + 1) /\ ButLast(h) /\ (AllOn(h) <=> v.on)
  <2>1. PICK u \in Nat : u = t + 1
    BY <1>4
  <2>2. v.taken <=> z[u] # 0
    BY <2>1, <1>7, <1>13, <1>16
  <2>3. \A i \in 1 .. t : z[i] = s[i]
    BY <1>16
  <2>4. SameConds(c, s, b, t) /\ v \in Cond /\ Pushed(h, c, v)
    BY <1>2, <1>7, <1>8 DEF Pushed
  <2>5. SameConds(h, z, b, u) /\ ButLast(h) /\ (AllOn(h) <=> v.on)
    BY <2>1, <2>2, <2>3, <2>4, <1>3, <1>4, CondsPush
  <2> QED BY <2>1, <2>5
<1>18. \A i \in 1 .. file.ifdef_stack_ptr : ifdef_stack'[i] = ifdef_stack[i]
  <2>1. \A i \in 1 .. b : i \in 1 .. t
    BY <1>4
  <2> QED BY <2>1, <1>1, <1>15, <1>16
<1>19. Follows(stk, h)'
  <2>1. AllOn(h) <=> w % 2 = 1
    BY <1>7, <1>13, <1>17
  <2>2. Reached(lines, In(stk, file.name, p + 1, h, defined', output'))
    BY <1>1, <1>11
  <2>3. SameConds(h, ifdef_stack', file.ifdef_stack_ptr, Len(ifdef_stack'))
    BY <1>1, <1>15, <1>16, <1>17
  <2>4. PICK q : q = p + 1
    OBVIOUS
  <2> QED BY <2>1, <2>2, <2>3, <2>4, <1>1, <1>2, <1>5, <1>14, <1>17, <1>18, TestSkipFollows
<1> QED BY <1>19

(* #ifdef and #ifndef: the branch is on where the program goes on.          *)
LEMMA ifFollows ==
    ASSUME IInv, NInv, Good, NEW stk, NEW c, Follows(stk, c), ifdef \/ ifndef, mode' = "read"
    PROVE  \E h : Follows(stk, h)'
<1>1. UNCHANGED <<lines, include_stack, defined, output>>
  BY DEF ifdef, ifndef, Directive
<1>2. file \in File
  BY DEF IInv, TypeOK
<1>3. CASE ifdef
  <2>1. PICK on \in BOOLEAN : on <=> Here.m \in defined
    OBVIOUS
  <2>2. on = (Here.m \in defined)
    BY <2>1
  <2>3. At("ifdef") /\ do_if(file, Bit(on)) /\ "ifdef" \in Ifs
    BY <2>2, <1>3 DEF ifdef, Directive, Ifs
  <2> QED BY <2>1, <2>3, <1>1, <1>2, do_ifFollows
<1>4. CASE ifndef
  <2>1. PICK on \in BOOLEAN : on <=> Here.m \notin defined
    OBVIOUS
  <2>2. on = (Here.m \notin defined)
    BY <2>1
  <2>3. At("ifndef") /\ "ifndef" \in Ifs
    BY <1>4 DEF ifndef, Directive, Ifs
  <2>4. PICK f : f = IF "BOF" \in next_tok_flags THEN [file EXCEPT !.ifndef_macro = Here.m]
                     ELSE file
    OBVIOUS
  <2>5. do_if(f, Bit(on))
    BY <2>2, <2>4, <1>4 DEF ifndef
  <2>6. Here.m \in Macros
    BY <2>3, LineFacts DEF IInv
  <2>7. /\ f \in File /\ f.name = file.name /\ f.pos = file.pos
        /\ f.ifdef_stack_ptr = file.ifdef_stack_ptr
    BY <2>4, <2>6, <1>2 DEF File
  <2>8. on <=> ((Here.m \in defined) <=> "ifndef" = "ifdef")
    BY <2>1
  <2> QED BY <2>3, <2>5, <2>7, <2>8, <1>1, do_ifFollows
<1> QED BY <1>3, <1>4

(* The reference at a line that ends a branch.                             *)
LEMMA BranchReached ==
    ASSUME IInv, NInv, Good, NEW d \in {"else", "elif", "endif"}, At(d),
           NEW stk, NEW c, Follows(stk, c),
           NEW a \in BOOLEAN, a <=> AllOn(c), NEW h, h = Conds(c, Here, a, defined)
    PROVE  Reached(lines, In(stk, file.name, file.pos + 1, h, defined, output))
<1>1. PICK l, env, out, f, p : /\ l = Here /\ env = defined /\ out = output
                               /\ f = file.name /\ p = file.pos
  OBVIOUS
<1>2. /\ lines[f][p] = Here /\ Here.d = d /\ f \in Files /\ p \in Nat /\ ~(p > Len(lines[f]))
      /\ stk \in Seq(Suspension) /\ c \in Seq(Cond)
      /\ Reached(lines, In(stk, f, p, c, env, out))
  BY <1>1, LineFollows
<1>3. /\ l = lines[f][p] /\ l.d \in {"ifdef", "ifndef", "else", "elif", "endif"}
      /\ h = Conds(c, l, a, env)
  BY <1>1, <1>2
<1>4. Reached(lines, In(stk, f, p + 1, h, env, out))
  BY <1>2, <1>3, ReachedBranch
<1> QED BY <1>1, <1>4

(* #else and #elif, when the conditional gets another branch, with v.      *)
LEMMA SetTopFollows ==
    ASSUME IInv, NInv, Good, NEW d \in {"else", "elif"}, At(d), NEW stk, NEW c, Follows(stk, c),
           UNCHANGED <<lines, include_stack, defined, output>>,
           NEW u, TestSkip(file, u), NEW w \in 0 .. 3, NEW v \in Cond,
           SetTop(w) \/ (UNCHANGED ifdef_stack /\ Top = w),
           v.on <=> u % 2 = 1, v.taken <=> w # 0,
           NEW h, Replaced(h, c, v),
           Reached(lines, In(stk, file.name, file.pos + 1, h, defined, output))
    PROVE  Follows(stk, h)'
<1>1. PICK x, p, b, t, s :
         /\ x = lines[file.name] /\ p = file.pos /\ b = file.ifdef_stack_ptr
         /\ t = Len(ifdef_stack) /\ s = ifdef_stack
  OBVIOUS
<1>2. /\ mode = "read" /\ file \in File /\ file.name \in Files /\ p \in Nat \ {0}
      /\ Len(x) \in Nat /\ Matched(x) /\ x[p] = Here /\ x[p].d = d /\ p \in Nat
      /\ ~(p > Len(lines[file.name])) /\ p + 1 \in 1 .. Len(x) + 1
      /\ stk \in Seq(Suspension) /\ Below(stk) /\ c \in Seq(Cond)
      /\ SameConds(c, s, b, t)
      /\ Reached(lines, In(stk, file.name, p, c, defined, output))
      /\ ButLast(c)
  BY <1>1, LineFollows
<1>3. /\ b \in Nat /\ t \in Nat /\ s \in Seq(0 .. 3) /\ t = b + Level(x, p)
      /\ Level(x, p) \in Nat /\ Level(x, p) > 0
  BY <1>1, <1>2, GoodFacts
<1>4. Level(x, p + 1) > 0
  <2>1. x[p].d \notin Ifs \union {"endif"}
    BY <1>2 DEF Ifs
  <2>2. Level(x, p + 1) = Level(x, p)
    BY <2>1, <1>2, Levels
  <2> QED BY <2>2, <1>3
<1>6. PICK z : z = ifdef_stack'
  OBVIOUS
<1>7. Len(z) = t /\ z[t] = w /\ \A i \in 1 .. t - 1 : z[i] = s[i]
  <2>1. t \in 1 .. t
    BY <1>3
  <2>2. CASE SetTop(w)
    <3>1. z = [s EXCEPT ![t] = w]
      BY <2>2, <1>1, <1>6 DEF SetTop
    <3>2. Len(s) = t
      BY <1>1
    <3> QED BY <3>1, <3>2, <2>1, <1>3
  <2>3. CASE UNCHANGED ifdef_stack /\ Top = w
    BY <2>3, <1>1, <1>6 DEF Top
  <2> QED BY <2>2, <2>3
<1>8. SameConds(h, z, b, t) /\ ButLast(h) /\ (AllOn(h) <=> v.on)
  <2>1. v.taken <=> z[t] # 0
    BY <1>7
  <2>2. \A i \in 1 .. t - 1 : z[i] = s[i]
    BY <1>7
  <2>3. b <= t /\ b \in Nat /\ t \in Nat
    BY <1>3
  <2>4. ButLast(c) /\ SameConds(c, s, b, t) /\ Replaced(h, c, v) /\ v \in Cond
    BY <1>2
  <2> QED BY <2>1, <2>2, <2>3, <2>4, CondsSet
<1>9. \A i \in 1 .. file.ifdef_stack_ptr : ifdef_stack'[i] = ifdef_stack[i]
  <2>1. \A i \in 1 .. b : i \in 1 .. t - 1
    BY <1>3
  <2> QED BY <2>1, <1>1, <1>6, <1>7
<1>10. AllOn(h) <=> u % 2 = 1
  BY <1>8
<1>11. Reached(lines, In(stk, file.name, p + 1, h, defined', output'))
  BY <1>1
<1>12. SameConds(h, ifdef_stack', file.ifdef_stack_ptr, Len(ifdef_stack'))
  BY <1>1, <1>6, <1>7, <1>8
<1>13. PICK q : q = p + 1
  OBVIOUS
<1> QED BY <1>1, <1>2, <1>4, <1>8, <1>9, <1>10, <1>11, <1>12, <1>13, TestSkipFollows

(* #else and #elif, whether a branch has been taken or not.                 *)
LEMMA BranchFollows ==
    ASSUME IInv, NInv, Good, NEW stk, NEW c, Follows(stk, c), else \/ elif, mode' = "read"
    PROVE  \E h : Follows(stk, h)'
<1>1. PICK d \in {"else", "elif"} :
         /\ At(d)
         /\ d = "else" => else
         /\ d = "elif" => elif
  BY DEF else, elif, Directive
<1>2. UNCHANGED <<lines, include_stack, defined, output>>
  BY <1>1 DEF else, elif, Directive
<1>3. PICK x, p, b, t, s, k :
         /\ x = lines[file.name] /\ p = file.pos /\ b = file.ifdef_stack_ptr
         /\ t = Len(ifdef_stack) /\ s = ifdef_stack /\ k = Len(c)
  OBVIOUS
<1>4. /\ mode = "read" /\ x[p] = Here /\ Here.d = d /\ file \in File
      /\ c \in Seq(Cond) /\ ButLast(c) /\ SameConds(c, s, b, t)
  BY <1>1, <1>3, LineFollows
<1>5. /\ b \in Nat /\ t \in Nat /\ s \in Seq(0 .. 3) /\ t = b + Level(x, p)
      /\ Level(x, p) \in Nat /\ Level(x, p) > 0
  BY <1>1, <1>3, <1>4, GoodFacts
<1>6. k = t - b /\ k > 0 /\ (c[k].taken <=> s[b + k] # 0) /\ c[k] \in Cond
  <2>1. k = t - b /\ k \in 1 .. t - b /\ k > 0 /\ k \in 1 .. k
    BY <1>3, <1>4, <1>5 DEF SameConds
  <2> QED BY <2>1, <1>3, <1>4 DEF SameConds
<1>7. PICK w \in 0 .. 3 : w = s[t]
  <2>1. t \in 1 .. Len(s)
    BY <1>3, <1>5
  <2> QED BY <2>1, <1>5
<1>8. /\ Top = w /\ (c[k].taken <=> w # 0) /\ s # << >>
  <2>1. b + k = t
    BY <1>5, <1>6
  <2>2. c[k].taken <=> w # 0
    BY <2>1, <1>6, <1>7
  <2>3. Top = w
    BY <1>3, <1>7 DEF Top
  <2>4. s # << >>
    <3>1. Len(s) > 0
      BY <1>3, <1>5
    <3> QED BY <3>1
  <2> QED BY <2>2, <2>3, <2>4
<1>9. PICK a \in BOOLEAN : a <=> AllOn(c)
  OBVIOUS
<1>10. PICK taken \in BOOLEAN : taken <=> w # 0
  OBVIOUS
<1>11. c[Len(c)].taken = taken
  <2>1. c[k].taken \in BOOLEAN
    BY <1>6 DEF Cond
  <2> QED BY <2>1, <1>3, <1>8, <1>10
<1>12. CASE d = "else"
  <2>1. w \in {0, 1} /\ SetTop(3 - w) /\ TestSkip(file, 3 - w)
    BY <1>1, <1>3, <1>4, <1>7, <1>8, <1>12 DEF else, Fails
  <2>2. PICK z \in 0 .. 3 : z = 3 - w
    BY <2>1
  <2>3. PICK v : v = Branch(~taken, TRUE)
    OBVIOUS
  <2>4. v \in Cond /\ (v.on <=> z % 2 = 1) /\ (v.taken <=> z # 0)
    <3>1. v \in Cond /\ (v.on <=> ~taken) /\ (v.taken <=> TRUE)
      BY <2>3 DEF Branch, Cond
    <3>2. z # 0 /\ (z % 2 = 1 <=> w = 0)
      BY <2>1, <2>2
    <3> QED BY <3>1, <3>2, <1>10
  <2>5. PICK h : h = Conds(c, Here, a, defined)
    OBVIOUS
  <2>6. Replaced(h, c, v)
    BY <2>3, <2>5, <1>4, <1>11, <1>12 DEF Conds, Replaced
  <2>7. Reached(lines, In(stk, file.name, file.pos + 1, h, defined, output))
    BY <2>5, <1>1, <1>9, BranchReached
  <2>8. Follows(stk, h)'
    BY <2>1, <2>2, <2>4, <2>6, <2>7, <1>1, <1>2, SetTopFollows
  <2> QED BY <2>8
<1>13. CASE d = "elif" /\ w = 1
  <2>1. Skip(file) /\ UNCHANGED ifdef_stack
    BY <1>1, <1>3, <1>4, <1>8, <1>13 DEF elif, Fails
  <2>2. PICK h : h = Conds(c, Here, a, defined)
    OBVIOUS
  <2>3. PICK v : v = Branch(FALSE, TRUE)
    OBVIOUS
  <2>4. v \in Cond /\ (v.on <=> FALSE) /\ (v.taken <=> TRUE)
    BY <2>3 DEF Branch, Cond
  <2>5. Replaced(h, c, v)
    BY <2>2, <2>3, <1>4, <1>10, <1>11, <1>13 DEF Conds, Replaced
  <2>6. TestSkip(file, 0) /\ Top = 1 /\ (FALSE <=> 0 % 2 = 1) /\ (TRUE <=> 1 # 0)
    BY <2>1, <1>8, <1>13 DEF TestSkip
  <2>7. Reached(lines, In(stk, file.name, file.pos + 1, h, defined, output))
    BY <2>2, <1>1, <1>9, BranchReached
  <2>8. Follows(stk, h)'
    BY <2>1, <2>4, <2>5, <2>6, <2>7, <1>1, <1>2, SetTopFollows
  <2> QED BY <2>8
<1>14. CASE d = "elif" /\ w # 1
  <2>1. PICK on \in BOOLEAN : on <=> Here.m \in defined
    OBVIOUS
  <2>2. PICK z \in 0 .. 3 : z = Bit(on) /\ (z % 2 = 1 <=> on) /\ (z # 0 <=> on)
    BY DEF Bit
  <2>3. w = 0 /\ SetTop(z) /\ TestSkip(file, z)
    <3>1. on = (Here.m \in defined)
      BY <2>1
    <3> QED BY <3>1, <2>2, <1>1, <1>3, <1>4, <1>7, <1>8, <1>14 DEF elif, Fails
  <2>4. PICK v : v = Branch(on, on)
    OBVIOUS
  <2>5. v \in Cond /\ (v.on <=> on) /\ (v.taken <=> on)
    BY <2>4 DEF Branch, Cond
  <2>6. PICK h : h = Conds(c, Here, a, defined)
    OBVIOUS
  <2>7. Replaced(h, c, v)
    <3>1. on = (Here.m \in defined)
      BY <2>1
    <3> QED BY <3>1, <2>3, <2>4, <2>6, <1>4, <1>10, <1>11, <1>14 DEF Conds, Replaced
  <2>8. Reached(lines, In(stk, file.name, file.pos + 1, h, defined, output))
    BY <2>6, <1>1, <1>9, BranchReached
  <2>9. Follows(stk, h)'
    BY <2>2, <2>3, <2>5, <2>7, <2>8, <1>1, <1>2, SetTopFollows
  <2> QED BY <2>9
<1> QED BY <1>12, <1>13, <1>14

(* #endif.                                                                 *)
LEMMA endifFollows ==
    ASSUME IInv, NInv, Good, NEW stk, NEW c, Follows(stk, c), endif
    PROVE  \E h : Follows(stk, h)'
<1>1. At("endif") /\ UNCHANGED <<lines, include_stack, defined, output>>
  BY DEF endif
<1>2. PICK x, p, b, t, s, z :
         /\ x = lines[file.name] /\ p = file.pos /\ b = file.ifdef_stack_ptr
         /\ t = Len(ifdef_stack) /\ s = ifdef_stack /\ z = ifdef_stack'
  OBVIOUS
<1>3. /\ mode = "read" /\ file \in File /\ file.name \in Files /\ p \in Nat \ {0}
      /\ Len(x) \in Nat /\ x[p] = Here /\ x[p].d = "endif" /\ p + 1 \in Nat \ {0}
      /\ Below(stk) /\ c \in Seq(Cond) /\ SameConds(c, s, b, t) /\ ButLast(c)
  BY <1>1, <1>2, LineFollows
<1>4. /\ b \in Nat /\ t \in Nat /\ s \in Seq(0 .. 3) /\ t = b + Level(x, p)
      /\ Level(x, p) \in Nat /\ Level(x, p) > 0
  BY <1>1, <1>2, <1>3, GoodFacts
<1>5. b < t /\ b <= t
  BY <1>4
<1>6. /\ ifdef_stack' = SubSeq(ifdef_stack, 1, Len(ifdef_stack) - 1)
      /\ \/ Advance([file EXCEPT !.ifndef_macro_saved = file.ifndef_macro,
                                 !.ifndef_macro = NoMacro])
         \/ Advance(file)
  BY <1>2, <1>4, <1>5 DEF endif
<1>7. /\ file'.name = file.name /\ file'.ifdef_stack_ptr = file.ifdef_stack_ptr
      /\ file'.pos = p + 1
  BY <1>2, <1>3, <1>6 DEF Advance, File
<1>8. Len(z) = t - 1 /\ \A i \in 1 .. t - 1 : z[i] = s[i]
  <2>1. \A k \in 0 .. t : /\ Len(SubSeq(s, 1, k)) = k
                          /\ \A i \in 1 .. k : SubSeq(s, 1, k)[i] = s[i]
    BY <1>2, <1>4
  <2>2. t - 1 \in 0 .. t
    BY <1>4, <1>5
  <2>3. z = SubSeq(s, 1, t - 1)
    BY <1>2, <1>6
  <2> QED BY <2>1, <2>2, <2>3
<1>9. PICK a \in BOOLEAN : a <=> AllOn(c)
  OBVIOUS
<1>10. PICK h : h = Conds(c, Here, a, defined)
  OBVIOUS
<1>11. Reached(lines, In(stk, file.name, file.pos + 1, h, defined, output))
  BY <1>1, <1>9, <1>10, BranchReached
<1>12. Popped(h, c)
  BY <1>3, <1>10 DEF Conds, Popped
<1>13. SameConds(h, z, b, t - 1) /\ AllOn(h)
  <2>1. \A i \in 1 .. t - 1 : z[i] = s[i]
    BY <1>8
  <2>2. ButLast(c) /\ SameConds(c, s, b, t)
    BY <1>3
  <2> QED BY <2>1, <2>2, <1>4, <1>5, <1>12, CondsPop
<1>14. \A i \in 1 .. file.ifdef_stack_ptr : ifdef_stack'[i] = ifdef_stack[i]
  <2>1. \A i \in 1 .. b : i \in 1 .. t - 1
    BY <1>4, <1>5
  <2> QED BY <2>1, <1>2, <1>8
<1>15. SameConds(h, ifdef_stack', file.ifdef_stack_ptr, Len(ifdef_stack'))
  BY <1>2, <1>8, <1>13
<1>16. PICK q : q = p + 1
  OBVIOUS
<1>17. Reached(lines, In(stk, file.name, q, h, defined', output'))
  BY <1>1, <1>2, <1>11, <1>16
<1>18. Follows(stk, h)'
  BY <1>1, <1>2, <1>3, <1>7, <1>13, <1>14, <1>15, <1>16, <1>17, GoesOn
<1> QED BY <1>18

(* #include.  The reference goes through a header that the program skips,  *)
(* and finds nothing.                                                      *)
LEMMA SkippedFollows ==
    ASSUME IInv, NInv, Good, Marks, NEW stk, NEW c, Follows(stk, c), include,
           Skipped(Here.name, Here.c)
    PROVE  Follows(stk, c)'
<1>1. /\ At("include") /\ UNCHANGED <<lines, include_stack, ifdef_stack, defined, output>>
      /\ Advance(file)
  BY DEF include
<1>2. PICK p, f, env, out : f = file.name /\ p = file.pos /\ env = defined /\ out = output
  OBVIOUS
<1>3. PICK l : l = Here
  OBVIOUS
<1>4. /\ l = lines[f][p] /\ l.d = "include" /\ f \in Files /\ p \in Nat /\ ~(p > Len(lines[f]))
      /\ p + 1 \in Nat /\ stk \in Seq(Suspension) /\ c \in Seq(Cond) /\ AllOn(c)
      /\ Reached(lines, In(stk, f, p, c, env, out))
  BY <1>1, <1>2, <1>3, LineFollows
<1>5. PICK r : r = Append(stk, Reading(f, p + 1, c))
  OBVIOUS
<1>6. r \in Seq(Suspension)
  <2>1. Reading(f, p + 1, c) \in Suspension
    BY <1>4 DEF Reading, Suspension
  <2> QED BY <2>1, <1>4, <1>5
<1>7. Reached(lines, In(r, l.name, 1, << >>, env, out))
  BY <1>4, <1>5, ReachedActive
<1>8. PICK e \in cached : e.name = l.name /\ e.ifndef_macro \in defined
  BY <1>3 DEF Skipped, Same
<1>9. PICK m, y : m = e.ifndef_macro /\ y = lines[l.name]
  OBVIOUS
<1>10. Guarded(y, m) /\ m \in env
  BY <1>2, <1>8, <1>9 DEF Marks, CacheRight
<1>11. l.name \in Files
  BY <1>1, <1>3, LineFacts DEF IInv, Files
<1>12. Reached(lines, State(r, env, out))
  BY <1>6, <1>7, <1>9, <1>10, <1>11, GuardRun
<1>13. Reached(lines, In(stk, file.name, file.pos + 1, c, defined', output'))
  BY <1>1, <1>2, <1>5, <1>12 DEF In
<1>14. "include" \notin Ifs \union {"else", "elif", "endif"}
  BY DEF Ifs
<1> QED BY <1>1, <1>13, <1>14, AdvanceFollows

(* And into one that it does not.                                           *)
LEMMA includeFollows ==
    ASSUME IInv, NInv, Good, Marks, NEW stk, NEW c, Follows(stk, c), include, mode' = "read"
    PROVE  \E r, h : Follows(r, h)'
<1>1. CASE Skipped(Here.name, Here.c)
  BY <1>1, SkippedFollows
<1>2. CASE ~Skipped(Here.name, Here.c)
  <2>1. /\ At("include") /\ UNCHANGED <<lines, ifdef_stack, defined, output>>
        /\ include_stack' = Append(include_stack, Suspended)
        /\ file' = tcc_open(Here.name, Here.c)
    BY <1>2 DEF include
  <2>2. PICK p, f, env, out, b, t, s :
           /\ f = file.name /\ p = file.pos /\ env = defined /\ out = output
           /\ b = file.ifdef_stack_ptr /\ t = Len(ifdef_stack) /\ s = ifdef_stack
    OBVIOUS
  <2>3. PICK l : l = Here
    OBVIOUS
  <2>4. /\ l = lines[f][p] /\ l.d = "include" /\ f \in Files /\ p \in Nat
        /\ ~(p > Len(lines[f])) /\ p + 1 \in Nat /\ file \in File
        /\ stk \in Seq(Suspension) /\ c \in Seq(Cond) /\ AllOn(c) /\ Below(stk)
        /\ SameConds(c, s, b, t) /\ Reached(lines, In(stk, f, p, c, env, out))
    BY <2>1, <2>2, <2>3, LineFollows
  <2>5. PICK g : g = Reading(f, p + 1, c)
    OBVIOUS
  <2>6. g \in Suspension /\ g.name = f /\ g.pos = p + 1 /\ g.conds = c
    BY <2>4, <2>5 DEF Reading, Suspension
  <2>7. PICK r : r = Append(stk, g)
    OBVIOUS
  <2>8. Reached(lines, In(r, l.name, 1, << >>, env, out))
    BY <2>4, <2>5, <2>7, ReachedActive
  <2>9. PICK K \in Nat : K = Len(include_stack)
    BY BasesBelow
  <2>10. r \in Seq(Suspension) /\ Len(r) = K + 1 /\ r[K + 1] = g /\ \A i \in 1 .. K : r[i] = stk[i]
    BY <2>4, <2>6, <2>7, <2>9 DEF Below
  <2>11. PICK v : v = Suspended
    OBVIOUS
  <2>12. v \in File /\ v.name = f /\ v.pos = p + 1 /\ v.ifdef_stack_ptr = b
    <3>1. file.pos + 1 \in Nat \ {0}
      BY <2>4 DEF File
    <3> QED BY <3>1, <2>2, <2>4, <2>11 DEF Suspended, File
  <2>13. /\ Len(include_stack') = K + 1 /\ include_stack'[K + 1] = v
         /\ \A i \in 1 .. K : include_stack'[i] = include_stack[i]
    <3>1. include_stack \in Seq(File)
      BY DEF IInv, TypeOK
    <3> QED BY <3>1, <2>1, <2>9, <2>11, <2>12
  <2>14. file'.name = l.name /\ file'.pos = 1 /\ file'.ifdef_stack_ptr = t
    BY <2>1, <2>2, <2>3 DEF tcc_open
  <2>15. \A i \in 1 .. K + 1 : Base(i)' = Base(i)
    BY <2>2, <2>9, <2>12, <2>13 DEF Base
  <2>16. Base(K + 2)' = t /\ Base(K + 1)' = b
    <3>1. Base(K + 2)' = t
      BY <2>9, <2>13, <2>14 DEF Base
    <3>2. Base(K + 1)' = b
      BY <2>9, <2>12, <2>13 DEF Base
    <3> QED BY <3>1, <3>2
  <2>17. ASSUME NEW i \in 1 .. K + 1
         PROVE  /\ r[i].name = include_stack'[i].name /\ r[i].pos = include_stack'[i].pos
                /\ AllOn(r[i].conds)
                /\ SameConds(r[i].conds, s, Base(i)', Base(i + 1)')
    <3>1. CASE i = K + 1
      <4>1. (K + 1) + 1 = K + 2
        BY <2>9
      <4> QED BY <4>1, <3>1, <2>4, <2>6, <2>10, <2>12, <2>13, <2>16
    <3>2. CASE i \in 1 .. K
      <4>1. i + 1 \in 1 .. K + 1
        BY <3>2
      <4>2. /\ stk[i].name = include_stack[i].name /\ stk[i].pos = include_stack[i].pos
            /\ AllOn(stk[i].conds)
            /\ SameConds(stk[i].conds, s, Base(i), Base(i + 1))
        BY <3>2, <2>2, <2>4, <2>9 DEF Below
      <4> QED BY <4>1, <4>2, <3>2, <2>10, <2>13, <2>15
    <3> QED BY <3>1, <3>2
  <2>18. Below(r)'
    <3>1. s = ifdef_stack'
      BY <2>1, <2>2
    <3> QED BY <3>1, <2>10, <2>13, <2>17 DEF Below
  <2>19. SameConds(<< >>, s, t, t) /\ AllOn(<< >>)
    <3>1. t \in Nat
      BY <2>2 DEF IInv, TypeOK
    <3> QED BY <3>1 DEF SameConds, AllOn
  <2>20. Follows(r, << >>)'
    <3>1. /\ s = ifdef_stack' /\ t = Len(ifdef_stack') /\ env = defined' /\ out = output'
          /\ lines' = lines
      BY <2>1, <2>2
    <3> QED BY <3>1, <2>8, <2>14, <2>18, <2>19 DEF Follows, Arrived
  <2> QED BY <2>20
<1> QED BY <1>1, <1>2

(* The end of a header: the reference goes on in the file that included it.*)
LEMMA EndFollows ==
    ASSUME IInv, NInv, Good, mode = "read", AtEnd, NEW stk, NEW c, Follows(stk, c)
    PROVE  /\ Reached(lines, State(stk, defined, output))
           /\ Len(ifdef_stack) = file.ifdef_stack_ptr
<1>1. PICK x, p, f, env, out, b, t, s :
         /\ x = lines[f] /\ f = file.name /\ p = file.pos /\ env = defined /\ out = output
         /\ b = file.ifdef_stack_ptr /\ t = Len(ifdef_stack) /\ s = ifdef_stack
  OBVIOUS
<1>2. Len(x) \in Nat /\ Matched(x) /\ b \in Nat /\ Frame(s, x, p, b, t)
  BY <1>1, NowFacts DEF Good
<1>3. p > Len(x)
  BY <1>1 DEF AtEnd, Length
<1>4. t = b
  BY <1>2, <1>3, FrameEnds
<1>5. /\ stk \in Seq(Suspension) /\ c \in Seq(Cond)
      /\ Reached(lines, In(stk, f, p, c, env, out))
  BY <1>1 DEF Follows, Below, SameConds
<1>6. f \in Files /\ p \in Nat
  BY <1>1 DEF IInv, TypeOK, File
<1>7. Reached(lines, State(stk, env, out))
  <2>1. p > Len(lines[f])
    BY <1>1, <1>3
  <2> QED BY <2>1, <1>5, <1>6, ReachedEnd
<1> QED BY <1>1, <1>4, <1>7

(* The file that included it is the last of those the reference has.        *)
LEMMA PopIncludeFollows ==
    ASSUME IInv, NInv, Good, NEW stk, NEW c, Follows(stk, c), PopInclude
    PROVE  \E r, h : Follows(r, h)'
<1>1. /\ mode = "read" /\ AtEnd /\ include_stack # << >>
      /\ UNCHANGED <<lines, ifdef_stack, defined, output>>
      /\ file' = Including
      /\ include_stack' = SubSeq(include_stack, 1, Len(include_stack) - 1)
  BY DEF PopInclude
<1>2. Reached(lines, State(stk, defined, output)) /\ Len(ifdef_stack) = file.ifdef_stack_ptr
  BY <1>1, EndFollows
<1>3. PICK K \in Nat : K = Len(include_stack)
  BY BasesBelow
<1>4. include_stack \in Seq(File) /\ K > 0 /\ K \in 1 .. K
  BY <1>1, <1>3 DEF IInv, TypeOK
<1>5. Len(include_stack') = K - 1 /\ \A i \in 1 .. K - 1 : include_stack'[i] = include_stack[i]
  <2>1. \A k \in 0 .. K : /\ Len(SubSeq(include_stack, 1, k)) = k
                          /\ \A i \in 1 .. k : SubSeq(include_stack, 1, k)[i] = include_stack[i]
    BY <1>3, <1>4
  <2>2. K - 1 \in 0 .. K
    BY <1>4
  <2> QED BY <2>1, <2>2, <1>1, <1>3
<1>6. file' = include_stack[K]
  BY <1>1, <1>3 DEF Including
<1>7. stk \in Seq(Suspension) /\ Len(stk) = K
  BY <1>3 DEF Follows, Below
<1>8. \A i \in 1 .. K : /\ stk[i].name = include_stack[i].name
                        /\ stk[i].pos = include_stack[i].pos
                        /\ AllOn(stk[i].conds)
                        /\ SameConds(stk[i].conds, ifdef_stack, Base(i), Base(i + 1))
  BY <1>3 DEF Follows, Below
<1>9. PICK r, g : r = SubSeq(stk, 1, K - 1) /\ g = stk[K]
  OBVIOUS
<1>10. g \in Suspension /\ r \in Seq(Suspension)
  BY <1>4, <1>7, <1>9
<1>11. Len(r) = K - 1 /\ \A i \in 1 .. K - 1 : r[i] = stk[i]
  <2>1. \A k \in 0 .. K : /\ Len(SubSeq(stk, 1, k)) = k
                          /\ \A i \in 1 .. k : SubSeq(stk, 1, k)[i] = stk[i]
    BY <1>7
  <2>2. K - 1 \in 0 .. K
    BY <1>4
  <2> QED BY <2>1, <2>2, <1>9
<1>12. stk = Append(r, g)
  <2>1. SubSeq(stk, 1, K) = r \o <<g>>
    BY <1>4, <1>7, <1>9, SubSeqRecursiveSecond
  <2>2. SubSeq(stk, 1, K) = stk
    BY <1>7, SubSeqFull
  <2> QED BY <2>1, <2>2, <1>10, AppendIsConcat
<1>13. g = Reading(file'.name, file'.pos, g.conds) /\ AllOn(g.conds)
  <2>1. g.name = file'.name /\ g.pos = file'.pos /\ AllOn(g.conds)
    BY <1>4, <1>6, <1>8, <1>9
  <2> QED BY <2>1, <1>10 DEF Reading, Suspension
<1>14. Reached(lines, In(r, file'.name, file'.pos, g.conds, defined, output))
  BY <1>2, <1>12, <1>13 DEF In
<1>15. \A i \in 1 .. K : Base(i)' = Base(i)
  BY <1>3, <1>4, <1>5, <1>6 DEF Base
<1>16. ASSUME NEW i \in 1 .. K - 1
       PROVE  /\ r[i].name = include_stack'[i].name /\ r[i].pos = include_stack'[i].pos
              /\ AllOn(r[i].conds)
              /\ SameConds(r[i].conds, ifdef_stack, Base(i)', Base(i + 1)')
  <2>1. i \in 1 .. K /\ i + 1 \in 1 .. K
    BY <1>4
  <2> QED BY <2>1, <1>5, <1>8, <1>11, <1>15
<1>17. Below(r)'
  BY <1>1, <1>5, <1>10, <1>11, <1>16 DEF Below
<1>18. SameConds(g.conds, ifdef_stack, file'.ifdef_stack_ptr, Len(ifdef_stack))
  <2>1. Base(K) = file'.ifdef_stack_ptr /\ Base(K + 1) = Len(ifdef_stack)
    BY <1>2, <1>3, <1>6 DEF Base
  <2> QED BY <2>1, <1>4, <1>8, <1>9
<1>19. PICK h : h = g.conds
  OBVIOUS
<1>20. Follows(r, h)'
  BY <1>1, <1>13, <1>14, <1>17, <1>18, <1>19 DEF Follows, Arrived
<1> QED BY <1>20

(* At the beginning of a unit.                                             *)
LEMMA BeginFollows ==
    /\ \A x : Reached(x, In(<< >>, Main, 1, << >>, {}, << >>))
    /\ SameConds(<< >>, << >>, 0, 0) /\ AllOn(<< >>)
<1>1. In(<< >>, Main, 1, << >>, {}, << >>) = Begin
  <2>1. PICK r : r = Reading(Main, 1, << >>)
    OBVIOUS
  <2>2. Append(<< >>, r) = <<r>>
    OBVIOUS
  <2> QED BY <2>1, <2>2 DEF In, Begin
<1> QED BY <1>1, ReachedBegin DEF SameConds, AllOn

(* Every step keeps the reference at the side of the program.              *)
LEMMA StepFollows ==
    ASSUME IInv, NInv, GInv, CInv, [Next]_vars PROVE CInv'
<1>1. UNCHANGED lines
  BY DEF Next, Text, define, undef, ifdef, ifndef, else, elif, endif, include, PopInclude,
         EndOfFile, tcc_compile, Directive, vars
<1> SUFFICES ASSUME Good
             PROVE  /\ mode' = "read" => \E stk, c : Follows(stk, c)'
                    /\ mode' = "end" => \E env : Reached(lines', State(<< >>, env, output'))
  BY <1>1, GoodKept DEF CInv
<1>2. Marks
  BY DEF GInv
<1>3. mode = "read" => \E stk, c : Follows(stk, c)
  BY DEF CInv
<1>4. mode = "end" => \E env : Reached(lines, State(<< >>, env, output))
  BY DEF CInv
<1>5. ASSUME NEW stk, NEW c, Follows(stk, c), mode' = "read",
             \/ Text \/ define \/ undef \/ ifdef \/ ifndef \/ else \/ elif \/ endif
             \/ include \/ PopInclude
      PROVE  \E r, h : Follows(r, h)'
  BY <1>2, <1>5, PlainFollows, ifFollows, BranchFollows, endifFollows, includeFollows,
     PopIncludeFollows
<1>6. CASE \/ Text \/ define \/ undef \/ ifdef \/ ifndef \/ else \/ elif \/ endif
           \/ include \/ PopInclude
  <2>1. mode = "read" /\ mode' # "end"
    BY <1>6 DEF Text, define, undef, ifdef, ifndef, else, elif, endif, include, PopInclude,
                Directive, At, do_if, TestSkip, Skip, Fails
  <2> QED BY <2>1, <1>3, <1>5, <1>6
<1>7. CASE EndOfFile
  <2>1. /\ mode = "read" /\ AtEnd /\ include_stack = << >> /\ mode' = "end"
        /\ UNCHANGED <<lines, output>>
    BY <1>7 DEF EndOfFile
  <2>2. PICK stk, c : Follows(stk, c)
    BY <2>1, <1>3
  <2>3. Reached(lines, State(stk, defined, output))
    BY <2>1, <2>2, EndFollows
  <2>4. stk = << >>
    <3>1. stk \in Seq(Suspension) /\ Len(stk) = 0
      BY <2>1, <2>2 DEF Follows, Below
    <3> QED BY <3>1, EmptySeq
  <2>5. PICK env : env = defined
    OBVIOUS
  <2> QED BY <2>1, <2>3, <2>4, <2>5
<1>8. CASE tcc_compile
  <2>1. /\ file' = Start /\ include_stack' = << >> /\ ifdef_stack' = << >>
        /\ defined' = {} /\ output' = << >> /\ mode' = "read"
    BY <1>8 DEF tcc_compile
  <2>2. Follows(<< >>, << >>)'
    <3>1. Below(<< >>)'
      BY <2>1 DEF Below
    <3>2. PICK y : y = lines'
      OBVIOUS
    <3> QED BY <2>1, <3>1, <3>2, BeginFollows DEF Follows, Arrived, Start
  <2> QED BY <2>1, <2>2
<1>9. CASE UNCHANGED vars
  <2>1. UNCHANGED <<lines, file, include_stack, ifdef_stack, defined, output, mode>>
    BY <1>9 DEF vars
  <2>2. ASSUME NEW stk, NEW c, Follows(stk, c) PROVE Follows(stk, c)'
    <3>1. \A i : Base(i)' = Base(i)
      BY <2>1 DEF Base
    <3>2. Below(stk)'
      BY <2>1, <2>2, <3>1 DEF Follows, Below
    <3> QED BY <2>1, <2>2, <3>2 DEF Follows
  <2> QED BY <2>1, <2>2, <1>3, <1>4
<1> QED BY <1>6, <1>7, <1>8, <1>9 DEF Next

(* With headers that are plain, the text of a unit is that of a            *)
(* preprocessor with no cache and no skipping, in this unit and the next.  *)
THEOREM TextTransparent == ASSUME Steps = Nat PROVE Spec => []Transparent
<1>1. IInv /\ NInv /\ GInv /\ CInv => Transparent
  <2> SUFFICES ASSUME CInv, mode = "end", Good PROVE TextIs(output)
    BY DEF Transparent, Good
  <2>1. PICK env : Reached(lines, State(<< >>, env, output))
    BY DEF CInv
  <2> QED BY <2>1, TextReached
<1>2. Init => GInv
  <2> SUFFICES ASSUME Init PROVE Marks
    BY DEF GInv
  <2>1. file.name \notin Headers /\ cached = {} /\ include_stack = << >>
    BY IncludeAssumption DEF Init, Start
  <2> QED BY <2>1 DEF Marks, CacheRight, SuspendedRight, GuardKnown, FlagsRight
<1>3. Init => CInv
  <2> SUFFICES ASSUME Init PROVE CInv
    OBVIOUS
  <2>1. /\ file = Start /\ include_stack = << >> /\ ifdef_stack = << >>
        /\ defined = {} /\ output = << >> /\ mode = "read"
    BY DEF Init
  <2>2. Below(<< >>)
    BY <2>1 DEF Below
  <2>3. Follows(<< >>, << >>)
    BY <2>1, <2>2, BeginFollows DEF Follows, Arrived, Start
  <2> QED BY <2>1, <2>3 DEF CInv
<1>4. IInv /\ NInv /\ GInv /\ CInv /\ [Next]_vars => GInv' /\ CInv'
  BY GuardsRight, StepFollows
<1>5. Spec => []NInv
  BY FramesRight
<1> QED BY <1>1, <1>2, <1>3, <1>4, <1>5, Invariance, PTL DEF Spec
=============================================================================
