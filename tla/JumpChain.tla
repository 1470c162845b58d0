----------------------------- MODULE JumpChain -----------------------------
(***************************************************************************)
(* The jumps of src/generic/tcc.c (block, expr_land, expr_lor) and of      *)
(* i386/i386-gen.c (gjmp, gtst, gsym_addr).  A jump whose target is not    *)
(* known yet keeps in its address field the one that was generated before  *)
(* it for the same target: the field threads a chain, and a chain is known *)
(* by its newest jump, 0 if it has none.  gsym_addr walks the chain and    *)
(* puts the target in the fields.                                          *)
(*                                                                         *)
(* A program is any order of the actions that block takes; an instruction  *)
(* is a cell of the code, and the address of a cell is its index.  Gotos   *)
(* and labels are in LabelStack, the values of conditions in ValueStack.   *)
(***************************************************************************)
EXTENDS Integers, SequencesExt, FiniteSetsExt

CONSTANTS
    Conditions, \* the conditions of if, while, for and do in a program
    Tests,      \* the conditions whose tests are compared with C
    Operands,   \* the operands they are made of
    MaxCode,    \* bound: the instructions of a function
    MaxOpen     \* bound: the statements that are open at a time

(* A condition: a leaf, of an operand or a constant x, or an operator and  *)
(* what it is applied to, which may have an operator as well.              *)
Simple == [op : {"operand", "cmp"}, x : Operands] \union [op : {"const"}, x : BOOLEAN]
Applied(S) == [op : {"and", "or"}, es : Seq(S)] \union [op : {"not"}, es : [{1} -> S]]
Condition == Simple \union Applied(Simple \union Applied(Simple))

ASSUME JumpAssumption ==
    /\ Conditions \subseteq Condition /\ Tests \subseteq Condition
    /\ MaxCode \in Nat \ {0} /\ MaxOpen \in Nat

VARIABLES
    code,   \* the instructions
    open,   \* the statements that block is in, the innermost last
    rsym,   \* the chain of the returns
    place,  \* ghost: the address of every label of the program, 0 if not met
    ended   \* the function is complete

vars == <<code, open, rsym, place, ended>>

(* op: jmp, jcc (taken if the operand x is not inv) or other.  next: the   *)
(* chain, then the target.  Ghosts: the label it means, and how often its  *)
(* field was written.                                                      *)
Instr(op, x, inv, next, meant) ==
    [op |-> op, x |-> x, inv |-> inv, next |-> next, meant |-> meant, writes |-> 0]
Other == Instr("other", "", FALSE, 0, 0)

ind(cs) == Len(cs) + 1
Exit == 1       \* the label of the end of the function

(* a .. d: the variables of block; brk, cont and after: the labels of      *)
(* break, of continue, and of what comes next.                             *)
Statement(kind) ==
    [kind |-> kind, a |-> 0, b |-> 0, c |-> 0, d |-> 0, brk |-> 0, cont |-> 0, after |-> 0]

Init ==
    /\ code = <<Other>> /\ open = <<>> /\ rsym = 0 /\ place = <<0>>
    /\ ended = FALSE

---------------------------------------------------------------------------
(* oad and its uses.                                                       *)

(* The jumps of chain t.  The field of a jump that waits leads down, and   *)
(* the walk ends where one leads up (TypeOK, Threaded).                    *)
Chain(cs, t) ==
    LET on[u \in 0 .. Len(cs)] ==
            IF u = 0 THEN {} ELSE {u} \union IF cs[u].next < u THEN on[cs[u].next] ELSE {}
    IN on[t]

(* Mutant: a jump forgets the chain it is put on.                          *)
gjmp_alone(cs, t, l) == Append(cs, Instr("jmp", "", FALSE, 0, l))
gjmp(cs, t, l) == Append(cs, Instr("jmp", "", FALSE, t, l))
Jump(cs, t, l) == [code |-> gjmp(cs, t, l), t |-> ind(cs)]

gsym_addr(cs, t, a) ==
    LET on == Chain(cs, t)
    IN [i \in DOMAIN cs |-> IF i \in on THEN [cs[i] EXCEPT !.next = a, !.writes = @ + 1] ELSE cs[i]]
gsym(cs, t) == gsym_addr(cs, t, ind(cs))

gjmp_addr(cs, a, l) == Append(cs, [Instr("jmp", "", FALSE, a, l) EXCEPT !.writes = 1])

(* A condition that was generated: the operand x in a register ("operand"),*)
(* or compared and not yet in one ("cmp", the other way if inv), a         *)
(* constant, or jumps that are taken when it is false (inv: VT_JMPI) or    *)
(* when it is true (VT_JMP).                                               *)
Value(r, x, inv, t) == [r |-> r, x |-> x, inv |-> inv, t |-> t]

(* Mutant: the chain is put before the jumps of the value.                 *)
splice_behind(cs, v, t, l) ==
    LET last == Min(Chain(cs, t) \union {Len(cs) + 1})
    IN [code |-> [i \in DOMAIN cs |->
                     IF i \in Chain(cs, v.t) THEN [cs[i] EXCEPT !.meant = l]
                     ELSE IF i = last THEN [cs[i] EXCEPT !.next = v.t] ELSE cs[i]],
        t |-> IF t = 0 THEN v.t ELSE t]

(* The jumps of a value put before chain t: the last one goes on with t.   *)
splice(cs, v, t, l) ==
    LET on == Chain(cs, v.t)
    IN [code |-> [i \in DOMAIN cs |->
                     IF i \notin on THEN cs[i]
                     ELSE [cs[i] EXCEPT !.meant = l, !.next = IF i = Min(on) THEN t ELSE @]],
        t |-> IF v.t = 0 THEN t ELSE v.t]

(* Mutant: jumps that go the other way are joined to the chain as well.    *)
gtst_joined(cs, v, inv, t, l) ==
    CASE v.r = "jmp" -> splice(cs, v, t, l)
      [] v.r = "const" -> IF v.x # inv THEN Jump(cs, t, l) ELSE [code |-> cs, t |-> t]
      [] OTHER -> [code |-> Append(cs, Instr("jcc", v.x, v.inv # inv, t, l)), t |-> ind(cs)]

(* gtst: a jump of chain t, taken when the value is not inv.               *)
gtst(cs, v, inv, t, l) ==
    CASE v.r = "jmp" /\ v.inv = inv -> splice(cs, v, t, l)
      [] v.r = "jmp" /\ v.inv # inv -> [code |-> gsym(gjmp(cs, t, l), v.t), t |-> ind(cs)]
      [] v.r = "const" -> IF v.x # inv THEN Jump(cs, t, l) ELSE [code |-> cs, t |-> t]
      [] OTHER -> [code |-> Append(cs, Instr("jcc", v.x, v.inv # inv, t, l)), t |-> ind(cs)]

---------------------------------------------------------------------------
(* A condition: an operator and the conditions es it is applied to, or a   *)
(* leaf x.  An operand p of && or || is tested after those of s.           *)
expr_land_lor(s, p, inv) == gtst(p.code, p.v, inv, s.t, 0)

(* !, in unary, of the operand p.                                          *)
not(p) ==
    LET r == gtst(p.code, p.v, TRUE, 0, 0)
    IN CASE p.v.r = "const" -> [p EXCEPT !.v.x = ~@]
         [] p.v.r = "cmp" -> [p EXCEPT !.v.inv = ~@]
         [] OTHER -> [code |-> r.code, v |-> Value("jmp", "", FALSE, r.t)]

IsLeaf(e) == e.op \in {"operand", "cmp", "const"}
Leaf(cs, e) == [code |-> cs, v |-> Value(e.op, e.x, FALSE, 0)]

(* expr_land and expr_lor: the operands es, as Gen generates them, are     *)
(* tested one after the other (inv: until one is false).                   *)
AllTested(cs, es, inv, Gen(_, _)) ==
    LET tested[i \in 0 .. Len(es)] ==
            IF i = 0 THEN [code |-> cs, t |-> 0]
            ELSE expr_land_lor(tested[i - 1], Gen(tested[i - 1].code, es[i]), inv)
    IN tested[Len(es)]
Combined(cs, e, Gen(_, _)) ==
    LET r == AllTested(cs, e.es, e.op = "and", Gen)
    IN IF e.op = "not" THEN not(Gen(cs, e.es[1]))
       ELSE [code |-> r.code, v |-> Value("jmp", "", e.op = "and", r.t)]

(* expr_lor and below, for an operand and for a condition.                 *)
Shallow(cs, e) == IF IsLeaf(e) THEN Leaf(cs, e) ELSE Combined(cs, e, Leaf)
gexpr(cs, e) == IF IsLeaf(e) THEN Leaf(cs, e) ELSE Combined(cs, e, Shallow)

(* What C says of a condition, given its operands that are true.           *)
LeafHolds(e, given) == IF e.op = "const" THEN e.x ELSE e.x \in given
HoldsOf(e, given, Holds(_, _)) ==
    CASE e.op = "not" -> ~Holds(e.es[1], given)
      [] e.op = "and" -> \A i \in DOMAIN e.es : Holds(e.es[i], given)
      [] OTHER -> \E i \in DOMAIN e.es : Holds(e.es[i], given)
HoldsShallow(e, given) ==
    IF IsLeaf(e) THEN LeafHolds(e, given) ELSE HoldsOf(e, given, LeafHolds)
True(e, given) ==
    IF IsLeaf(e) THEN LeafHolds(e, given) ELSE HoldsOf(e, given, HoldsShallow)

(* The instructions from address a run to the end, or leave by the chain.  *)
Leaves(cs, a, t, given) ==
    LET on == Chain(cs, t)
        run[i \in a .. ind(cs)] ==
            IF i = ind(cs) THEN FALSE
            ELSE IF cs[i].op = "jmp" \/ (cs[i].x \in given) # cs[i].inv
                 THEN i \in on \/ (cs[i].writes = 1 /\ run[cs[i].next])
                 ELSE run[i + 1]
    IN run[a]

Test(cs, e, inv, l) == LET g == gexpr(cs, e) IN gtst(g.code, g.v, inv, 0, l)

---------------------------------------------------------------------------
Top == Last(open)
In(kind) == open # <<>> /\ Top.kind = kind
NewLabel(n) == Len(place) + n
Opened(s) == Append(open, s)
Closed == Front(open)

(* Labels other than 0 of a statement, and of statements and jumps.        *)
Labels(s) == {s.brk, s.cont, s.after} \ {0}
Arrived(i, p) == i.writes = 1 /\ (i.meant = 0 \/ i.next = p[i.meant])
Used(cs, o, p) ==
    {Exit} \union (UNION {Labels(o[i]) : i \in DOMAIN o})
           \union ({cs[i].meant : i \in {j \in DOMAIN cs : ~Arrived(cs[j], p)}} \ {0})
Rank(S, l) == Cardinality({u \in S : u <= l})
Places(S, p) == [i \in 1 .. Cardinality(S) |-> p[CHOOSE l \in S : Rank(S, l) = i]]

(* Between two actions a jump that has arrived is any instruction, one     *)
(* that waits is only known by its chain, and labels that nothing means    *)
(* any more are dropped.                                                   *)
Settle(cs, o, t, p) ==
    LET used == Used(cs, o, p)
        New(l) == Rank(used, l)
        Settled(i) == IF i.op = "other" \/ Arrived(i, p) THEN Other
                      ELSE [i EXCEPT !.op = "jmp", !.x = "", !.inv = FALSE, !.meant = New(@)]
    IN /\ ~ended /\ Len(cs) <= MaxCode /\ Len(o) <= MaxOpen
       /\ code' = [i \in DOMAIN cs |-> Settled(cs[i])]
       /\ open' = [i \in DOMAIN o |->
                      [o[i] EXCEPT !.brk = New(@), !.cont = New(@), !.after = New(@)]]
       /\ rsym' = t
       /\ place' = Places(used, p)

(* if: the jump over the statement, then over the else part.               *)
if_(e) ==
    LET r == Test(code, e, TRUE, NewLabel(1))
    IN /\ Settle(r.code, Opened([Statement("then") EXCEPT !.a = r.t, !.after = NewLabel(1)]),
                 rsym, Append(place, 0))
       /\ UNCHANGED ended
else_ ==
    LET j == Jump(code, 0, NewLabel(1))
    IN /\ In("then")
       /\ Settle(gsym(j.code, Top.a),
                 Append(Closed, [Statement("else") EXCEPT !.d = j.t, !.after = NewLabel(1)]),
                 rsym, Append([place EXCEPT ![Top.after] = ind(j.code)], 0))
       /\ UNCHANGED ended
end_if ==
    /\ In("then") \/ In("else")
    /\ Settle(gsym(code, IF In("then") THEN Top.a ELSE Top.d), Closed, rsym,
              [place EXCEPT ![Top.after] = ind(code)])
    /\ UNCHANGED ended

(* Mutant: continue goes behind the loop.                                  *)
end_while_after ==
    LET back == gjmp_addr(code, Top.d, Top.cont)
    IN /\ In("while")
       /\ Settle(gsym(gsym(back, Top.a), Top.b), Closed, rsym,
                 [place EXCEPT ![Top.brk] = ind(back)])
       /\ UNCHANGED ended

while_(e) ==
    LET r == Test(code, e, TRUE, NewLabel(1))
    IN /\ Settle(r.code, Opened([Statement("while") EXCEPT !.a = r.t, !.d = ind(code),
                                                           !.brk = NewLabel(1), !.cont = NewLabel(2)]),
                 rsym, place \o <<0, ind(code)>>)
       /\ UNCHANGED ended
end_while ==
    LET back == gjmp_addr(code, Top.d, Top.cont)
    IN /\ In("while")
       /\ Settle(gsym_addr(gsym(back, Top.a), Top.b, Top.d), Closed, rsym,
                 [place EXCEPT ![Top.brk] = ind(back)])
       /\ UNCHANGED ended

(* for: with a condition or without, and with an increment or without,     *)
(* which comes before the statement and is jumped over.                    *)
for_(tested, e, incr) ==
    LET r == IF tested THEN Test(code, e, TRUE, NewLabel(1)) ELSE [code |-> code, t |-> 0]
        j == Jump(r.code, 0, NewLabel(4))
        i == gsym(gjmp_addr(Append(j.code, Other), ind(code), NewLabel(3)), j.t)
        c == IF incr THEN ind(j.code) ELSE ind(code)
    IN /\ Settle(IF incr THEN i ELSE r.code,
                 Opened([Statement("for") EXCEPT !.a = r.t, !.c = c, !.d = ind(code),
                                                 !.brk = NewLabel(1), !.cont = NewLabel(2)]),
                 rsym, place \o <<0, c, ind(code), ind(i)>>)
       /\ UNCHANGED ended
end_for ==
    LET back == gjmp_addr(code, Top.c, Top.cont)
    IN /\ In("for")
       /\ Settle(gsym_addr(gsym(back, Top.a), Top.b, Top.c), Closed, rsym,
                 [place EXCEPT ![Top.brk] = ind(back)])
       /\ UNCHANGED ended

do_ ==
    /\ Settle(code, Opened([Statement("do") EXCEPT !.d = ind(code), !.brk = NewLabel(1),
                                                   !.cont = NewLabel(2), !.after = NewLabel(3)]),
              rsym, place \o <<0, 0, ind(code)>>)
    /\ UNCHANGED ended
end_do(e) ==
    LET r == Test(gsym(code, Top.b), e, FALSE, Top.after)
    IN /\ In("do")
       /\ Settle(gsym(gsym_addr(r.code, r.t, Top.d), Top.a), Closed, rsym,
                 [place EXCEPT ![Top.cont] = ind(code), ![Top.brk] = ind(r.code)])
       /\ UNCHANGED ended

---------------------------------------------------------------------------
(* switch: b is the chain to the next test, c the address of default.      *)
switch ==
    LET j == Jump(code, 0, NewLabel(2))
    IN /\ Settle(j.code, Opened([Statement("switch") EXCEPT !.b = j.t, !.brk = NewLabel(1),
                                                            !.after = NewLabel(2)]),
                 rsym, place \o <<0, 0>>)
       /\ UNCHANGED ended
end_switch ==
    LET c == IF Top.c = 0 THEN ind(code) ELSE Top.c
    IN /\ In("switch")
       /\ Settle(gsym(gsym_addr(code, Top.b, c), Top.a), Closed, rsym,
                 [place EXCEPT ![Top.brk] = ind(code), ![Top.after] = c])
       /\ UNCHANGED ended

(* bsym, csym and case_sym: those of the innermost statement that gives    *)
(* its own; a statement expression has none.                               *)
Loops == {"while", "for", "do"}
Target(kinds) ==
    LET i == SelectLastInSeq(open, LAMBDA s : s.kind \in kinds \union {"expr"})
    IN IF i = 0 \/ open[i].kind = "expr" THEN 0 ELSE i
bsym == Target(Loops \union {"switch"})
csym == Target(Loops)
case_sym == Target({"switch"})

(* The tests of a case but the last one, which are met from chain t: a     *)
(* range is left at once by a value that is too low.                       *)
Missed(cs, range, t, next) ==
    LET met == gsym(cs, t)
    IN IF range THEN gtst(met, Value("operand", "v1", FALSE, 0), TRUE, 0, next)
       ELSE [code |-> met, t |-> 0]
Last_test == Value("operand", "v2", FALSE, 0)

(* case: one label or two in a row (range: of values).  The labels are     *)
(* jumped over, a test that fails goes to the next one.                    *)
case_(range) ==
    LET s == open[case_sym]
        over == Jump(code, 0, NewLabel(1))
        one == Missed(over.code, range, s.b, NewLabel(2))
        miss == gtst(one.code, Last_test, TRUE, one.t, NewLabel(2))
    IN /\ case_sym # 0
       /\ Settle(gsym(miss.code, over.t),
                 [open EXCEPT ![case_sym].b = miss.t, ![case_sym].after = NewLabel(2)],
                 rsym, [place EXCEPT ![s.after] = ind(over.code)] \o <<ind(miss.code), 0>>)
       /\ UNCHANGED ended
case_case(range, range2) ==
    LET s == open[case_sym]
        over == Jump(code, 0, NewLabel(1))
        one == Missed(over.code, range, s.b, NewLabel(2))
        hit == gtst(one.code, Last_test, FALSE, over.t, NewLabel(1))
        two == Missed(hit.code, range2, one.t, NewLabel(3))
        miss == gtst(two.code, Last_test, TRUE, two.t, NewLabel(3))
    IN /\ case_sym # 0
       /\ Settle(gsym(miss.code, hit.t),
                 [open EXCEPT ![case_sym].b = miss.t, ![case_sym].after = NewLabel(3)],
                 rsym,
                 [place EXCEPT ![s.after] = ind(over.code)] \o <<ind(miss.code), ind(hit.code), 0>>)
       /\ UNCHANGED ended

default ==
    /\ case_sym # 0 /\ open[case_sym].c = 0
    /\ Settle(code, [open EXCEPT ![case_sym].c = ind(code)], rsym, place)
    /\ UNCHANGED ended

break ==
    LET j == Jump(code, open[bsym].a, open[bsym].brk)
    IN /\ bsym # 0 /\ Settle(j.code, [open EXCEPT ![bsym].a = j.t], rsym, place)
       /\ UNCHANGED ended
continue ==
    LET j == Jump(code, open[csym].b, open[csym].cont)
    IN /\ csym # 0 /\ Settle(j.code, [open EXCEPT ![csym].b = j.t], rsym, place)
       /\ UNCHANGED ended
return ==
    LET j == Jump(code, rsym, Exit)
    IN Settle(j.code, open, j.t, place) /\ UNCHANGED ended

(* Any other statement (one in a row, unless the next address is the one   *)
(* of a label), and a statement expression around statements.              *)
other ==
    /\ Last(code) = Other => ind(code) \in Range(place)
    /\ Settle(Append(code, Other), open, rsym, place) /\ UNCHANGED ended
expr == Settle(code, Opened(Statement("expr")), rsym, place) /\ UNCHANGED ended
end_expr == In("expr") /\ Settle(code, Closed, rsym, place) /\ UNCHANGED ended

(* The returns of the function arrive at its end.                          *)
gen_function ==
    /\ open = <<>> /\ ended' = TRUE
    /\ Settle(gsym(code, rsym), open, 0, [place EXCEPT ![Exit] = ind(code)])

Next ==
    \/ \E e \in Conditions :
          if_(e) \/ while_(e) \/ end_do(e) \/ \E incr \in BOOLEAN : for_(TRUE, e, incr)
    \/ \E incr \in BOOLEAN : for_(FALSE, 0, incr)
    \/ \E range \in BOOLEAN : case_(range) \/ \E range2 \in BOOLEAN : case_case(range, range2)
    \/ else_ \/ end_if \/ end_while \/ end_for \/ do_ \/ switch \/ end_switch
    \/ default \/ break \/ continue \/ return \/ other \/ expr \/ end_expr \/ gen_function

Spec == Init /\ [][Next]_vars

---------------------------------------------------------------------------
(* The chains that wait, with the label each waits for.                    *)
Chains(s) ==
    CASE s.kind = "then" -> {<<s.a, s.after>>}
      [] s.kind = "else" -> {<<s.d, s.after>>}
      [] s.kind \in Loops -> {<<s.a, s.brk>>, <<s.b, s.cont>>}
      [] s.kind = "switch" -> {<<s.a, s.brk>>, <<s.b, s.after>>}
      [] OTHER -> {}
Waiting == {<<rsym, Exit>>} \union UNION {Chains(open[i]) : i \in DOMAIN open}

Jumps == {i \in DOMAIN code : code[i].op # "other"}
Waits == {i \in Jumps : code[i].writes = 0}

(* Type invariant: a chain and a field hold 0 or an address of the code,   *)
(* and a chain goes down to older jumps, so that gsym_addr ends.           *)
TypeOK ==
    /\ Len(code) <= MaxCode /\ Len(open) <= MaxOpen
    /\ rsym \in 0 .. Len(code) /\ ended \in BOOLEAN
    /\ \A i \in DOMAIN code : code[i].next \in 0 .. ind(code) /\ code[i].writes \in Nat
    /\ \A i \in Waits : code[i].next < i
    /\ \A w \in Waiting : w[1] \in 0 .. Len(code) /\ w[2] \in DOMAIN place

(* A jump whose target is not known is on the chain that waits for it and  *)
(* on no other, and nothing else is on a chain: whatever order statements  *)
(* nest in, a break, a continue, a return or a failed test is not lost and *)
(* is not taken along with the jumps of another statement; in the end none *)
(* is left.                                                                *)
Threaded ==
    /\ \A i \in Waits : \E w \in Waiting : w[2] = code[i].meant /\ i \in Chain(code, w[1])
    /\ \A w \in Waiting : \A i \in Chain(code, w[1]) : i \in Waits /\ w[2] = code[i].meant

(* A jump goes once and for all where C says: break behind the statement,  *)
(* continue to the increment or the test, a case that does not match to    *)
(* the next one, and the last to default.  A jump that has done so is no   *)
(* longer one (Settle).                                                    *)
Arrives == Jumps = Waits

(* A test of a condition jumps for just those operands for which C says    *)
(* that it does, with && and || nested in each other and in ! (gtst).  It  *)
(* does not depend on the code before it.                                  *)
TestsRight ==
    Len(code) = 1 =>
      \A e \in Tests, inv \in BOOLEAN :
         LET r == Test(code, e, inv, Exit)
         IN \A given \in SUBSET Operands :
               Leaves(r.code, ind(code), r.t, given) = (True(e, given) # inv)
=============================================================================
