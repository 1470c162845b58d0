----------------------------- MODULE ValueStack -----------------------------
(***************************************************************************)
(* The expressions of src/generic/tcc.c: what the parser (unary, uneq,     *)
(* expr_land, expr_lor, expr_eq) does to the value stack, with the code    *)
(* that is generated running beside it (CodeGen).  A program is any order  *)
(* of the actions; at a branch the machine goes either way, and while it   *)
(* is on the way to a jump that is not placed yet what is emitted does not *)
(* run.                                                                    *)
(***************************************************************************)
EXTENDS CodeGen

CONSTANTS
    MaxStack,   \* bound: the entries of the stack and the branches that are open
    MaxBranch,  \* bound: the &&, || and ?: that are open at a time
    Leaves,     \* the objects and constants a program reads
    IntOps,     \* the operators on ints
    LongOps,    \* the operators on long longs
    Calls,      \* how functions are called: <<by name or pointer, convention>>
    Avoided     \* the forms that programs do without: sizeof and statement
                \* expressions after a flag, and the shift by a flag that still
                \* has a second register

ASSUME ValueStackAssumption ==
    /\ MaxStack \in Nat /\ MaxBranch \in Nat /\ Avoided \subseteq {"sizeof", "stmt_expr", "shift"}
    /\ Leaves \subseteq {"int", "ll", "gint", "gll", "kint", "kll"}
    /\ IntOps \subseteq {"+", "-", "*", "<<", "/", "%", "cmp"}
    /\ LongOps \subseteq {"+", "*", "/"}
    /\ Calls \subseteq {"name", "pointer"} \X {"cdecl", "fastcall", "regparm"}

VARIABLES
    m,      \* the code generator and the machine
    open    \* the operators and calls that are open, the innermost last

vars == <<m, open>>

Init ==
    /\ m = [stack |-> <<>>, slots |-> <<>>, reg |-> [r \in RegisterSet |-> Junk], flags |-> Junk,
            mem |-> <<>>, want |-> <<>>,
            wait |-> 0, text |-> TRUE, args |-> <<>>, wrong |-> {}]
    /\ open = <<>>

(* base: the entries under the operand; t: the chain of the jump; sv: the  *)
(* first value of ?:; n: the arguments that are complete.                  *)
Open(kind, base, t) ==
    [kind |-> kind, base |-> base, t |-> t, inv |-> FALSE, sv |-> <<>>, n |-> 0, conv |-> ""]

Entries(s, o) == s.stack \o FlattenSeq([i \in DOMAIN o |-> o[i].sv])

Height == Len(m.stack)
Floor == IF open = <<>> THEN 0 ELSE Last(open).base + Last(open).n
Within(kind) == open # <<>> /\ Last(open).kind = kind /\ Height = Floor + 1
Branches == Cardinality({i \in DOMAIN open : open[i].kind \in {"land", "then", "else"}})
Room == Height + Branches < MaxStack
Operands(n) == Height >= Floor + n /\ \A i \in 1 .. n : m.stack[Height + 1 - i].t # "func"
Flagged == Height > 0 /\ Top(m).r \in {"cmp", "jmp"}

(* A chain that no jump is in.                                             *)
Chains(s, o) ==
    ({s.wait} \union {o[i].t : i \in DOMAIN o}
     \union {Chain(e) : e \in {x \in ToSet(Entries(s, o)) : x.r = "jmp"}}) \ {0}
NewChain == 1 + Max({0} \union Chains(m, open))

---------------------------------------------------------------------------
(* Between two actions slots are numbered anew in the order of the stack,  *)
(* and chains in theirs, and a value is named after the register, slot or  *)
(* flag it is found in; one that is not where its entry says is lost.      *)
Distinct(s) == FoldLeft(LAMBDA a, x : IF Contains(a, x) THEN a ELSE Append(a, x), <<>>, s)
Slots(es) == SelectSeq(Distinct(FlattenSeq([i \in DOMAIN es |-> es[i].c])), LAMBDA w : w[1] = "slot")
Index(w, slots) == CHOOSE i \in DOMAIN slots : slots[i] = w
Rank(t, chains) == Cardinality({u \in chains : u <= t})

Named(w, name) == IF w[1] \in Bases \union {"junk"} THEN w ELSE name
Lost == <<"lost", 0, 0>>
Name(e, i, slots) ==
    IF IsConst(e) THEN <<"k", 5, i>>
    ELSE IF e.lval THEN <<"slot value", Index(e.c[1], slots), i>>
    ELSE <<"value", IF i = 1 THEN e.r ELSE e.r2, 0>>

Settled(e, s, slots, chains) ==
    LET Found(i) == IF i = 1 THEN Word(s, e) ELSE Word2(s, e)
        val == [i \in DOMAIN e.val |->
                  IF e.place \/ e.r = "jmp" \/ e.t = "func" THEN e.val[i]
                  ELSE IF Found(i) = e.val[i] THEN Named(e.val[i], Name(e, i, slots)) ELSE Lost]
        Moved(w) == CASE w[1] = "slot" -> <<"slot", Index(w, slots), 0>>
                      [] w[1] = "chain" -> <<"chain", 0, Rank(w[3], chains)>>
                      [] OTHER -> w
        Entry(x) == [e EXCEPT !.val = x, !.inv = (e.r = "jmp" /\ @),
                              !.c = CASE IsConst(e) /\ e.t # "func" -> x
                                      [] ~IsReg(e.r) /\ e.r # "cmp" -> <<Moved(@[1])>>
                                      [] OTHER -> <<Junk>>]
    IN Entry(val)

SettleAs(s, o, es, slots, chains) ==
    LET used == UNION {{es[i].r, es[i].r2} : i \in DOMAIN es}
        All(e) == [i \in DOMAIN e |-> Settled(e[i], s, slots, chains)]
    IN /\ m' = [s EXCEPT !.stack = All(@),
                         !.slots = [i \in DOMAIN slots |->
                                      [j \in 1 .. 2 |-> Named(@[slots[i][2]][j], <<"slot value", i, j>>)]],
                         !.reg = [r \in DOMAIN @ |-> IF r \in used THEN Named(@[r], <<"value", r, 0>>) ELSE Junk],
                         !.flags = IF "cmp" \in used THEN Named(@, <<"value", "cmp", 0>>) ELSE Junk,
                         !.mem = [c \in {d \in DOMAIN @ \union DOMAIN s.want : Read(s, d) # Wanted(s, d)} |-> Junk],
                         !.want = <<>>, !.args = <<>>, !.wait = Rank(@, chains)]
       /\ open' = [i \in DOMAIN o |-> [o[i] EXCEPT !.sv = All(@), !.t = Rank(@, chains)]]
Settle(s, o) == SettleAs(s, o, Entries(s, o), Slots(Entries(s, o)), Chains(s, o))

---------------------------------------------------------------------------
(* unary: operands.                                                        *)

Object(t, r, a) == SValue(t, r, TRUE, <<a>>, <<a>>, TRUE)
Leaf ==
    [int |-> Object("int", "local", <<"a", 0, 0>>), ll |-> Object("ll", "local", <<"a", 0, 0>>),
     gint |-> Object("int", "const", <<"g", 0, 0>>), gll |-> Object("ll", "const", <<"g", 0, 0>>),
     kint |-> Const("int", <<<<"k", 5, 0>>>>), kll |-> Const("ll", <<<<"k", 5, 0>>, <<"k", 5, 1>>>>)]

Function(r) ==
    IF r = "name" THEN SValue("func", "const", FALSE, <<<<"f", 0, 0>>>>, <<<<"f", 0, 0>>>>, FALSE)
    ELSE Object("func", "local", <<"fp", 0, 0>>)

push == Room /\ \E x \in Leaves : Settle(vsetc(m, Leaf[x]), open)

(* indir: *p; the pointer is loaded, and is the address of an lvalue.      *)
indir ==
    LET Pointed(s, t) == SetTop(s, [Top(s) EXCEPT !.t = t, !.lval = TRUE, !.place = TRUE])
    IN /\ Room
       /\ \E t \in {"int", "ll"} :
             Settle(Pointed(gv_int(vsetc(m, Object("ptr", "local", <<"p", 0, 0>>)), "int"), t), open)

(* !: of a comparison, or with a jump.                                     *)
not ==
    LET e == Top(m)
        t == NewChain
        Inverted == SetTop(m, [e EXCEPT !.inv = ~@, !.val = <<Op("not", @[1], Junk)>>])
        Jumped(b) == PushJump(gtst(save_regs(m, 1), TRUE, t, b), FALSE, t)
    IN /\ Operands(1) /\ e.t = "int" /\ ~IsConst(e)
       /\ \E b \in BOOLEAN : Settle(IF e.r = "cmp" THEN Inverted ELSE Jumped(b), open)

(* gen_cast between int and long long.  An unsigned long long that becomes *)
(* an int keeps its second register.                                       *)
cast_long ==
    LET e == Top(m)
        x == Value(m, e)[1]
        High(unsigned) == IF unsigned THEN <<"k", 0, 0>> ELSE Op("sar", x, <<"k", 31, 0>>)
        WithHigh(s, unsigned) ==
            IF unsigned THEN gv_int(vpushv(s, Const("int", <<High(TRUE)>>)), "int")
            ELSE gen_shift(vpushv(dup_int(s), Const("int", <<<<"k", 31, 0>>>>)), "sar")
        Paired(s, high) == SetTop(Drop(s), [Next1(s) EXCEPT !.r2 = Top(s).r, !.t = "ll", !.val = <<x, high>>])
    IN /\ Operands(1) /\ e.t = "int"
       /\ \E unsigned \in BOOLEAN :
             Settle(IF IsConst(e) THEN SetTop(m, Const("ll", <<x, High(unsigned)>>))
                    ELSE Paired(WithHigh(gv_int(m, "int"), unsigned), High(unsigned)), open)
cast_int ==
    LET e == Top(m)
        low == SubSeq(Value(m, e), 1, 1)
        AsInt(s) == SetTop(s, IF IsConst(Top(s)) THEN Const("int", low)
                            ELSE [Top(s) EXCEPT !.t = "int", !.val = IF Top(s).place THEN @ ELSE low])
    IN /\ Operands(1) /\ e.t = "ll"
       /\ \E unsigned \in BOOLEAN : Settle(AsInt(IF unsigned THEN m ELSE vpop(lexpand(m))), open)

(* sizeof of an object: parsed with no section to emit code to.            *)
sizeof ==
    /\ Room
    /\ "sizeof" \in Avoided => ~Flagged
    /\ \E x \in Leaves :
          LET s == Drop(vsetc([m EXCEPT !.text = FALSE], Leaf[x]))
          IN Settle(vsetc([s EXCEPT !.text = TRUE], Const("int", <<<<"k", 5, 0>>>>)), open)

(* ({ if (a) f(); 5; }): the registers are saved first; the machine calls  *)
(* f or does not (b).                                                      *)
stmt_expr ==
    LET t == NewChain
        s == vsetc(save_regs(m, 0), Const("int", <<<<"k", 0, 0>>>>))
        If(b) == gtst(vsetc(s, Leaf["int"]), TRUE, t, b)
        Call(c) == gfunc_call(vsetc(c, Function("name")), 0, "cdecl", "int")
    IN /\ Room
       /\ "stmt_expr" \in Avoided => ~Flagged
       /\ \E b \in BOOLEAN :
             Settle(vsetc(Drop(gsym(Drop(Call(If(b))), t)), Const("int", <<<<"k", 5, 0>>>>)), open)

(* The comma: the value on the top is dropped.                             *)
comma == Operands(1) /\ Settle(vpop(m), open)

---------------------------------------------------------------------------
(* Binary operators, assignments, ++ and --.                               *)

SameType == Operands(2) /\ Next1(m).t = Top(m).t
Ops(t) == CASE t = "ll" -> LongOps [] t = "int" -> IntOps [] OTHER -> {}
Avoids(op) == "shift" \in Avoided /\ op = "<<" /\ Flagged /\ IsReg(Top(m).r2)
binary ==
    /\ SameType
    /\ \E op \in Ops(Top(m).t) : ~Avoids(op) /\ Settle(gen_op(m, op), open)

compare_long ==
    /\ SameType /\ Top(m).t = "ll" /\ ~(IsConst(Top(m)) /\ IsConst(Next1(m)))
    /\ \E choice \in {"high false", "high true", "low false", "low true"} :
          Settle(gen_opl_cmp(m, NewChain, NewChain + 1, choice), open)

Assignable(e) == e.place /\ e.t \in {"int", "ll"}
assign == SameType /\ Assignable(Next1(m)) /\ Settle(vstore(m), open)

(* x op= y: the lvalue is there twice while y is read.                     *)
assign_op == 
    /\ Operands(1) /\ Assignable(Top(m)) /\ Room
    /\ Settle(vdup(m), Append(open, Open("assign", Height + 1, 0)))
assigned ==
    /\ Within("assign") /\ Next1(m).t = Top(m).t
    /\ \E op \in Ops(Top(m).t) \ {"cmp"} : ~Avoids(op) /\ Settle(vstore(gen_op(m, op)), Front(open))

incr ==
    /\ Operands(1) /\ Assignable(Top(m))
    /\ \E post \in BOOLEAN : Settle(inc(m, post), open)

---------------------------------------------------------------------------
(* &&, || and ?:.                                                          *)

Condition == Operands(1) /\ Top(m).t = "int"

(* Mutant: the registers are not saved before the first jump.              *)
land_unsaved ==
    LET t == NewChain
    IN /\ Condition /\ Branches < MaxBranch
       /\ \E inv, b \in BOOLEAN :
             Settle(gtst(m, inv, t, b), Append(open, [Open("land", Height - 1, t) EXCEPT !.inv = inv]))

(* inv: &&, which jumps when the operand is false.                         *)
land ==
    LET t == NewChain
    IN /\ Condition /\ Branches < MaxBranch
       /\ \E inv, b \in BOOLEAN :
             Settle(gtst(save_regs(m, 1), inv, t, b),
                    Append(open, [Open("land", Height - 1, t) EXCEPT !.inv = inv]))
land_next ==
    /\ Within("land") /\ Condition
    /\ \E b \in BOOLEAN : Settle(gtst(m, Last(open).inv, Last(open).t, b), open)
land_end ==
    LET o == Last(open)
    IN /\ Within("land") /\ Condition
       /\ \E b \in BOOLEAN : Settle(PushJump(gtst(m, o.inv, o.t, b), o.inv, o.t), Front(open))

(* The condition is in a register and the others are saved, unless it is   *)
(* alone on the stack.                                                     *)
cond ==
    LET t == NewChain
        s == IF Height > 1 THEN save_regs(gv_int(m, "int"), 1) ELSE m
    IN /\ Condition /\ Branches < MaxBranch
       /\ \E b \in BOOLEAN : Settle(gtst(s, TRUE, t, b), Append(open, Open("then", Height - 1, t)))
cond_else ==
    LET u == NewChain
    IN /\ Within("then") /\ Top(m).t # "func"
       /\ Settle(gsym(gjmp(Drop(m), u), Last(open).t),
                 Append(Front(open), [Open("else", Last(open).base, u) EXCEPT !.sv = <<Top(m)>>]))
cond_end ==
    LET sv == Last(open).sv[1]
        u == Last(open).t
        rc == IF sv.t = "ll" THEN "eax" ELSE "int"
        t == NewChain
        val == IF m.wait = u \/ (sv.r = "jmp" /\ m.wait = Chain(sv)) THEN Value(m, sv) ELSE Value(m, Top(m))
        First(g) == SetTop(gsym(gjmp(g, t), u), sv)
        Moved(h, r) == IF Top(h).r = r THEN h ELSE SetReg(save_reg(h, r), r, RegWord(h, Top(h).r))
        InOne(s, r) == SetTop(s, [Top(s) EXCEPT !.r = r, !.val = val])
        Joined(g) == InOne(Moved(gv(First(g), rc), Top(g).r), Top(g).r)
    IN /\ Within("else") /\ Top(m).t = sv.t
       /\ Settle(gsym(Joined(gv(m, rc)), t), Front(open))

---------------------------------------------------------------------------
(* Calls, of the function by its name or through fp.                       *)

function ==
    /\ Room
    /\ \E c \in Calls :
          Settle(vsetc(m, Function(c[1])), Append(open, [Open("call", Height + 1, 0) EXCEPT !.conv = c[2]]))
argument ==
    /\ Within("call") /\ Operands(1)
    /\ Settle(m, [open EXCEPT ![Len(open)].n = @ + 1])
call ==
    /\ open # <<>> /\ Last(open).kind = "call" /\ Height = Floor
    /\ \E t \in {"int", "ll"} : Settle(gfunc_call(m, Last(open).n, Last(open).conv, t), Front(open))

Next ==
    \/ push \/ indir \/ not \/ cast_long \/ cast_int \/ sizeof \/ stmt_expr \/ comma
    \/ binary \/ compare_long \/ assign \/ assign_op \/ assigned \/ incr
    \/ land \/ land_next \/ land_end \/ cond \/ cond_else \/ cond_end
    \/ function \/ argument \/ call

Spec == Init /\ [][Next]_vars

---------------------------------------------------------------------------
Locations == RegisterSet \union {"const", "local", "llocal", "cmp", "jmp"}

(* Type invariant: what the fields of vtop range over, and that a flag or  *)
(* a jump is nowhere but on the top of the stack.                          *)
TypeOK ==
    /\ Height + Branches <= MaxStack /\ Branches <= MaxBranch /\ m.text /\ m.wait \in Nat
    /\ \A i \in 1 .. Height :
         LET e == m.stack[i]
         IN /\ e.t \in {"int", "ll", "func"} /\ e.r \in Locations
            /\ e.r2 \in RegisterSet \union {"const"}
            /\ e.r \in {"cmp", "jmp"} => i = Height /\ ~e.lval

(* The location of an entry has the value the program means by it: no      *)
(* operation evicts, overwrites or loses the value of another entry, on    *)
(* either way through the branches (save_reg, get_reg, gv, gen_op).        *)
Holds(e) ==
    IF e.r = "jmp" THEN TRUE
    ELSE IF e.place THEN AddressOf(m, e) = e.val[1]
    ELSE /\ Word(m, e) = e.val[1]
         /\ e.t = "ll" => Word2(m, e) = e.val[2]
Held == m.wait = 0 => \A i \in 1 .. Height : Holds(m.stack[i])

(* A store goes to the object the lvalue stands for, both words of it, and *)
(* to no other, whatever vstore and inc did to its address before.         *)
Stored == m.mem = <<>>

(* The value a branch tests is that of its condition, and a function is    *)
(* the one that was named and gets the arguments it is called with, in     *)
(* every calling convention (gtst, gfunc_call).                            *)
TestsAndCallsRight == m.wrong = {}

(* While an && or a ?: is open the entries under it stay where they are:   *)
(* the ways through the branches meet with the same registers saved.       *)
Where(e) == <<e.r, e.r2, e.lval, e.c>>
SameOnAllWays ==
    [][\A i \in DOMAIN open \cap DOMAIN open' :
          open[i].kind \in {"land", "then", "else"} /\ open'[i].base = open[i].base =>
             \A j \in 1 .. open[i].base : Where(m'.stack[j]) = Where(m.stack[j])]_vars
=============================================================================
