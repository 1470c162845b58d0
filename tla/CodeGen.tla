------------------------------ MODULE CodeGen ------------------------------
(***************************************************************************)
(* The code generator of src/generic/tcc.c and i386/i386-gen.c: the value  *)
(* stack, the registers, and the operations that emit code.  Each operator *)
(* takes a state m of the generator and gives the next one.  The state     *)
(* also runs what is emitted on a symbolic machine: a register or a slot   *)
(* holds a term, and every entry of the stack carries the value the        *)
(* program means by it (val), which the code never sees.                   *)
(*                                                                         *)
(* Types are int, ll (long long), ptr and func.  Floats, structures and    *)
(* the narrow integer types are left out; a constant is never one that     *)
(* makes gen_opic choose another instruction.                              *)
(***************************************************************************)
EXTENDS Integers, SequencesExt, FiniteSetsExt, TLC

Registers == <<"eax", "ecx", "edx">>    \* the integer registers, in their order
RegisterSet == {"eax", "ecx", "edx"}
IsReg(r) == r \in RegisterSet

(* The register classes: RC_INT, and a class of its own for each register. *)
InClass(r, rc) == IsReg(r) /\ rc \in {"int", r}

(* A word is an address <<base, n, offset in words>>, a constant, a term   *)
(* that names a computed value, or what is left of something else.         *)
Junk == <<"junk", 0, 0>>
Op(op, x, y) == <<"op", op, x, y>>
Bases == {"a", "g", "t", "p", "fp", "f", "slot"}
Plus(x, n) == IF x[1] \in Bases THEN <<x[1], x[2], x[3] + n>> ELSE Op("+", x, n)
Cells == {<<"a", 0, 0>>, <<"a", 0, 1>>, <<"g", 0, 0>>, <<"g", 0, 1>>, <<"t", 0, 0>>, <<"t", 0, 1>>,
          <<"p", 0, 0>>, <<"fp", 0, 0>>}

(* What an object holds at first: p points to t, fp to the function.       *)
Content(c) ==
    IF c[1] = "p" THEN <<"t", 0, 0>> ELSE IF c[1] = "fp" THEN <<"f", 0, 0>> ELSE <<"in", c, 0>>

(* An entry of vstack: r is a register, const, local, llocal, cmp or jmp   *)
(* (inv: VT_JMPI); c is the constant, the address, or the jump chain.      *)
(* place: the entry stands for the object at the address val.              *)
SValue(t, r, lval, c, val, place) ==
    [t |-> t, r |-> r, r2 |-> "const", lval |-> lval, c |-> c, inv |-> FALSE,
     val |-> val, place |-> place]

Top(m) == Last(m.stack)
Next1(m) == m.stack[Len(m.stack) - 1]
SetTop(m, e) == [m EXCEPT !.stack[Len(m.stack)] = e]
Drop(m) == [m EXCEPT !.stack = Front(@)]
vpushv(m, e) == [m EXCEPT !.stack = Append(@, e)]
vdup(m) == vpushv(m, Top(m))

(* vswap, vrotb and vrott, and the exchanges of entries in gen_opl: the    *)
(* last Len(p) entries in the order p.                                     *)
Arrange(m, p) ==
    LET b == Len(m.stack) - Len(p)
    IN [m EXCEPT !.stack = SubSeq(@, 1, b) \o [i \in 1 .. Len(p) |-> m.stack[b + p[i]]]]
vswap(m) == Arrange(m, <<2, 1>>)
vrotb3(m) == Arrange(m, <<2, 3, 1>>)

---------------------------------------------------------------------------
(* The machine.  It runs what is emitted while it waits for no jump chain  *)
(* and there is a text section to emit to.                                 *)
Runs(m) == m.wait = 0 /\ m.text
SetReg(m, r, w) == IF Runs(m) /\ IsReg(r) THEN [m EXCEPT !.reg[r] = w] ELSE m
SetFlags(m, w) == IF Runs(m) THEN [m EXCEPT !.flags = w] ELSE m
RegWord(m, r) == IF IsReg(r) THEN m.reg[r] ELSE Junk
In(memory, a) ==
    IF a \in DOMAIN memory THEN memory[a] ELSE IF a \in Cells THEN Content(a) ELSE Junk
Read(m, a) == IF a[1] = "slot" THEN m.slots[a[2]][a[3] + 1] ELSE In(m.mem, a)

(* Where an lvalue is, and the words an entry is found to hold.            *)
AddressOf(m, e) ==
    IF IsReg(e.r) THEN m.reg[e.r] ELSE IF e.r = "llocal" THEN Read(m, e.c[1]) ELSE e.c[1]
Word(m, e) ==
    IF e.lval THEN Read(m, AddressOf(m, e))
    ELSE IF e.r = "cmp" THEN IF e.inv THEN Op("not", m.flags, Junk) ELSE m.flags
    ELSE IF e.r \in {"const", "local"} THEN e.c[1] ELSE RegWord(m, e.r)
Word2(m, e) ==
    IF e.lval THEN Read(m, Plus(AddressOf(m, e), 1))
    ELSE IF e.r = "const" THEN e.c[2] ELSE RegWord(m, e.r2)

(* The value an entry means now.                                           *)
Wanted(m, a) == In(m.want, a)
Value(m, e) ==
    IF ~e.place THEN e.val
    ELSE <<Wanted(m, e.val[1])>> \o IF e.t = "ll" THEN <<Wanted(m, Plus(e.val[1], 1))>> ELSE <<>>

Taken(e) == IF e.inv THEN <<"k", 0, 0>> ELSE <<"k", 1, 0>>
Fallen(e) == IF e.inv THEN <<"k", 1, 0>> ELSE <<"k", 0, 0>>

(* gsym: the jumps of chain t arrive here.                                 *)
gsym(m, t) == IF m.text /\ m.wait = t THEN [m EXCEPT !.wait = 0] ELSE m
gjmp(m, t) == IF Runs(m) THEN [m EXCEPT !.wait = t] ELSE m

load(m, r, e) ==
    IF e.r # "jmp" THEN SetReg(m, r, Word(m, e))
    ELSE IF m.wait = e.c[1][3] /\ m.text THEN SetReg(gsym(m, e.c[1][3]), r, Taken(e))
    ELSE SetReg(m, r, Fallen(e))

(* A store takes its address from a register or from the entry; it cannot  *)
(* load one that was saved.                                                *)
store(m, r, e) ==
    IF ~Runs(m) \/ e.r = "llocal" \/ AddressOf(m, e) \notin Cells THEN m
    ELSE [m EXCEPT !.mem = (AddressOf(m, e) :> RegWord(m, r)) @@ @]

---------------------------------------------------------------------------
(* The registers.                                                          *)

Uses(e, r) == e.r = r \/ (e.t = "ll" /\ e.r2 = r)

(* Mutant: the entries after the one that is stored keep the register.     *)
save_reg_one(m, r) ==
    LET used == {i \in DOMAIN m.stack : Uses(m.stack[i], r)}
        first == Min(used)
        p == m.stack[first]
        pair == p.t = "ll" /\ ~p.lval
        words == <<RegWord(m, p.r), IF pair THEN RegWord(m, p.r2) ELSE Junk>>
    IN IF used = {} THEN m
       ELSE [m EXCEPT !.slots = Append(@, IF Runs(m) THEN words ELSE <<Junk, Junk>>),
                      !.stack[first] = [p EXCEPT !.r = IF p.lval THEN "llocal" ELSE "local", !.lval = TRUE,
                                                 !.r2 = "const", !.c = <<<<"slot", Len(m.slots) + 1, 0>>>>]]

(* save_reg: the first entry that uses r is stored, both words of a long   *)
(* long, and it and the entries after it that use its first register are   *)
(* marked as saved.                                                        *)
SavedFrom(m, first) ==
    LET p == m.stack[first]
        pair == p.t = "ll" /\ ~p.lval
        words == <<RegWord(m, p.r), IF pair THEN RegWord(m, p.r2) ELSE Junk>>
        Saved(e) == IF ~Uses(e, p.r) THEN e
                    ELSE [e EXCEPT !.r = IF e.lval THEN "llocal" ELSE "local", !.lval = TRUE,
                                   !.r2 = "const", !.c = <<<<"slot", Len(m.slots) + 1, 0>>>>]
    IN [m EXCEPT !.slots = Append(@, IF Runs(m) THEN words ELSE <<Junk, Junk>>),
                 !.stack = SubSeq(@, 1, first - 1)
                              \o [i \in 1 .. Len(@) + 1 - first |-> Saved(m.stack[first - 1 + i])]]
save_reg(m, r) ==
    LET used == {i \in DOMAIN m.stack : Uses(m.stack[i], r)}
    IN IF used = {} THEN m ELSE SavedFrom(m, Min(used))

Busy(m, r) == \E i \in DOMAIN m.stack : r \in {m.stack[i].r, m.stack[i].r2}
Free(m, rc) == {i \in 1 .. 3 : InClass(Registers[i], rc) /\ ~Busy(m, Registers[i])}
Evictable(m, rc) == {i \in DOMAIN m.stack : InClass(m.stack[i].r, rc) \/ InClass(m.stack[i].r2, rc)}
Evict(m, e, rc) ==
    LET r == IF InClass(e.r, rc) THEN e.r ELSE e.r2 IN [m |-> save_reg(m, r), r |-> r]

(* Mutant: the search starts from the top of the stack.                    *)
get_reg_top(m, rc) ==
    IF Free(m, rc) # {} THEN [m |-> m, r |-> Registers[Min(Free(m, rc))]]
    ELSE Evict(m, m.stack[Max(Evictable(m, rc))], rc)

(* get_reg: a free register of the class, else the one found first from    *)
(* the bottom of the stack, which is saved.                                *)
get_reg(m, rc) ==
    IF Free(m, rc) # {} THEN [m |-> m, r |-> Registers[Min(Free(m, rc))]]
    ELSE Evict(m, m.stack[Min(Evictable(m, rc))], rc)

(* save_regs(n): the registers of the entries up to vtop - n are saved.    *)
save_regs(m, n) ==
    FoldLeftDomain(LAMBDA s, i : IF i <= Len(m.stack) - n /\ IsReg(s.stack[i].r)
                                 THEN save_reg(s, s.stack[i].r) ELSE s,
                   m, m.stack)

gaddrof(m) ==
    LET e == Top(m)
    IN SetTop(m, IF e.r = "llocal" THEN [e EXCEPT !.r = "local"] ELSE [e EXCEPT !.lval = FALSE])

---------------------------------------------------------------------------
(* gv for a value of one word: a register of class rc has it.              *)
gv_int(m, rc) ==
    LET Loaded(s, r) == SetTop(load(s, r, Top(s)),
                               [Top(s) EXCEPT !.r = r, !.lval = FALSE, !.val = Value(s, Top(s)), !.place = FALSE])
        With(g) == Loaded(g.m, g.r)
    IN IF InClass(Top(m).r, rc) /\ ~Top(m).lval THEN m ELSE With(get_reg(m, rc))

Const(t, words) == SValue(t, "const", FALSE, words, words, FALSE)
Four == 1       \* the address of the second word is one word on

(* What an instruction computes from its operands and the flags, and the   *)
(* flags it leaves.                                                        *)
Commutative == {"+", "*", "mull", "mulh", "addc1"}
Computed(op, x, y, flags) ==
    IF op = "+4" THEN Plus(x, Four)
    ELSE IF op \in Commutative THEN <<"op", op, {x, y}>>
    ELSE IF op = "addc2" THEN Op(op, <<"op", "+", {x, y}>>, flags) ELSE Op(op, x, y)
FlagsAfter(op, x, y) == IF op \in {"addc1", "cmp"} THEN Computed(op, x, y, Junk) ELSE Junk

Compute(m, op, r, y) ==
    LET x == RegWord(m, r)
        n == IF op = "cmp" THEN m ELSE SetReg(m, r, Computed(op, x, y, m.flags))
    IN IF op = "*" THEN n ELSE SetFlags(n, FlagsAfter(op, x, y))

IsConst(e) == e.r = "const" /\ ~e.lval

(* The first operand (2) and the one on the top (1) are loaded in order.   *)
Swapped(m, k) == IF k = 2 THEN vswap(m) ELSE m
Loads(m, order, rc1, rc2) ==
    LET Loaded(s, k) == Swapped(gv_int(Swapped(s, k), IF k = 2 THEN rc1 ELSE rc2), k)
    IN FoldLeft(Loaded, m, order)

(* gv2: a flag on the top is loaded first, and the one that was is loaded  *)
(* once more, if it was evicted.  The generator asks for (int, int),       *)
(* (int, ecx) and (eax, ecx), so that rc1 <= rc2 always, and for two ints. *)
gv2(m, rc1, rc2) ==
    Loads(m, IF Top(m).r \in {"cmp", "jmp"} THEN <<1, 2, 1>> ELSE <<2, 1, 2>>, rc1, rc2)

(* A constant on the top stays one.                                        *)
gv2_const(m, rc1, rc2) ==
    Loads(m, CASE IsConst(Top(m)) -> <<2>>
               [] Top(m).r \in {"cmp", "jmp"} -> <<1, 2, 1>>
               [] OTHER -> <<2, 1, 2>>, rc1, rc2)

Compared(m, op) == IF op = "cmp" THEN SetTop(m, [Top(m) EXCEPT !.r = "cmp", !.inv = FALSE]) ELSE m

(* The instruction, on the two that are on the top.                        *)
Operate(m, op) == Compared(Drop(Compute(m, op, Next1(m).r, Word(m, Top(m)))), op)

(* gen_op8: op on two ints, the second in a register or a constant.        *)
gen_op8(m, op) == Operate(gv2_const(m, "int", "int"), op)

Lvalue(m) == SetTop(m, [Top(m) EXCEPT !.lval = TRUE])

(* The + 4 of the address of a long long: a symbol takes it as it is.      *)
add4(m) ==
    IF Top(m).r = "const" THEN SetTop(m, [Top(m) EXCEPT !.c = <<Plus(@[1], Four)>>])
    ELSE gen_op8(vpushv(m, Const("int", <<Junk>>)), "+4")

(* The first word of a long long is loaded into r, and an int that has the *)
(* second is pushed.                                                       *)
SplitLoad(m, r) ==
    LET e == Top(m)
        v == SetTop(load(m, r, e), [e EXCEPT !.r = r, !.lval = FALSE])
        Twice(s) == vdup(load(s, r, Top(s)))
        Address(s) == LET k == Len(s.stack) - 1
                      IN [s EXCEPT !.stack[k].r = r, !.stack[k].lval = FALSE,
                                   !.stack[k + 1].t = "int", !.stack[k + 1].place = FALSE]
    IN CASE IsConst(e) -> vpushv(v, Const("int", <<e.c[2]>>))
         [] e.lval -> Lvalue(add4(gaddrof(Address(Twice(save_regs(m, 1))))))
         [] OTHER -> vpushv(v, [e EXCEPT !.r = e.r2])

(* gv for a long long: a pair of registers, for RC_IRET eax and edx.       *)
gv_ll(m, rc) ==
    LET e == Top(m)
        Both(s, r, r2) == SetTop(s, [Top(s) EXCEPT !.r = r, !.r2 = r2, !.lval = FALSE,
                                                   !.val = Value(m, e), !.place = FALSE])
        Second(h, r) == Both(Drop(load(h.m, h.r, Top(h.m))), r, h.r)
        First(g) == Second(get_reg(SplitLoad(g.m, g.r), IF rc = "eax" THEN "edx" ELSE "int"), g.r)
    IN IF InClass(e.r, rc) /\ InClass(e.r2, rc) /\ ~e.lval THEN m ELSE First(get_reg(m, rc))

gv(m, rc) == IF Top(m).t = "ll" THEN gv_ll(m, rc) ELSE gv_int(m, rc)

(* Mutant: a flag stays in the flags under what is pushed.                 *)
vsetc_flag(m, e) == vpushv(m, e)

(* vsetc: a flag or a jump on the top, an int, is made a value before a    *)
(* push.                                                                   *)
vsetc(m, e) ==
    vpushv(IF m.stack # <<>> /\ Top(m).r \in {"cmp", "jmp"} THEN gv_int(m, "int") ELSE m, e)

vpop(m) == IF Top(m).r = "jmp" THEN Drop(gsym(m, Top(m).c[1][3])) ELSE Drop(m)

(* lexpand and lbuild: a long long as two ints and back.                   *)
lexpand(m) ==
    LET Expand(g) == vpushv(SetTop(g, [Top(g) EXCEPT !.t = "int", !.r2 = "const"]),
                            [Top(g) EXCEPT !.t = "int", !.r = Top(g).r2, !.r2 = "const"])
    IN Expand(gv_ll(m, "int"))
lbuild(m) ==
    LET Build(g) == SetTop(Drop(g), [Next1(g) EXCEPT !.r2 = Top(g).r, !.t = "ll"])
    IN Build(gv2(m, "int", "int"))

(* gv_dup: the value of the top in other registers above it.               *)
dup_int(m) ==
    LET Copied(s, r) == vpushv(SetReg(s, r, RegWord(s, Top(s).r)), [Top(s) EXCEPT !.r = r])
        Dup(h) == Copied(h.m, h.r)
    IN Dup(get_reg(gv_int(m, "int"), "int"))
gv_dup(m) ==
    LET v == Value(m, Top(m))
        HHL(s) == vrotb3(vswap(dup_int(lexpand(s))))
        HLpair(s) == lbuild(Arrange(dup_int(s), <<2, 3, 4, 1>>))
        Pairs(s) == vswap(lbuild(vswap(vrotb3(vrotb3(s)))))
        Both(s) == LET k == Len(s.stack) IN [s EXCEPT !.stack[k].val = v, !.stack[k - 1].val = v]
    IN IF Top(m).t = "ll" THEN Both(Pairs(HLpair(HHL(m)))) ELSE dup_int(m)

---------------------------------------------------------------------------
(* gen_opi: op on two ints.                                                *)
gen_shift(m, op) == Operate(gv2_const(m, "int", "ecx"), op)
gen_mul(m) == Operate(gv2(m, "int", "int"), "*")

(* The first operand is in eax, the second in ecx; edx is saved.           *)
Divide(m, op) ==
    LET x == RegWord(m, Next1(m).r)
        y == RegWord(m, Top(m).r)
        low == IF op = "umull" THEN "mull" ELSE "/"
        high == IF op = "umull" THEN "mulh" ELSE "%"
        result == [Next1(m) EXCEPT !.r = IF op = "%" THEN "edx" ELSE "eax",
                                   !.r2 = IF op = "umull" THEN "edx" ELSE @]
    IN SetTop(Drop(SetFlags(SetReg(SetReg(m, "eax", Computed(low, x, y, Junk)),
                                   "edx", Computed(high, x, y, Junk)), Junk)), result)
gen_div(m, op) ==
    LET Saved(g) == vpushv(save_reg(Drop(g), "edx"), Top(g))
    IN Divide(Saved(gv2(m, "eax", "ecx")), op)

gen_opi(m, op) ==
    CASE op = "*" -> gen_mul(m)
      [] op \in {"<<", "sar"} -> gen_shift(m, op)
      [] op \in {"/", "%", "umull"} -> gen_div(m, op)
      [] OTHER -> gen_op8(m, op)

---------------------------------------------------------------------------
(* gtst: the top is popped, and the jump of chain t is taken if b.         *)
Tested(m, w, v) == IF Runs(m) /\ w # v THEN [m EXCEPT !.wrong = @ \union {"test"}] ELSE m
Chain(e) == e.c[1][3]
gtst(m, inv, t, b) ==
    LET e == Top(m)
        ready == e.r = "cmp" \/ IsConst(e)
        Popped(s) == Drop(Tested(s, Word(s, Top(s)), Value(m, e)[1]))
        Flags(s) == IF ready THEN s ELSE SetFlags(s, Junk)
        Jumps(s) == IF b THEN gjmp(s, t) ELSE s
    IN CASE e.r # "jmp" -> Jumps(Flags(Popped(IF ready THEN m ELSE gv_int(m, "int"))))
         [] e.r = "jmp" /\ e.inv # inv -> Drop(gsym(gjmp(m, t), Chain(e)))
         [] OTHER -> IF m.wait = Chain(e) THEN [Drop(m) EXCEPT !.wait = t] ELSE Drop(m)

Jump(inv, t, m) ==
    LET e == [SValue("int", "jmp", FALSE, <<<<"chain", 0, t>>>>, <<Junk>>, FALSE) EXCEPT !.inv = inv]
    IN [e EXCEPT !.val = <<IF m.wait = t THEN Taken(e) ELSE Fallen(e)>>]
PushJump(m, inv, t) == vsetc(m, Jump(inv, t, m))

---------------------------------------------------------------------------
(* gfunc_call: the arguments are pushed from the last to the first, the    *)
(* registers are saved, and the first words of a fastcall are popped into  *)
(* theirs before the function is called.                                   *)
FastRegs(conv) ==
    CASE conv = "regparm" -> <<"eax", "edx", "ecx">>
      [] conv = "fastcall" -> <<"ecx", "edx">>
      [] OTHER -> <<>>

(* Mutant: the words of a long long are pushed in the wrong order.         *)
PushArg_low_first(m) ==
    LET Words(e, s) == (IF e.t = "ll" THEN <<RegWord(s, e.r2)>> ELSE <<>>) \o <<RegWord(s, e.r)>>
        Pushed(s) == IF Runs(s) THEN [s EXCEPT !.args = Words(Top(s), s) \o @] ELSE s
    IN Drop(Pushed(gv(m, "int")))

PushArg(m) ==
    LET Words(e, s) == <<RegWord(s, e.r)>> \o IF e.t = "ll" THEN <<RegWord(s, e.r2)>> ELSE <<>>
        Pushed(s) == IF Runs(s) THEN [s EXCEPT !.args = Words(Top(s), s) \o @] ELSE s
    IN Drop(Pushed(gv(m, "int")))

gfunc_call(m, n, conv, t) ==
    LET k == Len(m.stack) - n
        meant == FlattenSeq([i \in 1 .. n |-> Value(m, m.stack[k + i])])
        fast == SubSeq(FastRegs(conv), 1, Min({Len(FastRegs(conv)), Len(meant)}))
        pushed == save_regs(FoldLeftDomain(LAMBDA s, i : PushArg(s), [m EXCEPT !.args = <<>>],
                                           [i \in 1 .. n |-> i]), 0)
        popped == FoldLeftDomain(LAMBDA s, i : SetReg(s, fast[i], IF Runs(s) THEN s.args[i] ELSE Junk),
                                 pushed, fast)
        Loaded(s) == IF IsConst(Top(s)) THEN s ELSE gv_int(s, "int")
        Got(s) == [i \in DOMAIN s.args |-> IF i <= Len(fast) THEN s.reg[fast[i]] ELSE s.args[i]]
        Wrong(s) == (IF Got(s) # meant THEN {"argument"} ELSE {})
                    \union IF Word(s, Top(s)) # Value(m, m.stack[k])[1] THEN {"function"} ELSE {}
        Called(s) == IF ~Runs(s) THEN s
                     ELSE [s EXCEPT !.wrong = @ \union Wrong(s), !.args = <<>>, !.flags = Junk,
                                    !.reg = [eax |-> <<"ret", 0, 0>>, ecx |-> Junk, edx |-> <<"ret", 1, 0>>]]
        e == SValue(t, "eax", FALSE, <<Junk>>, <<<<"ret", 0, 0>>>>, FALSE)
    IN vsetc(Drop(Called(Loaded(popped))),
             IF t = "ll" THEN [e EXCEPT !.r2 = "edx", !.val = @ \o <<<<"ret", 1, 0>>>>] ELSE e)

---------------------------------------------------------------------------
(* gen_opl: op on two long longs.                                          *)
Expanded(m) == lexpand(vrotb3(lexpand(vswap(m))))      \* L1 H1 L2 H2

(* The words in the order H1 H2 L1 L2: the product of the low ones, and    *)
(* the sum of its high word and the two mixed products.                    *)
mul_words(m) ==
    LET LowTwice == vpushv(vpushv(m, Next1(m)), Top(m))
        b == lexpand(gen_div(LowTwice, "umull"))
        c == gen_mul(Arrange(b, <<5, 6, 1, 4, 3, 2>>))          \* ML MH H1 L2 (L1 H2)
        d == gen_mul(vrotb3(vrotb3(c)))
    IN gen_op8(gen_op8(d, "+"), "+")
add_words(m) == gen_op8(vrotb3(vrotb3(gen_op8(m, "addc1"))), "addc2")

gen_opl_words(m, op) ==
    LET Done(s) == IF op = "*" THEN mul_words(s) ELSE add_words(s)
    IN lbuild(Done(Arrange(Expanded(m), <<2, 4, 1, 3>>)))

gen_opl_div(m) ==
    LET f == SValue("func", "const", FALSE, <<<<"f", 0, 0>>>>, <<<<"f", 0, 0>>>>, FALSE)
    IN gfunc_call(Arrange(vsetc(m, f), <<3, 1, 2>>), 2, "cdecl", "ll")

(* The comparison: the high words, then the low ones; the jumps are taken  *)
(* as the choice says.                                                     *)
gen_opl_cmp(m, a, b, choice) ==
    LET x == Value(m, Next1(m))
        y == Value(m, Top(m))
        MeantOf(s, i) == SetTop(s, [Top(s) EXCEPT !.val = <<Op("cmp", x[i], y[i])>>, !.place = FALSE])
        high == MeantOf(gen_op8(Arrange(Expanded(m), <<1, 3, 2, 4>>), "cmp"), 2)
        HighTrue(s) == IF choice = "high true" THEN gjmp(s, b) ELSE s
        low == MeantOf(gen_op8(HighTrue(gtst(high, TRUE, a, choice = "high false")), "cmp"), 1)
    IN PushJump(gsym(gtst(low, TRUE, a, choice = "low false"), b), TRUE, a)

---------------------------------------------------------------------------
(* gen_op: operands of the same type, with the value the result means.     *)
Result(t, op, x, y) ==
    IF t # "ll" THEN <<Computed(op, x[1], y[1], Junk)>>
    ELSE CASE op = "+" -> <<Computed("addc1", x[1], y[1], Junk),
                            Computed("addc2", x[2], y[2], Computed("addc1", x[1], y[1], Junk))>>
           [] op = "*" ->
                <<Computed("mull", x[1], y[1], Junk),
                  Computed("+", Computed("mulh", x[1], y[1], Junk),
                           Computed("+", Computed("*", x[1], y[2], Junk),
                                    Computed("*", x[2], y[1], Junk), Junk), Junk)>>
           [] OTHER -> <<<<"ret", 0, 0>>, <<"ret", 1, 0>>>>

gen_op(m, op) ==
    LET t == Top(m).t
        val == Result(t, op, Value(m, Next1(m)), Value(m, Top(m)))
        folds == IsConst(Next1(m)) /\ IsConst(Top(m))
        s == IF IsConst(Next1(m)) /\ op \in {"+", "*"} THEN vswap(m) ELSE m
        Typed(n) == SetTop(n, [Top(n) EXCEPT !.val = val, !.place = FALSE, !.t = t])
    IN IF folds THEN vpushv(Drop(Drop(m)), Const(t, val))
       ELSE Typed(IF t # "ll" THEN gen_opi(s, op)
                  ELSE IF op \in {"+", "*"} THEN gen_opl_words(s, op) ELSE gen_opl_div(s))

(* vstore: the top is stored in the lvalue under it and stays as the value *)
(* of the assignment.                                                      *)
(* Mutant: the address that was saved is not loaded again.                 *)
Reloaded_never(m) == m
Reloaded(m) ==
    LET k == Len(m.stack) - 1
        Loaded(s, r) == [SetReg(s, r, Read(s, s.stack[k].c[1])) EXCEPT !.stack[k].r = r]
        With(h) == Loaded(h.m, h.r)
    IN IF m.stack[k].r # "llocal" THEN m ELSE With(get_reg(m, "int"))

SecondWord(m) ==
    LET AsInt(s) == SetTop(s, [Top(s) EXCEPT !.t = "int", !.place = FALSE])
        Store(s) == store(s, Top(s).r2, Next1(s))
    IN Store(vswap(Lvalue(add4(gaddrof(AsInt(vswap(m)))))))

Meant(m, e, val) ==
    LET second == IF e.t = "ll" THEN Plus(e.val[1], 1) :> val[2] ELSE <<>>
    IN IF Runs(m) THEN [m EXCEPT !.want = (e.val[1] :> val[1]) @@ second @@ @] ELSE m
vstore(m) ==
    LET First(s, r) == store(s, r, Next1(s))
        Second(s) == IF Next1(m).t = "ll" THEN SecondWord(s) ELSE s
        Stored(g) == Second(First(Reloaded(g), Top(g).r))
    IN Drop(vswap(Meant(Stored(gv(m, "int")), Next1(m), Value(m, Top(m)))))

inc(m, post) ==
    LET one == Const(Top(m).t, IF Top(m).t = "ll" THEN <<<<"k", 1, 0>>, <<"k", 0, 0>>>> ELSE <<<<"k", 1, 0>>>>)
        d == IF post THEN vrotb3(vrotb3(gv_dup(vdup(m)))) ELSE vdup(m)
        Popped(s) == IF post THEN vpop(s) ELSE s
    IN Popped(vstore(gen_op(vpushv(d, one), "+")))
=============================================================================
