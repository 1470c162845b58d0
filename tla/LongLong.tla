------------------------------ MODULE LongLong ------------------------------
(***************************************************************************)
(* Arithmetic on long long in words: the code that gen_opl of              *)
(* src/generic/tcc.c generates, the functions of src/generic/libtcc1.c it  *)
(* calls, and the constants and shifts that gen_opic computes instead.  A  *)
(* word has W bits (32 in the code), a long long two words; both are       *)
(* numbers from 0.  All operands are tried.  | of words that have no bit   *)
(* in common is +.                                                         *)
(***************************************************************************)
EXTENDS Integers, FiniteSetsExt

CONSTANTS
    W,          \* the bits of a word
    Avoided     \* "unsigned": constants of unsigned int with the highest bit set

ASSUME LongLongAssumption == W \in Nat /\ W > 1 /\ Avoided \subseteq {"unsigned"}

VARIABLES
    x, y,       \* the operands
    results     \* what every operation gives

vars == <<x, y, results>>

B == 2^W
Word == 0 .. B - 1
LongLong == 0 .. B * B - 1
Lo(a) == a % B
Hi(a) == a \div B
lbuild(low, high) == (low % B) + B * (high % B)

Signed(a, m) == IF a < m \div 2 THEN a ELSE a - m
Bit(b) == IF b THEN 1 ELSE 0

Comparisons == {"lt", "le", "gt", "ge", "ult", "ule", "ugt", "uge", "eq", "ne"}
Divisions == {"/", "%", "udiv", "umod"}
Shifts == {"shl", "shr", "sar"}
Ops == {"+", "-", "*", "&", "|", "^"} \union Divisions \union Shifts \union Comparisons

Trap == -1      \* the processor's division error; no number of words

---------------------------------------------------------------------------
(* What C says of an operation on numbers below m.                         *)
Cmp(op, a, b, m) ==
    LET s == Signed(a, m)
        t == Signed(b, m)
    IN CASE op = "lt" -> s < t [] op = "le" -> s <= t [] op = "gt" -> s > t [] op = "ge" -> s >= t
         [] op = "ult" -> a < b [] op = "ule" -> a <= b [] op = "ugt" -> a > b [] op = "uge" -> a >= b
         [] op = "eq" -> a = b [] OTHER -> a # b

(* The quotient goes towards zero, the remainder has the dividend's sign.  *)
Abs(i) == IF i < 0 THEN -i ELSE i
Quotient(s, t) == LET q == Abs(s) \div Abs(t) IN IF (s < 0) # (t < 0) THEN -q ELSE q

And(a, b, m) == SumSet({p \in {2^i : i \in 0 .. 2 * W} : p < m /\ (a \div p) % 2 = 1 /\ (b \div p) % 2 = 1})

Meant(op, a, b, m) ==
    LET s == Signed(a, m)
        t == Signed(b, m)
        v == CASE op = "+" -> a + b
               [] op = "-" -> a - b
               [] op = "*" -> a * t
               [] op = "&" -> And(a, b, m)
               [] op = "|" -> a + b - And(a, b, m)
               [] op = "^" -> a + b - 2 * And(a, b, m)
               [] op = "/" -> Quotient(s, t)
               [] op = "%" -> s - t * Quotient(s, t)
               [] op = "udiv" -> a \div b
               [] op = "umod" -> a % b
               [] op = "shl" -> a * 2^b
               [] op = "shr" -> a \div 2^b
               [] op = "sar" -> s \div 2^b
               [] OTHER -> Bit(Cmp(op, a, b, m))
    IN IF op \in Divisions /\ b = 0 THEN Trap ELSE v % m

---------------------------------------------------------------------------
(* libtcc1.c.                                                              *)

(* divl: a trap unless the quotient is a word.                             *)
udiv_qrnnd(n1, n0, d) ==
    IF n1 >= d THEN [q |-> Trap, r |-> Trap]
    ELSE [q |-> lbuild(n0, n1) \div d, r |-> lbuild(n0, n1) % d]

count_leading_zeros(a) == W - 1 - Max({i \in 0 .. W - 1 : 2^i <= a})

Divided(q, r) == [q |-> q, r |-> r]
Trapped == Divided(Trap, Trap)

(* The divisor is a word.                                                  *)
udivmod_word(n1, n0, d0) ==
    IF d0 > n1 THEN LET u == udiv_qrnnd(n1, n0, d0) IN Divided(u.q, u.r)
    ELSE IF d0 = 0 THEN Trapped
    ELSE LET u == udiv_qrnnd(0, n1, d0)
             v == udiv_qrnnd(u.r, n0, d0)
         IN Divided(lbuild(v.q, u.q), v.r)

(* Mutant: an estimate that is too high stays.                             *)
udivmod_long_high(n1, n0, d1, d0) ==
    LET bm == count_leading_zeros(d1)
        b == W - bm
        e1 == ((d1 * 2^bm) % B) + (d0 \div 2^b)
        e0 == (d0 * 2^bm) % B
        u == udiv_qrnnd(n1 \div 2^b, ((n1 * 2^bm) % B) + (n0 \div 2^b), e1)
        m == u.q * e0
        r == (lbuild((n0 * 2^bm) % B, u.r) - m) % (B * B)
    IN IF d1 > n1 THEN Divided(0, lbuild(n0, n1))
       ELSE IF bm = 0
       THEN LET q == Bit(n1 > d1 \/ n0 >= d0)
            IN Divided(q, lbuild(n0, n1) - q * lbuild(d0, d1))
       ELSE Divided(u.q, r \div 2^bm)

(* The divisor is longer: the quotient is estimated from the first word of *)
(* the divisor, shifted until it is full, and is one too high if it times  *)
(* the divisor is more than there is.                                      *)
udivmod_long(n1, n0, d1, d0) ==
    LET bm == count_leading_zeros(d1)
        b == W - bm
        e1 == ((d1 * 2^bm) % B) + (d0 \div 2^b)
        e0 == (d0 * 2^bm) % B
        u == udiv_qrnnd(n1 \div 2^b, ((n1 * 2^bm) % B) + (n0 \div 2^b), e1)
        m == u.q * e0                                  \* umul_ppmm
        n == lbuild((n0 * 2^bm) % B, u.r)
        high == Hi(m) > u.r \/ (Hi(m) = u.r /\ Lo(m) > Lo(n))
        k == (IF high THEN m - lbuild(e0, e1) ELSE m) % (B * B)
        r == (n - k) % (B * B)
    IN IF d1 > n1 THEN Divided(0, lbuild(n0, n1))
       ELSE IF bm = 0
       THEN LET q == Bit(n1 > d1 \/ n0 >= d0)
            IN Divided(q, lbuild(n0, n1) - q * lbuild(d0, d1))
       ELSE Divided((u.q - Bit(high)) % B, ((Hi(r) * 2^b) % B) + (Lo(r) \div 2^bm) + B * (Hi(r) \div 2^bm))

__udivmoddi4(n, d) ==
    IF Hi(d) = 0 THEN udivmod_word(Hi(n), Lo(n), Lo(d))
    ELSE udivmod_long(Hi(n), Lo(n), Hi(d), Lo(d))

Negative(a) == Hi(a) >= B \div 2
__negdi2(a) == IF a = Trap THEN Trap ELSE (-a) % (B * B)
Magnitude(a) == IF Negative(a) THEN __negdi2(a) ELSE a

__divdi3(u, v) ==
    LET w == __udivmoddi4(Magnitude(u), Magnitude(v)).q
    IN IF Negative(u) # Negative(v) THEN __negdi2(w) ELSE w
__moddi3(u, v) ==
    LET w == __udivmoddi4(Magnitude(u), Magnitude(v)).r
    IN IF Negative(u) THEN __negdi2(w) ELSE w

Shl(a, c) == (a * 2^c) % B
Shr(a, c) == a \div 2^c
Sar(a, c) == (Signed(a, B) \div 2^c) % B

__sardi3(a, c) ==
    IF c >= W THEN lbuild(Sar(Hi(a), c - W), Sar(Hi(a), W - 1))
    ELSE IF c = 0 THEN a
    ELSE lbuild(Shr(Lo(a), c) + Shl(Hi(a), W - c), Sar(Hi(a), c))
__shrdi3(a, c) ==
    IF c >= W THEN lbuild(Shr(Hi(a), c - W), 0)
    ELSE IF c = 0 THEN a
    ELSE lbuild(Shr(Lo(a), c) + Shl(Hi(a), W - c), Shr(Hi(a), c))
__shldi3(a, c) ==
    IF c >= W THEN lbuild(0, Shl(Lo(a), c - W))
    ELSE IF c = 0 THEN a
    ELSE lbuild(Shl(Lo(a), c), Shl(Hi(a), c) + Shr(Lo(a), W - c))

---------------------------------------------------------------------------
(* gen_opl.                                                                *)
Shift(op, a, c) == CASE op = "shl" -> Shl(a, c) [] op = "shr" -> Shr(a, c) [] OTHER -> Sar(a, c)

(* A shift by a constant.  a is the word that bits leave for word b.       *)
gen_shift(op, v, c) ==
    LET a == IF op = "shl" THEN Lo(v) ELSE Hi(v)
        b == IF op = "shl" THEN Hi(v) ELSE Lo(v)
        back == IF op = "shl" THEN Shr(a, W - c) ELSE Shl(a, W - c)
        long == Shift(op, a, c - W)
        a2 == IF c < W THEN Shift(op, a, c) ELSE IF op = "sar" THEN Sar(long, W - 1) ELSE 0
        b2 == IF c < W THEN (IF op = "shl" THEN Shl(b, c) ELSE Shr(b, c)) + back ELSE long
    IN IF op = "shl" THEN lbuild(a2, b2) ELSE lbuild(b2, a2)

OrEqual(op) ==
    CASE op = "lt" -> "le" [] op = "gt" -> "ge" [] op = "ult" -> "ule" [] op = "ugt" -> "uge" [] OTHER -> op
Unsigned(op) ==
    CASE op = "lt" -> "ult" [] op = "le" -> "ule" [] op = "gt" -> "ugt" [] op = "ge" -> "uge" [] OTHER -> op

(* Mutant: the low words are compared as the high ones are.                *)
gen_compare_signed(op, a, b) ==
    LET high == Cmp(OrEqual(op), Hi(a), Hi(b), B)
    IN IF op # "ne" /\ ~high THEN FALSE
       ELSE (op # "eq" /\ Hi(a) # Hi(b)) \/ Cmp(op, Lo(a), Lo(b), B)

(* The high words decide if they differ, by jumps: to false, then to true. *)
gen_compare(op, a, b) ==
    LET high == Cmp(OrEqual(op), Hi(a), Hi(b), B)
    IN IF op # "ne" /\ ~high THEN FALSE
       ELSE (op # "eq" /\ Hi(a) # Hi(b)) \/ Cmp(Unsigned(op), Lo(a), Lo(b), B)

(* constant: b is a constant.                                              *)
gen_opl(op, a, b, constant) ==
    LET low == Lo(a) + IF op = "+" THEN Lo(b) ELSE -Lo(b)
        umull == Lo(a) * Lo(b)
    IN CASE op = "/" -> __divdi3(a, b)
         [] op = "%" -> __moddi3(a, b)
         [] op = "udiv" -> __udivmoddi4(a, b).q
         [] op = "umod" -> __udivmoddi4(a, b).r
         [] op = "+" -> lbuild(low, Hi(a) + Hi(b) + Bit(low >= B))
         [] op = "-" -> lbuild(low, Hi(a) - Hi(b) - Bit(low < 0))
         [] op = "*" -> lbuild(Lo(umull), Hi(umull) + Hi(b) * Lo(a) + Hi(a) * Lo(b))
         [] op \in {"&", "|", "^"} -> lbuild(Meant(op, Lo(a), Lo(b), B), Meant(op, Hi(a), Hi(b), B))
         [] op \in Shifts /\ constant -> gen_shift(op, a, b)
         [] op = "sar" -> __sardi3(a, b)
         [] op = "shr" -> __shrdi3(a, b)
         [] op = "shl" -> __shldi3(a, b)
         [] OTHER -> Bit(gen_compare(op, a, b))

(* General case: the processor computes on ints what C says.               *)
general(op, a, b, constant, m) == IF m = B THEN Meant(op, a, b, B) ELSE gen_opl(op, a, b, constant)

---------------------------------------------------------------------------
(* gen_opic.  An int constant is extended by its sign, whatever its type;  *)
(* the result of one is the low word.                                      *)
Extended(a, m) == Signed(a, m) % (B * B)

Folded(op, a, b, m) ==
    LET v == Meant(op, Extended(a, m), IF op \in Shifts THEN b ELSE Extended(b, m), B * B)
    IN IF v = Trap THEN Trap ELSE v % m

Log2(v) == CHOOSE n \in 0 .. 2 * W : 2^n = v
PowerOf2(v) == v \in {2^i : i \in 0 .. 2 * W - 2}
AsShift(op) == IF op = "*" THEN "shl" ELSE "shr"

(* Mutant: a signed division becomes a shift as well.                      *)
gen_opic_sar(op, a, b, ca, cb, m) ==
    LET swapped == ca /\ op \in {"+", "*", "&", "|", "^"}
        c == IF swapped THEN a ELSE b
        v == IF swapped THEN b ELSE a
        constant == cb \/ swapped
        l2 == Extended(c, m)
    IN IF ca /\ cb THEN Folded(op, a, b, m)
       ELSE IF constant /\ op \in {"*", "udiv", "/"} /\ PowerOf2(l2)
       THEN general(IF op = "/" THEN "sar" ELSE AsShift(op), v, Log2(l2), TRUE, m)
       ELSE general(op, v, c, constant, m)

(* ca, cb: the operands that are constants.  A commutative operator has    *)
(* its constant put second; l2 is its value as a long long.                *)
gen_opic(op, a, b, ca, cb, m) ==
    LET swapped == ca /\ op \in {"+", "*", "&", "|", "^"}
        c == IF swapped THEN a ELSE b
        v == IF swapped THEN b ELSE a
        constant == cb \/ swapped
        l2 == Extended(c, m)
        nop == \/ op \in {"*", "/", "udiv"} /\ l2 = 1
               \/ op \in {"+", "-", "|", "^"} \union Shifts /\ l2 = 0
               \/ op = "&" /\ l2 = B * B - 1
    IN IF ca /\ cb /\ ~(op \in Divisions /\ b = 0) THEN Folded(op, a, b, m)
       ELSE IF constant /\ nop THEN v
       ELSE IF constant /\ op \in {"*", "udiv"} /\ PowerOf2(l2)
       THEN general(AsShift(op), v, Log2(l2), TRUE, m)
       ELSE general(op, v, c, constant, m)

---------------------------------------------------------------------------
(* What C leaves open: a shift by the width or more, and the quotient that *)
(* is no long long (or int).                                               *)
Open(op, a, b, m) ==
    \/ op \in Shifts /\ b >= IF m = B THEN W ELSE 2 * W
    \/ op \in {"/", "%"} /\ a = m \div 2 /\ b = m - 1

OddConstant(op, a, b, m) ==
    "unsigned" \in Avoided /\ m = B /\ op \in {"udiv", "umod", "shr"} /\ (a >= B \div 2 \/ b >= B \div 2)

Widths(a, b) == IF a \in Word /\ b \in Word THEN {B, B * B} ELSE {B * B}
Cases(a, b) ==
    {c \in [op : Ops, m : Widths(a, b), ca : BOOLEAN, cb : BOOLEAN] :
        ~Open(c.op, a, b, c.m) /\ ~(c.ca /\ c.cb /\ OddConstant(c.op, a, b, c.m))}

Init == x \in LongLong /\ y \in LongLong /\ results = <<>>

gen_op ==
    /\ results = <<>>
    /\ results' = [c \in Cases(x, y) |-> gen_opic(c.op, x, y, c.ca, c.cb, c.m)]
    /\ UNCHANGED <<x, y>>

Next == gen_op

Spec == Init /\ [][Next]_vars

---------------------------------------------------------------------------
(* The code for long longs in variables gives what C says, for all         *)
(* operands and operations: carries and borrows between the words, the     *)
(* estimate of the quotient and its correction, the signs of quotient and  *)
(* remainder, and comparisons whose high words are equal; a division never *)
(* traps but by 0 (gen_opl, libtcc1.c).                                    *)
Computes ==
    \A c \in DOMAIN results :
        ~c.ca /\ ~c.cb => results[c] = Meant(c.op, x, y, c.m)

(* A constant operand changes nothing: what is computed while compiling,   *)
(* the shifts that are generated for multiplications and divisions, and    *)
(* the operations that are left out, give what the code for variables      *)
(* gives (gen_opic).                                                       *)
SameWhenConstant ==
    \A c \in DOMAIN results :
        results[c] = results[[c EXCEPT !.ca = FALSE, !.cb = FALSE]]
=============================================================================
