---------------------------- MODULE MCJumpChain ----------------------------
EXTENDS JumpChain

MCOperands == {"x", "y", "z"}

X == [op |-> "operand", x |-> "x"]
Y == [op |-> "cmp", x |-> "y"]
Z == [op |-> "operand", x |-> "z"]
One == [op |-> "const", x |-> TRUE]
Zero == [op |-> "const", x |-> FALSE]
And(es) == [op |-> "and", es |-> es]
Or(es) == [op |-> "or", es |-> es]
Not(e) == [op |-> "not", es |-> <<e>>]

MCConditions == {X, And(<<X, And(<<Y, Z>>)>>)}

(* Conditions of operands and constants with one operator, or two; and     *)
(* with three operands of && or ||.                                        *)
MCLeaves == {X, Y, Z, One, Zero}
Built(S) == {Not(e) : e \in S} \union {And(<<e, f>>) : e, f \in S} \union {Or(<<e, f>>) : e, f \in S}
MCTests ==
    MCLeaves \union Built(MCLeaves \union Built({X, Y, One, Zero}))
    \union {And(<<e, f, g>>) : e, f, g \in {X, Y, Or(<<Y, Z>>), And(<<X, Y>>), Not(Z)}}
    \union {Or(<<e, f, g>>) : e, f, g \in {X, Y, Or(<<Y, Z>>), And(<<X, Y>>), Not(Z)}}
=============================================================================
