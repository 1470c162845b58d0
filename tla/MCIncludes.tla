----------------------------- MODULE MCIncludes -----------------------------
(***************************************************************************)
(* Includes for TLC: a source that includes the header "a" twice, and, for *)
(* every choice of up to MaxLines lines of "a", a header "b" that is       *)
(* guarded, or not.                                                        *)
(***************************************************************************)
EXTENDS EveryLine

CONSTANTS A, B, MaxLines

Simple(d) == [d |-> d]
On(d, m) == [d |-> d, m |-> m]
Inc(c, f) == [d |-> "include", c |-> c, name |-> f]

LinesOfA == {Simple("text"), Simple("else"), Simple("endif"),
             On("define", A), On("ifndef", A), On("ifdef", B), On("elif", B),
             On("undef", B), Inc("quote", "b"), Inc("angle", "a")}
ContentsOfA == UNION {[1 .. n -> LinesOfA] : n \in 0 .. MaxLines}
ContentsOfB == {<<On("ifndef", B), On("define", B), Simple("text"), Simple("endif")>>, <<>>}
ContentsOfMain == {<<On("ifndef", B), Inc("quote", "a"), Inc("quote", "a"), Simple("endif")>>,
                   <<On("define", A), Inc("angle", "a"), Inc("angle", "a"), Simple("text")>>}

MCSources == {[f \in {"main", "a", "b"} |->
                  IF f = "main" THEN m ELSE IF f = "a" THEN a ELSE b] :
                  m \in ContentsOfMain, a \in ContentsOfA, b \in ContentsOfB}
Enough == {60}
=============================================================================
