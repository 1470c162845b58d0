---------------------------- MODULE MCTokenStream ----------------------------
(***************************************************************************)
(* The programs of the runs, and what they mean: the expansion that the C  *)
(* standard describes, where every token carries the macros that it must   *)
(* not be replaced by.                                                     *)
(***************************************************************************)
EXTENDS TokenStream, FiniteSets

MCIdents == {"f", "g", "h", "a", "b", "x", "fa", "af", "ga", "ag", "aa"}

Hidden(t, hs) == [t |-> t, hs |-> hs]
Plain(ts) == [i \in DOMAIN ts |-> ts[i].t]
Text(s) == [i \in DOMAIN s |-> Hidden(s[i], {})]
Bad == Text(<<"error">>)        \* in the programs that are left out

(* The ) of a call whose ( is the second token, 0 if there is none.        *)
Close(ts) ==
    LET level[i \in 1 .. Len(ts)] ==
            IF i = 1 THEN 0
            ELSE level[i - 1] + CASE ts[i].t = "(" -> 1 [] ts[i].t = ")" -> -1 [] OTHER -> 0
    IN SelectInSeq([i \in DOMAIN ts |-> i > 1 /\ level[i] = 0], LAMBDA b : b)

(* The arguments of m between ( and ).                                     *)
Actuals(ts, m) ==
    LET Step(r, h) ==
            LET level == r.level + CASE h.t = "(" -> 1 [] h.t = ")" -> -1 [] OTHER -> 0
                new == h.t = "," /\ r.level = 0 /\ ~(m.va /\ Len(r.args) = Len(m.params))
            IN [args |-> IF new THEN Append(r.args, <<>>) ELSE [r.args EXCEPT ![Len(r.args)] = Append(@, h)],
                level |-> level]
        args == FoldLeft(Step, [args |-> <<<<>>>>, level |-> 0], ts).args
    IN IF m.params = <<>> /\ ts = <<>> THEN <<>>
       ELSE IF m.va /\ Len(args) = Len(m.params) - 1 THEN Append(args, <<>>) ELSE args

(* ##, of identifiers.                                                     *)
Pasted(left, right) ==
    IF left = <<>> THEN right ELSE IF right = <<>> THEN left
    ELSE IF {Last(left).t, Head(right).t} \subseteq Idents
    THEN Front(left) \o Text(<<Last(left).t \o Head(right).t>>) \o Tail(right) ELSE Bad

RECURSIVE expand(_, _, _, _)

(* The body of m.  tcc does not see that what is before ## is empty at the *)
(* beginning of the body.                                                  *)
Replaced(defs, m, actuals, both) ==
    LET k(t) == SelectInSeq(m.params, LAMBDA p : p = t)
        Beside(i) == (i > 1 /\ m.body[i - 1] = "##") \/ (i < Len(m.body) /\ m.body[i + 1] = "##")
        Item(i) == IF i > 1 /\ m.body[i - 1] = "#" /\ m.func THEN Text(<<Stringized(Plain(actuals[k(m.body[i])]))>>)
                   ELSE IF k(m.body[i]) = 0 THEN Text(<<m.body[i]>>)
                   ELSE IF Beside(i) THEN actuals[k(m.body[i])] ELSE expand(defs, actuals[k(m.body[i])], both, TRUE)
        Step(r, i) ==
            IF m.body[i] = "##" THEN [r EXCEPT !.paste = TRUE, !.left = IF r.out \o r.left = <<>> THEN Bad ELSE @]
            ELSE IF m.body[i] = "#" /\ m.func THEN r
            ELSE IF ~r.paste THEN [out |-> r.out \o r.left, left |-> Item(i), paste |-> FALSE]
            ELSE IF m.va /\ m.body[i] = Last(m.params) /\ Plain(r.left) = <<",">>
            THEN [r EXCEPT !.left = IF Item(i) = <<>> THEN <<>> ELSE @ \o Item(i), !.paste = FALSE]
            ELSE [r EXCEPT !.left = Pasted(@, Item(i)), !.paste = FALSE]
        r == FoldLeftDomain(Step, [out |-> <<>>, left |-> <<>>, paste |-> FALSE], m.body)
        bad == \E i \in DOMAIN m.body : m.body[i] # "#" /\ Contains(Plain(Item(i)), "error")
    IN IF bad THEN Bad ELSE r.out \o r.left

(* A call may end behind the text its name is from.  What is then hidden   *)
(* in its replacement the standard leaves open (both).  Where tcc does     *)
(* something else (README, 3): in arguments, such a call, or a name that   *)
(* is hidden; in such a call, a name hidden at its name that is in its     *)
(* arguments, or in the text behind it if that is from a macro.            *)
expand(defs, ts, both, arg) ==
    LET h == Head(ts)
        m == defs[h.t]
        c == Close(ts)
        actuals == Actuals(SubSeq(ts, 3, c - 1), m)
        differs == \/ arg
                   \/ \E i \in 3 .. Len(ts) :
                         IF i < c THEN ts[i].t \in h.hs ELSE ts[i].hs # {} /\ ts[i].t \in h.hs \union {h.t}
        hs == IF both THEN h.hs \intersect ts[c].hs ELSE h.hs \union ts[c].hs
        Hide(new, old) == [i \in DOMAIN new |-> [new[i] EXCEPT !.hs = @ \union old \union {h.t}]]
        Kept == (IF arg /\ h.t \in h.hs THEN Bad ELSE <<h>>) \o expand(defs, Tail(ts), both, arg)
    IN CASE ts = <<>> -> <<>>
         [] ts # <<>> /\ (h.t \notin DOMAIN defs \/ h.t \in h.hs) -> Kept
         [] OTHER ->
              CASE ~m.func -> expand(defs, Hide(Replaced(defs, m, <<>>, both), h.hs) \o Tail(ts), both, arg)
                [] m.func /\ (Len(ts) = 1 \/ ts[2].t # "(") -> Kept
                [] OTHER -> IF c = 0 \/ Len(actuals) # Len(m.params) \/ (ts[c].hs # h.hs /\ differs) THEN Bad
                            ELSE expand(defs, Hide(Replaced(defs, m, actuals, both), hs) \o SubSeq(ts, c + 1, Len(ts)),
                                        both, arg)

(* The programs of these macros and sources that mean something.           *)
Of(macros, sources) ==
    LET Means(d, s, both) == Append(Plain(expand(d, Text(s), both, FALSE)), Eof)
    IN {p \in {[defs |-> d, source |-> s, means |-> Means(d, s, TRUE)] : d \in macros, s \in sources} :
            ~Contains(p.means, "error") /\ p.means = Means(p.defs, p.source, FALSE)}

---------------------------------------------------------------------------
F1(body) == Func(<<"x">>, FALSE, body)
Pairs(fs, gs) == {[f |-> m1, g |-> m2] : m1 \in fs, m2 \in gs}
Call(k, x) == <<k, "(">> \o x \o <<")">>

(* Macros that end with the name of another one, call each other and       *)
(* themselves, paste, stringize and take any number of arguments.          *)
Macros == Pairs({Object(<<"g">>), Object(<<"f", "a">>), Object(<<"g", "(", "a", ")">>), F1(<<"x", "g">>),
                 F1(<<"g", "(", "x", ")">>), F1(<<"x">>), Func(<<>>, FALSE, <<"g">>)},
                {F1(<<"x", "x">>), F1(<<"f", "x">>), F1(<<"a", "##", "x">>), F1(<<"#", "x", "x">>), Object(<<"f">>),
                 Func(<<"x", "y">>, TRUE, <<"f", "(", "x", ",", "##", "y", ")">>)})
Arguments == {<<>>, <<"a">>, <<"f">>, <<"a", ",", "f">>, Call("f", <<"a">>), Call("g", <<"f">>)}
Sources == {x \o y : x \in {<<"f">>} \union {Call(k, s) : k \in {"f", "g"}, s \in Arguments},
                     y \in {<<>>, <<"f">>, <<"g">>, <<"(", "a", ")">>}}

(* A call whose name is two texts further in than its arguments.           *)
Nested == {[f |-> m1, g |-> m2, h |-> m3] :
              m1 \in {Object(<<"g">>), Object(<<"a", "g">>), F1(<<"x", "g">>)},
              m2 \in {F1(<<"x", "x">>), F1(<<"#", "x", "x">>), Func(<<>>, FALSE, <<"a">>)},
              m3 \in {Object(<<"f">>), Object(<<"f", "(", "a", ")">>), F1(<<"f", "(", "x", ")", "(", "a", ")">>)}}
NestedSources == {x \o y : x \in {<<"h">>, Call("h", <<"a">>), Call("h", <<>>)}, y \in {<<>>, <<"h">>, <<"(", "b", ")">>}}

(* Labels, initializers and functions, with and without macros.            *)
Statements == {<<"a", ":", "f">>, <<";", "num", ";">>, <<"f", ":">>, <<"{", "f", ",", "a", "}", ";">>, <<"{", "{", "f", "}", "}", ";", "f">>}
MCPrograms ==
    Of(Macros, Sources) \union Of(Nested, NestedSources)
      \union Of(Pairs({Object(<<"a", "b">>), Object(<<>>), Object(<<"a", ":">>)}, {Object(<<>>)}),
                {s \o t : s \in Statements, t \in Statements})

(* Where an error leaves tokens behind.                                    *)
OneProgram == Of(Pairs({Object(<<"a", "b">>)}, {Object(<<>>)}), {<<"f", ";">>})
=============================================================================
