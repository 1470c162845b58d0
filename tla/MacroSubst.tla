----------------------------- MODULE MacroSubst -----------------------------
(***************************************************************************)
(* Macro substitution in src/generic/tcc.c: macro_subst_tok, macro_subst,  *)
(* macro_arg_subst and macro_twosharps.  The text that surrounds a macro   *)
(* is read on when its body ends with the name of another one that takes   *)
(* arguments: macro_ptr is what is left of the text in hand, and the       *)
(* structs macro_level, on the C stack, hold the texts around it, down to  *)
(* the file.                                                               *)
(*                                                                         *)
(* A token is a string.  Spaces, comments and directives are left out.     *)
(***************************************************************************)
EXTENDS Integers, SequencesExt

CONSTANTS
    Idents,     \* the identifiers of programs, and those pasted from them
    Punctuators \* the other tokens, but numbers, strings and the two below

Eof == "eof"
End == "end"        \* 0, after the last token of a string

(* A macro: params in order, va if the last one takes all that is left.    *)
Object(body) == [func |-> FALSE, params |-> <<>>, va |-> FALSE, body |-> body]
Func(params, va, body) == [func |-> TRUE, params |-> params, va |-> va, body |-> body]

(* A pointer to tokens: NULL, or what is left of them.                     *)
Null == <<>>
At(text) == <<text>>

(* status: ok, error (tcc_error was called) or hang; subst: the value that *)
(* macro_subst_tok returns is 0.                                           *)
Stream(file) ==
    [file |-> file, macro_ptr |-> Null, levels |-> <<>>, tok |-> End, args |-> <<>>,
     out |-> <<>>, status |-> "ok", subst |-> FALSE]

(* The end of a string is not passed.                                      *)
next_nomacro(s) ==
    CASE s.macro_ptr = Null -> IF s.file = <<>> THEN [s EXCEPT !.tok = Eof]
                               ELSE [s EXCEPT !.tok = Head(s.file), !.file = Tail(@)]
      [] s.macro_ptr = At(<<>>) -> [s EXCEPT !.tok = End]
      [] OTHER -> [s EXCEPT !.tok = Head(s.macro_ptr[1]), !.macro_ptr = At(Tail(@[1]))]

---------------------------------------------------------------------------
(* ##: the tokens on its sides become one, if both are identifiers.  What  *)
(* begins with ## is not touched.                                          *)
macro_twosharps(text) ==
    LET first == SelectInSeq(Tail(text), LAMBDA t : t = "##")
        Kept(r, t) == [out |-> Append(r.out, r.tok), tok |-> t, paste |-> FALSE]
        Read(r, t) ==
            CASE r.paste /\ {r.tok, t} \subseteq Idents -> [r EXCEPT !.tok = @ \o t, !.paste = FALSE]
              [] ~r.paste /\ t = "##" -> [r EXCEPT !.paste = TRUE]
              [] OTHER -> Kept(r, t)
        r == FoldLeft(Read, [out |-> SubSeq(text, 1, first - 1), tok |-> text[first], paste |-> FALSE],
                      SubSeq(text, first + 1, Len(text)))
    IN IF Len(text) < 2 \/ first = 0 THEN text ELSE Append(r.out, r.tok)

(* Mutant: behind a text is the file.                                      *)
look_behind_file(s, stream) ==
    IF s.macro_ptr = At(<<>>) /\ stream THEN [s EXCEPT !.macro_ptr = Null, !.levels = <<>>] ELSE s

(* What follows a macro's name: if the texts around may be read (stream)   *)
(* it is looked for there when the text in hand is at its end.             *)
RECURSIVE look_behind(_, _)
look_behind(s, stream) ==
    IF s.macro_ptr # At(<<>>) \/ ~stream THEN s
    ELSE IF s.levels = <<>> THEN [s EXCEPT !.macro_ptr = Null]
    ELSE look_behind([s EXCEPT !.macro_ptr = Head(s.levels), !.levels = Tail(@)], stream)
Following(s) ==
    LET text == IF s.macro_ptr = Null THEN s.file ELSE s.macro_ptr[1]
    IN IF text = <<>> THEN End ELSE Head(text)

(* One argument, from s.tok on; at the end of a string it never ends.      *)
RECURSIVE argument(_, _, _)
argument(s, va, parlevel) ==
    LET Level == CASE s.tok = "(" -> parlevel + 1 [] s.tok = ")" -> parlevel - 1 [] OTHER -> parlevel
    IN IF s.tok = Eof \/ (parlevel = 0 /\ (s.tok = ")" \/ (s.tok = "," /\ ~va))) THEN s
       ELSE IF s.tok = End THEN [s EXCEPT !.status = "hang"]
       ELSE argument(next_nomacro([s EXCEPT !.args[Len(s.args)] = Append(@, s.tok)]), va, Level)

RECURSIVE arguments(_, _)
arguments(s, m) ==
    LET Va(i) == m.va /\ i = Len(m.params)
        Complete(u) == IF Len(u.args) < Len(m.params) THEN [u EXCEPT !.status = "error"] ELSE u
        More(u) ==
            CASE u.status = "hang" -> u
              [] u.status # "hang" /\ u.tok = ")" /\ ~Va(Len(u.args) + 1) -> Complete(u)
              [] u.status # "hang" /\ u.tok \notin {",", ")"} -> [u EXCEPT !.status = "error"]
              [] OTHER -> arguments(IF u.tok = ")" THEN u ELSE next_nomacro(u), m)
    IN CASE m.params = <<>> /\ s.tok = ")" -> s
         [] Len(s.args) = Len(m.params) /\ ~(m.params = <<>> /\ s.tok = ")") -> [s EXCEPT !.status = "error"]
         [] OTHER -> More(argument([s EXCEPT !.args = Append(@, <<>>)], Va(Len(s.args) + 1), 0))

(* #: the tokens of an argument as one.                                    *)
Stringized(text) == FoldLeft(LAMBDA s, t : s \o t, "'", text) \o "'"

RECURSIVE macro_subst_rest(_, _, _, _, _)
macro_subst(defs, s, text, nested, stream) ==
    macro_subst_rest(defs, s, At(macro_twosharps(text)), nested, stream)

(* The body of m with its arguments: substituted first, unless # or ## is  *)
(* beside.  The comma before ## goes with an empty variable argument.      *)
macro_arg_subst(defs, nested, m, args) ==
    LET arg(t) == args[SelectInSeq(m.params, LAMBDA p : p = t)]
        IsVa(t) == m.va /\ t = Last(m.params)
        Comma(r) == Len(r.out) >= 2 /\ r.out[Len(r.out) - 1] = ","
        Substituted(r, t) == macro_subst(defs, [r EXCEPT !.macro_ptr = Null], arg(t), nested, FALSE)
        Beside(r, t) ==
            CASE IsVa(t) /\ r.last = "##" /\ Comma(r) ->
                   IF arg(t) = <<>> THEN Front(Front(r.out)) ELSE Front(r.out) \o arg(t)
              [] OTHER -> r.out \o arg(t)
        Item(r, i) ==
            LET t == m.body[i]
                param == Contains(m.params, t)
            IN CASE r.status # "ok" -> r
                 [] r.hash -> [r EXCEPT !.out = Append(@, IF param THEN Stringized(arg(t)) ELSE t),
                                        !.last = IF param /\ arg(t) # <<>> THEN Last(arg(t)) ELSE t, !.hash = FALSE]
                 [] ~r.hash /\ t = "#" -> [r EXCEPT !.hash = TRUE]
                 [] ~r.hash /\ param ->
                      IF r.last = "##" \/ (i < Len(m.body) /\ m.body[i + 1] = "##")
                      THEN [r EXCEPT !.out = Beside(r, t), !.last = t]
                      ELSE [Substituted(r, t) EXCEPT !.last = t]
                 [] OTHER -> [r EXCEPT !.out = Append(@, t), !.last = t]
    IN FoldLeftDomain(Item, [last |-> End, hash |-> FALSE] @@ Stream(<<>>), m.body)

(* The body of the macro t with its arguments is in r.                     *)
macro_body(defs, s, t, nested, stream, r) ==
    IF r.status # "ok" THEN [s EXCEPT !.status = r.status, !.macro_ptr = r.macro_ptr]
    ELSE [macro_subst(defs, [s EXCEPT !.args = <<>>], r.out, nested \union {t}, stream) EXCEPT !.subst = TRUE]
macro_call(defs, s, t, nested, stream) ==
    macro_body(defs, s, t, nested, stream,
               IF defs[t].func /\ s.status = "ok" THEN macro_arg_subst(defs, nested, defs[t], s.args)
               ELSE [s EXCEPT !.out = defs[t].body])

(* The macro t, whose name was read.  Nothing is substituted if it takes   *)
(* arguments and there are none.                                           *)
macro_subst_tok(defs, s, t, nested, stream) ==
    LET behind == look_behind(s, stream)
        call == arguments(next_nomacro(next_nomacro(behind)), defs[t])
    IN IF defs[t].func /\ Following(behind) # "(" THEN [behind EXCEPT !.subst = FALSE]
       ELSE macro_call(defs, IF defs[t].func THEN call ELSE s, t, nested, stream)

(* Of the text at ptr.  A macro that is being substituted is left; what    *)
(* follows one is read from where its substitution has got to.             *)
Inside(s, rest, stream) ==
    [s EXCEPT !.macro_ptr = At(rest), !.levels = IF stream THEN <<s.macro_ptr>> \o @ ELSE @]
Outside(u, s, t, stream) ==
    LET left == Len(u.levels) > Len(s.levels)         \* nothing around was read
    IN [u EXCEPT !.macro_ptr = IF ~stream THEN s.macro_ptr ELSE IF left THEN Head(u.levels) ELSE Null,
                 !.levels = IF left THEN Tail(@) ELSE @,
                 !.out = IF u.subst THEN @ ELSE Append(@, t)]
macro_subst_rest(defs, s, ptr, nested, stream) ==
    LET t == Head(ptr[1])
        Ahead(u) == IF u.status # "ok" THEN u
                    ELSE macro_subst_rest(defs, Outside(u, s, t, stream), u.macro_ptr, nested, stream)
    IN IF ptr \in {Null, At(<<>>)} THEN s
       ELSE IF t \in DOMAIN defs \ nested
       THEN Ahead(macro_subst_tok(defs, Inside(s, Tail(ptr[1]), stream), t, nested, stream))
       ELSE macro_subst_rest(defs, [s EXCEPT !.out = Append(@, t)], At(Tail(ptr[1])), nested, stream)
=============================================================================
