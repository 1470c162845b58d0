----------------------------- MODULE EveryLine ------------------------------
(***************************************************************************)
(* What Includes promises: the text it finds is that of a preprocessor     *)
(* with no cache and no skipping.  This one goes over every line of every  *)
(* file and knows which are active.                                        *)
(***************************************************************************)
EXTENDS Includes

CONSTANT Steps \* how many lines the reference may read: any number, or, in
               \* a run, one that is enough

ASSUME EveryLineAssumption == Steps \subseteq Nat

(* A file being read has a position and its conditionals: whether their    *)
(* present branch is on, and whether one has been taken.                   *)
Reading(f, p, c) == [name |-> f, pos |-> p, conds |-> c]
Branch(on, taken) == [on |-> on, taken |-> taken]
Active(f) == \A i \in 1 .. Len(f.conds) : f.conds[i].on

Conds(c, l, active, env) ==
    LET taken == c[Len(c)].taken
        on == l.m \in env
    IN  CASE l.d \in {"ifdef", "ifndef"} ->
                Append(c, IF active THEN Branch(on = (l.d = "ifdef"), on = (l.d = "ifdef"))
                          ELSE Branch(FALSE, TRUE))
          [] l.d = "else" -> [c EXCEPT ![Len(c)] = Branch(~taken, TRUE)]
          [] l.d = "elif" ->
                [c EXCEPT ![Len(c)] = IF taken THEN Branch(FALSE, TRUE) ELSE Branch(on, on)]
          [] l.d = "endif" -> SubSeq(c, 1, Len(c) - 1)
          [] OTHER -> c

(* The files being read, the innermost last, the macros and the text.      *)
State(stack, env, out) == [stack |-> stack, env |-> env, out |-> out]
Begin == State(<<Reading(Main, 1, << >>)>>, {}, << >>)
Finished(s) == s.stack = << >>

(* One line, or the end of a file.                                         *)
Reads(x, s) ==
    LET f == s.stack[Len(s.stack)]
        below == SubSeq(s.stack, 1, Len(s.stack) - 1)
        l == x[f.name][f.pos]
        next == Append(below, Reading(f.name, f.pos + 1, Conds(f.conds, l, Active(f), s.env)))
    IN  IF Finished(s) THEN s
        ELSE IF f.pos > Len(x[f.name]) THEN State(below, s.env, s.out)
        ELSE IF ~Active(f) THEN State(next, s.env, s.out)
        ELSE CASE l.d = "text" -> State(next, s.env, Append(s.out, <<f.name, f.pos>>))
               [] l.d = "define" -> State(next, s.env \union {l.m}, s.out)
               [] l.d = "undef" -> State(next, s.env \ {l.m}, s.out)
               [] l.d = "include" ->
                    State(Append(next, Reading(l.name, 1, << >>)), s.env, s.out)
               [] OTHER -> State(next, s.env, s.out)

(* The state after k lines of the files x.                                 *)
Reference(x, k) ==
    LET run[j \in 0 .. k] == IF j = 0 THEN Begin ELSE Reads(x, run[j - 1])
    IN  run[k]

TextIs(out) == \E k \in Steps : LET s == Reference(lines, k) IN Finished(s) /\ s.out = out

-----------------------------------------------------------------------------
(* The headers the cache is made for: no #ifndef has another branch, the   *)
(* last line is no #include, and none is followed by an #ifndef.           *)
Plain(f) ==
    /\ \A i \in Of(f, {"else", "elif"}) : lines[f][Owner(f, i)].d # "ifndef"
    /\ \A i \in Of(f, {"include"}) : i < Length(f) /\ lines[f][i + 1].d # "ifndef"

(* Skipping the branches not taken, and the headers the cache has, gives   *)
(* the text the reference gives, in this unit and the next.                *)
Transparent ==
    mode = "end" /\ AllWellFormed /\ (\A f \in Headers : Plain(f)) => TextIs(output)

(* tcc.c:2023 on a header that is skipped: "no need to parse the include   *)
(* because the 'ifndef macro' is defined".                                 *)
NoNeed == mode = "end" /\ AllWellFormed => TextIs(output)
=============================================================================
