------------------------------ MODULE MacroEnv ------------------------------
(***************************************************************************)
(* What the preprocessor's macro table promises, without the stack that    *)
(* implements it: the set of names that are macros now.  A translation     *)
(* unit opens a scope.  Every name it #defines or #undefs is touched, and  *)
(* closing the scope leaves no touched name defined and every other name   *)
(* as it was.  DefineStack is shown to implement this module.              *)
(***************************************************************************)

CONSTANT Names          \* the names that may be macros

VARIABLES
    env,                \* the names that are macros
    touched,            \* the names the open unit has #defined or #undefd
    scope               \* "idle", a kind of open unit, or "exit"

vars == <<env, touched, scope>>

Units == {"compile", "assemble"}

TypeOK ==
    /\ env \subseteq Names
    /\ touched \subseteq Names
    /\ scope \in {"idle", "exit"} \union Units

Init ==
    /\ env = {}
    /\ touched = {}
    /\ scope = "idle"

(* A new handle installs a new table of names with its own macros.         *)
NewTable ==
    /\ scope = "idle"
    /\ env' \in SUBSET Names
    /\ UNCHANGED <<touched, scope>>

(* Deleting a handle undefines every macro of the process.                 *)
Wipe ==
    /\ scope = "idle"
    /\ env' = {}
    /\ UNCHANGED <<touched, scope>>

Touch(n) == touched' = IF scope \in Units THEN touched \union {n} ELSE touched

Define(n) ==
    /\ scope # "exit"
    /\ env' = env \union {n}
    /\ Touch(n)
    /\ UNCHANGED scope

Undef(n) ==
    /\ scope # "exit"
    /\ env' = env \ {n}
    /\ Touch(n)
    /\ UNCHANGED scope

Open ==
    /\ scope = "idle"
    /\ scope' \in Units
    /\ UNCHANGED <<env, touched>>

Close ==
    /\ scope \in Units
    /\ scope' = "idle"
    /\ env' = env \ touched
    /\ touched' = {}

Exit ==
    /\ scope # "exit"
    /\ scope' = "exit"
    /\ env' = {} /\ touched' = {}

Next ==
    \/ NewTable \/ Wipe \/ Open \/ Close \/ Exit
    \/ \E n \in Names : Define(n) \/ Undef(n)

Spec == Init /\ [][Next]_vars

=============================================================================
