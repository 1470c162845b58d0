------------------------------- MODULE Handle -------------------------------
(***************************************************************************)
(* The commands of src/generic/tcltcc.c.  Every handle has a TCCState with *)
(* its sections, but the compiler finds the section it writes to and the   *)
(* symbol table in statics (text_section, symtab_section), which belong to *)
(* the newest handle, whichever handle a command names.                    *)
(*                                                                         *)
(* A function is a block of code in a text section, and a symbol that says *)
(* where.  The first "command" or "get_symbol" relocates the handle; then  *)
(* the address of a symbol can be made a Tcl command.  A handle is its     *)
(* number, counted in the order tcc_new makes them.                        *)
(***************************************************************************)
EXTENDS Integers, Sequences, FiniteSets

CONSTANTS
    Fn,             \* functions
    Extern,         \* those that resolve_sym finds in the process
    Types,          \* the output types of the handles that are made
    MaxHandles,     \* bound: handles ever made
    MaxDefs,        \* bound: definitions compiled or added
    MaxCommands     \* bound: Tcl commands and symbols given

ASSUME HandleAssumption ==
    /\ Extern \subseteq Fn
    /\ "memory" \in Types /\ Types \subseteq {"memory", "exe", "dll", "obj"}
    /\ MaxHandles \in Nat /\ MaxDefs \in Nat /\ MaxCommands \in Nat

VARIABLES
    last,           \* the handle the statics belong to
    alive,          \* handles whose command exists
    type,           \* for every handle, its output_type
    relocated,      \* handles whose relocated flag is set
    code,           \* for every handle, the blocks of its text section
    symtab,         \* for every handle, the symbols of its table
    linked,         \* handles whose table has _etext, _edata and _end
    commands,       \* the Tcl commands made
    defs,           \* history: for every handle, the definitions it was given
    placed,         \* history: for every handle, how many it had when relocated
    mixed           \* history: a command has named a handle not the newest

vars == <<last, alive, type, relocated, code, symtab, linked, commands, defs,
          placed, mixed>>

Handles == 1 .. MaxHandles

(* shndx: where the symbol is defined.  at: its block, counted in the      *)
(* section.  base: the section address that relocate_syms has added to it, *)
(* once that of its own section, or some other sum.                        *)
Symbol == [shndx : {"none", "undef", "text", "abs"}, at : Nat,
           base : {"none", "own", "wrong"}]
NoSymbol == [shndx |-> "none", at |-> 0, base |-> "none"]

(* A definition, in a source or by add_symbol.  at: the block that is its  *)
(* own if the body is compiled to the end (whole).  used: the source had   *)
(* used the function before.                                               *)
Definition == [fn : Fn, shndx : {"text", "abs"}, at : Nat, used : BOOLEAN, whole : BOOLEAN]

(* A Tcl command: the handle and function it was made for, the table its   *)
(* address is from, the symbol, and (history) how many definitions that    *)
(* table had been given.                                                   *)
Command == [handle : Handles, fn : Fn, table : Handles, sym : Symbol,
            seen : Nat]

Init ==
    /\ last = 0 /\ alive = {}
    /\ type = [h \in Handles |-> "memory"]
    /\ relocated = {}
    /\ code = [h \in Handles |-> << >>]
    /\ symtab = [h \in Handles |-> [f \in Fn |-> NoSymbol]]
    /\ linked = {} /\ commands = {} /\ mixed = FALSE
    /\ defs = [h \in Handles |-> << >>]
    /\ placed = [h \in Handles |-> 0]

-----------------------------------------------------------------------------
(* TccCreateCmd.  tcc_new makes the sections and takes the statics.  A     *)
(* handle of the same name, old, is deleted afterwards; 0 if there is none.*)
TccCreateCmd(t, old) ==
    /\ last < MaxHandles
    /\ old \in alive \union {0}
    /\ last' = last + 1
    /\ alive' = (alive \ {old}) \union {last + 1}
    /\ type' = [type EXCEPT ![last + 1] = t]
    /\ UNCHANGED <<relocated, code, symtab, linked, commands, defs, placed, mixed>>

(* The handle's command is deleted or renamed away.  tcc_delete does not   *)
(* free the sections.                                                      *)
TccCCommandDeleteProc(h) ==
    /\ h \in alive
    /\ alive' = alive \ {h}
    /\ UNCHANGED <<last, type, relocated, code, symtab, linked, commands, defs, placed, mixed>>

Names(h) == h \in alive /\ mixed' = (mixed \/ h # last)

(* add_elf_sym of a global symbol in the table of the newest handle: an    *)
(* undefined one is patched, a defined one stays and is an error.          *)
Sym(f) == symtab[last][f]
IsDefined(f) == Sym(f).shndx \in {"text", "abs"}

(* Mutant: a defined symbol is patched too.                                *)
Define_patch(table, f, s) == [table EXCEPT ![f] = s]

Define(table, f, s) == [table EXCEPT ![f] = IF IsDefined(f) THEN @ ELSE s]

Refer(table, g) == [table EXCEPT ![g] = IF @.shndx = "none" THEN [NoSymbol EXCEPT !.shndx = "undef"]
                                        ELSE @]

(* The history of definitions.                                             *)
AllDefs == {p \in Handles \X (1 .. MaxDefs) : p[2] <= Len(defs[p[1]])}

Recorded(f, s, used, whole) ==
    /\ Cardinality(AllDefs) < MaxDefs
    /\ defs' = [defs EXCEPT ![last] = Append(@,
                  [fn |-> f, shndx |-> s.shndx, at |-> s.at, used |-> used, whole |-> whole])]

(* put_extern_sym2 of a definition.  If the source has used the function   *)
(* before it, its Sym has the symbol of the table already, whoever defined *)
(* it, and that is written over: no error.                                 *)
TextAt(i) == [shndx |-> "text", at |-> i, base |-> "none"]

put_extern_sym2(table, f, used, s) ==
    IF used THEN [table EXCEPT ![f] = s] ELSE Define(table, f, s)

(* A source that defines f, used before in the source or not, and calls g  *)
(* unless g is f, compiled into the section of the newest handle.  The     *)
(* symbol is put before the body is compiled, at the end of the section.   *)
(* An error in the body (whole is FALSE) leaves it there, and the end of   *)
(* the section where it was: the next block takes its place.  A second     *)
(* definition is an error that leaves its code.                            *)
tcc_compile(f, g, used, whole) ==
    LET s == TextAt(Len(code[last]) + 1)
    IN  /\ Recorded(f, s, used, whole)
        /\ code' = [code EXCEPT ![last] = IF whole THEN Append(@, f) ELSE @]
        /\ symtab' = [symtab EXCEPT ![last] = Refer(put_extern_sym2(@, f, used, s), g)]

compile(h, f, g, used, whole) ==
    /\ Names(h) /\ h \notin relocated
    /\ tcc_compile(f, g, used, whole)
    /\ UNCHANGED <<last, alive, type, relocated, linked, commands, placed>>

(* A C file.  Nothing asks whether the handle is relocated.                *)
add_file(h, f, g, used, whole) ==
    /\ Names(h)
    /\ tcc_compile(f, g, used, whole)
    /\ UNCHANGED <<last, alive, type, relocated, linked, commands, placed>>

Absolute == [shndx |-> "abs", at |-> 0, base |-> "none"]

add_symbol(h, f) ==
    /\ Names(h)
    /\ Recorded(f, Absolute, FALSE, TRUE)
    /\ symtab' = [symtab EXCEPT ![last] = Define(@, f, Absolute)]
    /\ UNCHANGED <<last, alive, type, relocated, code, linked, commands, placed>>

(* tcc_relocate.  tcc_add_linker_symbols defines _etext and the others: an *)
(* error if the table has them.  relocate_syms adds the address of section *)
(* shndx of h to every symbol, whatever errors there are.                  *)
Unresolved == {f \in Fn \ Extern : Sym(f).shndx = "undef"}

(* Mutant: the linker's symbols may be there from an earlier attempt.      *)
Resolves_retry(h) == Unresolved = {}

Resolves(h) == last \notin linked /\ Unresolved = {}

Based(h, s) ==
    IF s.shndx # "text" THEN s
    ELSE [s EXCEPT !.base = IF s.base = "none" /\ h = last THEN "own" ELSE "wrong"]

relocate_syms(h) ==
    /\ linked' = linked \union {last}
    /\ symtab' = [symtab EXCEPT ![last] = [f \in Fn |-> Based(h, Sym(f))]]

(* The first "command" or "get_symbol" of a handle, when it fails.         *)
tcc_relocate_fails(h) ==
    /\ Names(h) /\ h \notin relocated
    /\ ~Resolves(h)
    /\ relocate_syms(h)
    /\ UNCHANGED <<last, alive, type, relocated, code, commands, defs, placed>>

(* "command" and "get_symbol": what is found is given to Tcl.              *)
Give(h, f, s) ==
    commands' = IF s.shndx = "none" THEN commands
                ELSE commands \union {[handle |-> h, fn |-> f, table |-> last, sym |-> s,
                                       seen |-> Len(defs[last])]}

command(h, f) ==
    /\ Names(h) /\ Cardinality(commands) < MaxCommands
    /\ \/ /\ h \in relocated
          /\ Give(h, f, Sym(f))
          /\ UNCHANGED <<linked, symtab, relocated, placed>>
       \/ /\ h \notin relocated /\ Resolves(h)
          /\ relocate_syms(h)
          /\ relocated' = relocated \union {h}
          /\ placed' = [placed EXCEPT ![h] = Len(defs[h])]
          /\ Give(h, f, Based(h, Sym(f)))
    /\ UNCHANGED <<last, alive, type, code, defs>>

(* tcc_output_file.  An object has no addresses.  For an executable or a   *)
(* library the linker's symbols are defined and relocate_syms adds the     *)
(* addresses the sections have in the file; an executable stops before     *)
(* that if there is an error.                                              *)
output_file(h) ==
    /\ Names(h) /\ h \notin relocated /\ type[h] # "memory"
    /\ IF type[h] = "obj" THEN UNCHANGED <<linked, symtab>>
       ELSE IF type[h] = "exe" /\ ~Resolves(h)
       THEN linked' = linked \union {last} /\ UNCHANGED symtab
       ELSE relocate_syms(h)
    /\ UNCHANGED <<last, alive, type, relocated, code, commands, defs, placed>>

Next ==
    \/ \E t \in Types, old \in 0 .. MaxHandles : TccCreateCmd(t, old)
    \/ \E h \in Handles :
          \/ TccCCommandDeleteProc(h) \/ tcc_relocate_fails(h) \/ output_file(h)
          \/ \E f \in Fn : add_symbol(h, f) \/ command(h, f)
          \/ \E f, g \in Fn, used, whole \in BOOLEAN :
                compile(h, f, g, used, whole) \/ add_file(h, f, g, used, whole)

Spec == Init /\ [][Next]_vars

-----------------------------------------------------------------------------
(* Type invariant.                                                         *)
TypeOK ==
    /\ last \in 0 .. MaxHandles
    /\ alive \subseteq 1 .. last
    /\ type \in [Handles -> Types]
    /\ relocated \subseteq 1 .. last
    /\ code \in [Handles -> Seq(Fn)]
    /\ symtab \in [Handles -> [Fn -> Symbol]]
    /\ linked \subseteq 1 .. last
    /\ commands \subseteq Command
    /\ defs \in [Handles -> Seq(Definition)]
    /\ placed \in [Handles -> Nat]
    /\ mixed \in BOOLEAN

(* The definitions of the function among the first n of a history, and the *)
(* one of these that counts: the newest of a source that has used it       *)
(* before, or the first if there is none.                                  *)
Defs(ds, f, n) == {i \in 1 .. n : ds[i].fn = f}

Counts(ds, f, n, i) ==
    /\ i \in Defs(ds, f, n)
    /\ \/ /\ ds[i].used
          /\ \A j \in Defs(ds, f, n) : ds[j].used => j <= i
       \/ \A j \in Defs(ds, f, n) : ~ds[j].used /\ i <= j

IsGiven(s, d) == s.shndx = d.shndx /\ s.at = d.at

(* What Tcl calls is what was defined.  The address a Tcl command has is,  *)
(* in the table it was taken from, that of the definition that counts of   *)
(* those given before the command; if this one is compiled, it is code of  *)
(* its function, unless the body was not compiled to the end.  As long as  *)
(* every command names the newest handle, that is the table of the handle  *)
(* it was made for, and the section's address has been added to it once,   *)
(* however often a relocation failed before; what add_file compiles after  *)
(* the relocation has an offset and no address.                            *)
CommandsOwn ==
    \A c \in commands :
        c.sym.shndx \in {"text", "abs"} =>
            \E i \in 1 .. c.seen :
                /\ Counts(defs[c.table], c.fn, c.seen, i)
                /\ IsGiven(c.sym, defs[c.table][i])
                /\ c.sym.shndx = "text" /\ defs[c.table][i].whole =>
                      c.sym.at <= Len(code[c.table]) /\ code[c.table][c.sym.at] = c.fn
                /\ ~mixed => c.table = c.handle
                /\ ~mixed /\ c.sym.shndx = "text" =>
                      c.sym.base = IF i <= placed[c.table] THEN "own" ELSE "none"

(* The definitions given since the command that take the symbol over.      *)
Later(c) == {i \in 1 .. Len(defs[c.table]) :
                 i > c.seen /\ defs[c.table][i].fn = c.fn /\ defs[c.table][i].used}

(* What Tcl calls goes stale in one way only: as long as every command     *)
(* names the newest handle, the symbol a Tcl command took its address from *)
(* stays as it was through later sources, add_symbol, relocations and      *)
(* other handles, unless a later source (add_file) uses the function and   *)
(* then defines it; the symbol then is that of the newest such definition. *)
CommandsCurrent ==
    ~mixed => \A c \in commands :
        c.sym.shndx \in {"text", "abs"} =>
            IF Later(c) = {} THEN symtab[c.table][c.fn] = c.sym
            ELSE \E i \in Later(c) : /\ \A j \in Later(c) : j <= i
                                     /\ symtab[c.table][c.fn] = TextAt(defs[c.table][i].at)

(* "code already relocated, cannot compile more" (tcltcc.c, compile): once *)
(* a handle is relocated, its code stays as it is.                         *)
Frozen == [][\A h \in relocated : code'[h] = code[h]]_vars
=============================================================================
