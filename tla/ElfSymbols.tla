----------------------------- MODULE ElfSymbols -----------------------------
(***************************************************************************)
(* The symbol table of a handle: src/generic/tccelf.c, and the parts of    *)
(* src/generic/tcc.c that fill it.  Sources are compiled one after the     *)
(* other into a handle.  While a source (a unit) is compiled its names     *)
(* have a Sym whose field c is the index of an ELF symbol, 0 until one is  *)
(* needed; add_elf_sym finds the symbol that another unit has put, with    *)
(* the hash table; put_extern_sym2 writes to the symbol of c directly.     *)
(*                                                                         *)
(* An object, or a function, is an offset in its section.  Alignment and   *)
(* the addresses of sections are left out (see Handle for these), and the  *)
(* places that relocations are for.  Units agree on the size of a variable *)
(* and not on that of a function.                                          *)
(***************************************************************************)
EXTENDS Integers, SequencesExt, FiniteSetsExt

CONSTANTS
    Fn, Var,    \* the functions and variables of the program
    Static,     \* those that a unit may make static
    Extern,     \* those that resolve_sym finds in the process
    Size,       \* the size of every variable
    CodeSize,   \* the sizes that the code of a function may have
    elf_hash,   \* for every name, its hash
    Avoided,    \* what the programs do not do, of Oddities
    MaxUnits,   \* bound: the sources compiled
    MaxDefs,    \* bound: definitions in them
    MaxRefs     \* bound: references in them

Names == Fn \union Var
Linker == {"_etext", "_edata", "_end"}

(* used: define what another unit has defined, after it was used.          *)
(* redefined: define a thing twice in a unit.  tentative: declare without  *)
(* an initializer what another unit has initialized.  static: leave it out *)
(* of a function that was declared static.  output: go on after            *)
(* output_file has written an object.                                      *)
Oddities == {"used", "redefined", "tentative", "static", "output"}

ASSUME ElfAssumption ==
    /\ Fn \intersect Var = {} /\ Static \subseteq Names /\ Extern \subseteq Fn
    /\ Avoided \subseteq Oddities
    /\ Size \in [Var -> Nat \ {0}] /\ CodeSize \subseteq Nat \ {0}
    /\ elf_hash \in [Names \union Linker -> Nat]
    /\ MaxUnits \in Nat /\ MaxDefs \in Nat /\ MaxRefs \in Nat

VARIABLES
    table,      \* symtab_section and its hash table
    refs,       \* the relocations, with the name each of them means
    top,        \* for every section, its data_offset
    syms,       \* for every name, its Sym in the unit
    unit,       \* units begun
    compiling,  \* in the middle of one
    func,       \* {} or {n}: in the body of the function n
    ended,      \* "no", "object" (written), "linked" or "failed"
    defs,       \* history: the definitions of the program
    complaints  \* history: names that were reported as defined twice

vars == <<table, refs, top, syms, unit, compiling, func, ended, defs, complaints>>

(* own: the unit that a static name belongs to, 0 for the others.          *)
NoSym == [c |-> 0, static |-> FALSE, extern |-> FALSE, own |-> -1]
Declared(n) == syms[n] # NoSym

Symbol(name, bind, shndx, value, size) ==
    [name |-> name, bind |-> bind, shndx |-> shndx, value |-> value, size |-> size]

Init ==
    /\ table = [symtab |-> <<>>, buckets |-> [h \in {0} |-> 0], chain |-> <<>>]
    /\ refs = <<>> /\ top = [s \in {"text", "data", "bss"} |-> 0]
    /\ syms = [n \in Names |-> NoSym]
    /\ unit = 0 /\ compiling = FALSE /\ func = {} /\ ended = "no"
    /\ defs = <<>> /\ complaints = {}

---------------------------------------------------------------------------
(* The table.  A bucket, and the chain of a symbol, hold the index of the  *)
(* newest symbol, and of the next older one, with that remainder.          *)

Global(st) == {i \in DOMAIN st : st[i].bind # "local"}
Newest(st, S, h, nb) == Max({i \in S \intersect Global(st) : elf_hash[st[i].name] % nb = h} \union {0})

(* Mutant: the chain of a symbol begins at the symbol itself.              *)
rebuild_hash_newest(st, nb) ==
    [symtab |-> st,
     buckets |-> [h \in 0 .. nb - 1 |-> Newest(st, DOMAIN st, h, nb)],
     chain |-> [i \in DOMAIN st |->
        IF i \in Global(st) THEN Newest(st, 1 .. i - 2, elf_hash[st[i].name] % nb, nb) ELSE 0]]

rebuild_hash(st, nb) ==
    [symtab |-> st,
     buckets |-> [h \in 0 .. nb - 1 |-> Newest(st, DOMAIN st, h, nb)],
     chain |-> [i \in DOMAIN st |->
        IF i \in Global(st) THEN Newest(st, 1 .. i - 1, elf_hash[st[i].name] % nb, nb) ELSE 0]]

(* Mutant: the bucket gets the symbol before its chain is taken from there. *)
put_elf_sym_loop(t, s) ==
    LET st == Append(t.symtab, s)
        nb == Cardinality(DOMAIN t.buckets)
        h == elf_hash[s.name] % nb
    IN IF s.bind = "local" THEN [t EXCEPT !.symtab = st, !.chain = Append(@, 0)]
       ELSE IF Cardinality(Global(st)) > 2 * nb THEN rebuild_hash(st, 2 * nb)
       ELSE [symtab |-> st, chain |-> Append(t.chain, Len(st)),
             buckets |-> [t.buckets EXCEPT ![h] = Len(st)]]

put_elf_sym(t, s) ==
    LET st == Append(t.symtab, s)
        nb == Cardinality(DOMAIN t.buckets)
        h == elf_hash[s.name] % nb
    IN IF s.bind = "local" THEN [t EXCEPT !.symtab = st, !.chain = Append(@, 0)]
       ELSE IF Cardinality(Global(st)) > 2 * nb THEN rebuild_hash(st, 2 * nb)
       ELSE [symtab |-> st, chain |-> Append(t.chain, t.buckets[h]),
             buckets |-> [t.buckets EXCEPT ![h] = Len(st)]]

find_elf_sym(t, name) ==
    LET walk[i \in 0 .. Len(t.symtab)] ==
            IF i = 0 \/ t.symtab[i].name = name THEN i ELSE walk[t.chain[i]]
    IN walk[t.buckets[elf_hash[name] % Cardinality(DOMAIN t.buckets)]]

Result(t, i, twice) == [table |-> t, i |-> i, twice |-> twice]

(* Mutant: a second definition is taken.                                   *)
add_elf_sym_last(t, s) ==
    LET i == find_elf_sym(t, s.name)
    IN IF s.bind = "local" \/ i = 0 THEN Result(put_elf_sym(t, s), Len(t.symtab) + 1, FALSE)
       ELSE IF s.shndx # "undef" THEN Result([t EXCEPT !.symtab[i] = s], i, t.symtab[i].shndx # "undef")
       ELSE Result(t, i, FALSE)

(* Of global symbols and local ones: C and add_symbol make no others.      *)
add_elf_sym(t, s) ==
    LET i == find_elf_sym(t, s.name)
    IN IF s.bind = "local" \/ i = 0 THEN Result(put_elf_sym(t, s), Len(t.symtab) + 1, FALSE)
       ELSE IF t.symtab[i].shndx = "undef" THEN Result([t EXCEPT !.symtab[i] = s], i, FALSE)
       ELSE Result(t, i, s.shndx # "undef")

(* Mutant: every symbol is global.                                         *)
put_extern_sym2_global(s, n, shndx, value, size) ==
    IF s.c = 0 THEN add_elf_sym(table, Symbol(n, "global", shndx, value, size))
    ELSE Result([table EXCEPT !.symtab[s.c] = [@ EXCEPT !.shndx = shndx, !.value = value, !.size = size]],
                s.c, FALSE)

put_extern_sym2(s, n, shndx, value, size) ==
    IF s.c = 0
    THEN add_elf_sym(table, Symbol(n, IF s.static THEN "local" ELSE "global", shndx, value, size))
    ELSE Result([table EXCEPT !.symtab[s.c] = [@ EXCEPT !.shndx = shndx, !.value = value, !.size = size]],
                s.c, FALSE)

---------------------------------------------------------------------------
(* A unit.                                                                 *)
Usable == ended = "no" \/ (ended = "object" /\ "output" \notin Avoided)

tcc_compile ==
    /\ Usable /\ ~compiling /\ unit < MaxUnits
    /\ table' = put_elf_sym(table, Symbol("file", "local", "abs", 0, 0))
    /\ syms' = [n \in Names |-> NoSym]
    /\ unit' = unit + 1 /\ compiling' = TRUE /\ ended' = "no"
    /\ UNCHANGED <<refs, top, func, defs, complaints>>

(* At its end, or when an error stops it, of which the body of a function  *)
(* leaves its symbol where the next function goes.                         *)
end_compile ==
    /\ compiling /\ compiling' = FALSE
    /\ syms' = [n \in Names |-> NoSym] /\ func' = {}
    /\ UNCHANGED <<table, refs, top, unit, ended, defs, complaints>>

Pushed(static, extern) ==
    [c |-> 0, static |-> static, extern |-> extern, own |-> IF static THEN unit ELSE 0]

(* A declaration; an undeclared function that a body calls has this one    *)
(* too.  (What a block declares is on local_stack, and left out.)          *)
external_sym(n, static) ==
    /\ compiling /\ ~Declared(n) /\ (static => n \in Fn \intersect Static)
    /\ func # {} => n \in Fn /\ ~static
    /\ syms' = [syms EXCEPT ![n] = Pushed(static, TRUE)]
    /\ UNCHANGED <<table, refs, top, unit, compiling, func, ended, defs, complaints>>

(* A use of a name in code or in an initializer.                           *)
greloc(n) ==
    LET s == syms[n]
        r == IF s.c = 0 THEN put_extern_sym2(s, n, "undef", 0, 0) ELSE Result(table, s.c, FALSE)
    IN /\ compiling /\ Declared(n) /\ Len(refs) < MaxRefs
       /\ table' = r.table
       /\ syms' = [syms EXCEPT ![n].c = r.i]
       /\ refs' = Append(refs, [sym |-> r.i, name |-> n, own |-> s.own])
       /\ UNCHANGED <<top, unit, compiling, func, ended, defs, complaints>>

Defs(n, own) == {i \in DOMAIN defs : defs[i].name = n /\ defs[i].own = own}
Strong(D) == {i \in D : defs[i].shndx # "common"}
Initialized(n, own, u) == \E i \in Strong(Defs(n, own)) : (defs[i].unit = unit) = u

Allowed(n, s) ==
    /\ "redefined" \in Avoided => ~Initialized(n, s.own, TRUE)
    /\ "used" \in Avoided => s.c = 0 \/ ~Initialized(n, s.own, FALSE)

Defined(n, s, r, shndx, value) ==
    /\ compiling /\ func = {} /\ Len(defs) < MaxDefs
    /\ table' = r.table
    /\ syms' = [syms EXCEPT ![n] = [s EXCEPT !.c = r.i, !.extern = FALSE]]
    /\ defs' = Append(defs, [name |-> n, own |-> s.own, unit |-> unit, shndx |-> shndx, value |-> value])
    /\ complaints' = IF r.twice THEN complaints \union {n} ELSE complaints
    /\ UNCHANGED <<refs, unit, compiling, ended>>

(* gen_function, with what decl does before it: the type of the definition *)
(* takes the place of the one that was declared.  It has a symbol, of no   *)
(* size, before its body.                                                  *)
gen_function(n, static) ==
    LET s == IF Declared(n) THEN [syms[n] EXCEPT !.static = static] ELSE Pushed(static, FALSE)
        r == put_extern_sym2(s, n, "text", top.text, 0)
    IN /\ n \in Fn /\ (static => n \in Static /\ s.own = unit)
       /\ "static" \in Avoided => static = (s.own = unit)
       /\ Allowed(n, s)
       /\ Defined(n, s, r, "text", top.text)
       /\ func' = {n} /\ UNCHANGED top

(* After its body: the section grows, and the symbol gets its size, even   *)
(* if it is that of another unit, where add_elf_sym refused this one.      *)
end_function(size) ==
    \E n \in func :
        /\ top' = [top EXCEPT !.text = @ + size]
        /\ table' = [table EXCEPT !.symtab[syms[n].c].size = size]
        /\ func' = {}
        /\ UNCHANGED <<refs, syms, unit, compiling, ended, defs, complaints>>

(* label_pop, between the two, stops the unit at an undefined label.       *)
label_undefined(size) ==
    /\ func # {} /\ func' = {}
    /\ top' = [top EXCEPT !.text = @ + size]
    /\ compiling' = FALSE /\ syms' = [n \in Names |-> NoSym]
    /\ UNCHANGED <<table, refs, unit, ended, defs, complaints>>

(* decl_initializer_alloc of a variable, with an initializer, and without: *)
(* then the symbol becomes a common one, unless the unit has it already.   *)
SymOf(n, static) == IF Declared(n) THEN syms[n] ELSE Pushed(static, FALSE)

initialized(n, static) ==
    LET s == SymOf(n, static)
        r == put_extern_sym2(s, n, "data", top.data, Size[n])
    IN /\ n \in Var /\ (static => n \in Static) /\ s.static = static
       /\ Allowed(n, s)
       /\ Defined(n, s, r, "data", top.data)
       /\ top' = [top EXCEPT !.data = @ + Size[n]] /\ UNCHANGED func

tentative(n, static) ==
    LET s == SymOf(n, static)
        r == put_extern_sym2(s, n, "undef", 0, Size[n])
    IN /\ n \in Var /\ (static => n \in Static) /\ s.static = static /\ (Declared(n) => s.extern)
       /\ "tentative" \in Avoided => ~Initialized(n, s.own, FALSE)
       /\ Defined(n, s, [r EXCEPT !.table.symtab[r.i].shndx = "common"], "common", 0)
       /\ UNCHANGED <<top, func>>

---------------------------------------------------------------------------
(* Between units.                                                          *)
tcc_add_symbol(n) ==
    LET r == add_elf_sym(table, Symbol(n, "global", "abs", 0, 0))
    IN /\ Usable /\ ~compiling /\ Len(defs) < MaxDefs
       /\ table' = r.table
       /\ defs' = Append(defs, [name |-> n, own |-> 0, unit |-> 0, shndx |-> "abs", value |-> 0])
       /\ complaints' = IF r.twice THEN complaints \union {n} ELSE complaints
       /\ ended' = "no"
       /\ UNCHANGED <<refs, top, syms, unit, compiling, func>>

(* Mutant: the end of an object is its offset.                             *)
relocate_common_syms_flat(st) ==
    [i \in DOMAIN st |->
        IF st[i].shndx = "common"
        THEN [st[i] EXCEPT !.shndx = "bss", !.value = Cardinality({j \in 1 .. i - 1 : st[j].shndx = "common"})]
        ELSE st[i]]

(* data_offset of bss_section once the first i symbols have been seen.     *)
bss_offset(st) ==
    LET offset[i \in 0 .. Len(st)] ==
            IF i = 0 THEN top.bss
            ELSE offset[i - 1] + IF st[i].shndx = "common" THEN st[i].size ELSE 0
    IN offset

relocate_common_syms(st) ==
    [i \in DOMAIN st |->
        IF st[i].shndx = "common"
        THEN Symbol(st[i].name, st[i].bind, "bss", bss_offset(st)[i - 1], st[i].size) ELSE st[i]]

tcc_add_linker_symbols(t, bss) ==
    LET add(u, n, shndx, value) == add_elf_sym(u, Symbol(n, "global", shndx, value, 0)).table
    IN add(add(add(t, "_etext", "text", top.text), "_edata", "data", top.data), "_end", "bss", bss)

(* tcc_relocate: an undefined symbol is looked up in the process.          *)
tcc_relocate ==
    LET bss == bss_offset(table.symtab)[Len(table.symtab)]
        t == tcc_add_linker_symbols([table EXCEPT !.symtab = relocate_common_syms(@)], bss)
        missing == {i \in DOMAIN t.symtab : t.symtab[i].shndx = "undef" /\ t.symtab[i].name \notin Extern}
    IN /\ Usable /\ ~compiling
       /\ table' = t
       /\ top' = [top EXCEPT !.bss = bss]
       /\ ended' = IF missing = {} THEN "linked" ELSE "failed"
       /\ UNCHANGED <<refs, syms, unit, compiling, func, defs, complaints>>

(* sort_syms, of tcc_output_file: the local symbols first.  old_to_new     *)
(* goes to the relocations, and the hash table stays.                      *)
sort_syms ==
    LET st == table.symtab
        locals == DOMAIN st \ Global(st)
        old_to_new(i) == IF i \in locals THEN Cardinality({j \in locals : j <= i})
                         ELSE Cardinality(locals) + Cardinality({j \in Global(st) : j <= i})
        new_to_old(k) == CHOOSE i \in DOMAIN st : old_to_new(i) = k
    IN /\ table' = [table EXCEPT !.symtab = [k \in DOMAIN st |-> st[new_to_old(k)]]]
       /\ refs' = [r \in DOMAIN refs |-> [refs[r] EXCEPT !.sym = old_to_new(@)]]

output_file ==
    /\ Usable /\ ~compiling /\ unit > 0
    /\ sort_syms
    /\ ended' = "object"
    /\ UNCHANGED <<top, syms, unit, compiling, func, defs, complaints>>

Next ==
    \/ tcc_compile \/ end_compile \/ tcc_relocate \/ output_file
    \/ \E size \in CodeSize : end_function(size) \/ label_undefined(size)
    \/ \E n \in Names :
          \/ greloc(n) \/ tcc_add_symbol(n)
          \/ \E static \in BOOLEAN :
                external_sym(n, static) \/ gen_function(n, static)
                \/ initialized(n, static) \/ tentative(n, static)

Spec == Init /\ [][Next]_vars

---------------------------------------------------------------------------
st == table.symtab
Written == ended = "object"

(* Type invariant.                                                         *)
TypeOK ==
    /\ st \in Seq([name : Names \union Linker \union {"file"}, bind : {"local", "global"},
                   shndx : {"undef", "abs", "text", "data", "bss", "common"}, value : Nat, size : Nat])
    /\ Len(table.chain) = Len(st)
    /\ \A i \in DOMAIN st : table.chain[i] \in 0 .. i - 1
    /\ \A h \in DOMAIN table.buckets : table.buckets[h] \in 0 .. Len(st)
    /\ top \in [{"text", "data", "bss"} -> Nat]
    /\ \A n \in Names : Declared(n) => compiling /\ syms[n].c \in 0 .. Len(st)
    /\ \A n \in func : n \in Fn /\ compiling /\ syms[n].c \in DOMAIN st
    /\ \A r \in DOMAIN refs : refs[r].sym \in DOMAIN st
    /\ unit \in 0 .. MaxUnits /\ compiling \in BOOLEAN /\ complaints \subseteq Names

(* A global name is in the table once, and is found at that index, however *)
(* often the hash table has grown (find_elf_sym, rebuild_hash).            *)
Found == Written \/ \A i \in Global(st) : find_elf_sym(table, st[i].name) = i

(* Of the definitions of a name the one that counts: the first initialized *)
(* one, or the first if there is none.                                     *)
First(D) == defs[Min(D)]
Winner(D) == First(IF Strong(D) = {} THEN D ELSE Strong(D))

IsAt(s, d) ==
    IF d.shndx = "common" THEN s.shndx \in {"common", "bss"} /\ s.size = Size[d.name]
    ELSE s.shndx = d.shndx /\ s.value = d.value

(* A name that units share is where its first initialized definition is,   *)
(* in whichever order units declare, use and define it, or common; unless  *)
(* a second definition was reported ("defined twice", add_elf_sym), no     *)
(* other is initialized.  One that comes after a common symbol is reported *)
(* and lost.                                                               *)
AsDefined ==
    \A i \in Global(st) : st[i].name \in Names =>
        LET D == Defs(st[i].name, 0)
        IN IF D = {} THEN st[i].shndx = "undef"
           ELSE IF st[i].name \in complaints THEN IsAt(st[i], First(D)) \/ IsAt(st[i], Winner(D))
           ELSE IsAt(st[i], Winner(D)) /\ Cardinality(Strong(D)) <= 1

(* A reference goes to what its unit means: a static name to the symbol of *)
(* the unit that has the unit's definition, any other to the one symbol of *)
(* the name; whatever other units do, and after symbols are sorted for an  *)
(* object file, where local symbols come first (sort_syms).                *)
Meant ==
    /\ \A r \in Range(refs) :
          LET s == st[r.sym]
              D == Defs(r.name, r.own)
          IN /\ s.name = r.name
             /\ (s.bind = "global") = (r.own = 0)
             /\ r.own > 0 => IF D = {} THEN s.shndx = "undef" ELSE IsAt(s, Winner(D))
             /\ ended = "linked" /\ D = {} => r.name \in Extern
    /\ Written => \A i, j \in DOMAIN st : st[i].bind = "local" /\ st[j].bind # "local" => i < j

(* No two symbols share storage, also once common symbols have theirs      *)
(* (relocate_common_syms), whether or not errors have stopped functions in *)
(* their bodies.  The symbol of a function that was reported as defined    *)
(* twice has the size of the code that was not taken: only its place is    *)
(* its own.                                                                *)
End(s) == IF s.name \in complaints \intersect Fn THEN s.value ELSE s.value + s.size
Disjoint ==
    \A i, j \in DOMAIN st :
        i # j /\ st[i].shndx = st[j].shndx /\ st[i].shndx \in {"text", "data", "bss"} =>
            End(st[i]) <= st[j].value \/ End(st[j]) <= st[i].value
=============================================================================
