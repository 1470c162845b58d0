# TLA+ models of tcltcc

tcltcc is a Tcl extension that embeds the Tiny C Compiler: a Tcl command creates
a *handle*, sources are compiled into its sections, and the functions in them
become Tcl commands of the running process. The compiler (`src/generic/tcc.c`,
`tccelf.c`) is a one-pass C compiler written as a program that runs once and
exits. In the extension it lives for as long as the interpreter, is entered
again and again, serves several handles, and survives compile errors with
`longjmp`. What these modules study is the state that outlives a call: the
stacks, tables and sections that the next call, the next unit or another handle
will find.

Line numbers below refer to `src/generic/tcc.c` unless a file is named.

## 1. The parts of the system

Everything runs in one thread. There are no messages; the parts call each other
and share statics. "Hard" names what a test would hardly reach.

| Part | State | Operations | Hard | What makes it correct |
|---|---|---|---|---|
| Tcl commands and handles (`tcltcc.c`) | a `TCCState` per handle with output type, `relocated`, sections; the statics `text_section`, `symtab_section`... belong to the newest handle | create, compile, add_file, add_symbol, command, get_symbol, output_file, define, delete | several handles over one set of statics; relocation that fails and is tried again; code added after it | a Tcl command calls the code its handle compiled, relocated once, and keeps doing so |
| Macro definitions and token table | `table_ident`, `tok_ident`, `define_stack`, `sym_define` of every token: all static | tok_alloc, #define, #undef, free_defines, tcc_new, tcc_delete | errors in the middle of a #define; a new handle replaces the table and not the stack; deletion of any handle frees the macros of all | no token has a dead definition; a unit leaves no macro behind and touches no other |
| Identifiers, scopes, inline functions | `global_stack`, `local_stack`, `sym_identifier`, Sym pool | sym_push, sym_pop, global_identifier_push, gen_function, gen_inline_functions | a global pushed below the locals in the middle of a function; an error in a body; the fixed point over inline functions | a name means its innermost declaration; every inline function that is called is compiled |
| Labels | `global_label_stack`, `local_label_stack`, `sym_label`, chains of forward gotos | label_push, label_pop, goto, `&&label`, `__label__` | the same name at several levels; forward references across blocks; an error in `label_pop` itself | a goto reaches the label its block structure says; errors name labels that deserve them |
| Conditionals, #include, include cache | `file`, `include_stack`, `ifdef_stack`, flags, `cached_includes` | preprocess, preprocess_skip, end of file | skipping, nesting over files, the cache in a later unit, full stacks | the text compiled is that of a preprocessor without skipping and cache |
| Macro expansion, token stream | `macro_ptr`, unget buffer, token strings, the struct macro_level on the C stack | next, macro_subst, unget_tok, save and restore of the parse state | a call that ends in the text around its name; four kinds of string read through one pointer; errors inside an expansion | the parser gets the tokens C says, once and in order; nothing that was freed is read |
| Value stack, registers | `vstack`, `vtop`, the three registers of the machine | gv, gv2, save_reg, get_reg, gen_opl, vstore, gfunc_call | eviction of operands; values in the flags; branches that meet with different registers | no live value is lost; a store goes to its object |
| Jump chains, statements | chains through the code | gjmp, gtst, gsym_addr, break, continue, switch | chains merged and patched in nested statements and conditions | each jump is patched once with its target |
| ELF symbols (`tccelf.c`, `put_extern_sym2`) | symbol table with hash and buckets, relocations, `Sym.c` | put_elf_sym, add_elf_sym, rebuild_hash, gen_function, decl_initializer_alloc, relocate_common_syms, sort_syms | declarations, uses and definitions of several units in any order, through two ways to a symbol | the first initialized definition counts; a reference goes to what its unit means |
| 64-bit arithmetic (`gen_opl`, `gen_opic`, `libtcc1.c`) | none | add, multiply, shift, compare, divide | carries, the estimate of a quotient, constants | what C says, at compile time and at run time |
| Objects, archives, relocation, layout of output | sections, GOT | tcc_load_object_file, tcc_load_alacarte, relocate_section, tcc_output_file | | |
| Assembler, bounds checker, tcc.tcl | directives; tree of regions; table of commands | | | |

Interaction: a Tcl command calls `tcc_compile` (or `tcc_assemble`), which marks
the height of `define_stack`, parses until the end of the file or an error,
pops the macros of the unit, compiles the inline functions and pops
`global_stack`. The preprocessor feeds the parser; the parser pushes
identifiers and labels; `gen_function` writes code into the static
`text_section` and a symbol into the static `symtab_section`; `command`
relocates and looks the symbol up.

`PROJECT.json` lists all parts with what is and is not modelled, and the hazards
with their lines.

## 2. Modules

| Module | Models | Against |
|---|---|---|
| `MacroEnv` | the abstract promise of the macro table: a set of names, and a scope that undoes what it touched | |
| `DefineStack` | token table, define stack, handles, units, errors | implements `MacroEnv` |
| `SymStack` | identifiers, scopes, implicit declarations, inline functions | the scope rule, stated from the two stacks |
| `LabelStack` | labels, gotos, local labels | the block structure (`ScopeOf`), kept apart from the table |
| `Includes` | conditionals, include stack, cache | `EveryLine` |
| `EveryLine` | | a preprocessor with neither skipping nor cache, which goes over every line |
| `Handle` | the Tcl commands, sections, symbols, relocation | |
| `MacroSubst` | macro substitution, as functions on the state of `next` | in `MCTokenStream`, the expansion of the C standard |
| `TokenStream` | `next`, `unget_tok` and what is read in the place of the file; composes `MacroSubst` | the tokens the program means |
| `CodeGen` | the operations on `vstack` that generate code, as functions, with a machine that runs the code | |
| `ValueStack` | expressions: any order of the calls the parser makes; composes `CodeGen` | the value every entry stands for |
| `JumpChain` | statements, conditions and their jumps | the labels a structured program has |
| `ElfSymbols` | the symbol table, and what units, `add_symbol` and the linker do to it | the definitions of the program |
| `LongLong` | arithmetic in words | the operation on the numbers |
| `DefineStackProofs`, `HandleProofs`, `SymStackProofs`, `IncludesProofs`, `LabelStackProofs`, `JumpChainProofs`, `ElfSymbolsProofs` | the theorems about the module each is named after (section 4) | |
| `StackFacts` | lemmas for them: least and greatest numbers, counting, stacks of Syms | |
| `MC...` | instances for TLC | |

How state and actions correspond to the code:

* **DefineStack.** A Sym of `define_stack` is its position, so `sym_define` maps
  a name to a height. `TokAlloc` numbers a new name. `tcc_new` makes a new token
  table over the old stack; `Forget` and `tcc_delete` are the two outcomes of
  `TccCCommandDeleteProc`. `Open` is the beginning of `tcc_compile` or
  `tcc_assemble`; `EndOfFile` and `tcc_error` both end in `free_defines`
  (`Close`), or in `Exit` where no `setjmp` is in force. `parse_define`,
  `parse_param`, `define_push` are the three points of a #define an error can
  fall between; outside a unit they are the command `define`. `define_undef`
  leaves the Sym on the stack under no name.
* **SymStack.** Syms are addresses of a pool; `sym_push` and `sym_pop` are the
  functions of the code on `sym_identifier` and `prev_tok`.
  `declare`, `function`, `record_inline`, `begin_body`, `open_block`,
  `close_block`, `end_body` follow `decl`, `block` and `gen_function`;
  `reference` is a call that may declare its function implicitly, with
  `global_identifier_push`. `end_of_file` and `tcc_error` lead to
  `gen_inline`, `next_pass` and `finish`, the three parts of the loop of
  `gen_inline_functions`. `Exit` is an error where there is no `setjmp`.
  `Undefined` is entered where the code reads or frees what is not the tokens of a
  function, or a token means a Sym that is free.
* **LabelStack.** `refs` are the gotos and `&&label`s of a function in the order
  met; a forward one sits in the `chain` of its label (`Sym.next`) or refers to
  its symbol (`Sym.c`) until `define_label` or `label_pop` settles it. `unary` is
  `&&label`, which `take_address` reaches from a body and `init_putv` from an initializer
  outside a function; there the label waits (`mode` "waiting") for the next function.
  `label_undefined` is the error raised from within `label_pop`, after the newer
  Syms are freed and before the stack pointer moves. An error empties nothing:
  `Abandon` keeps the stacks.
* **Includes.** A step is a line. `Skip` is `preprocess_skip` with the branch
  it returns to; `else`, `elif`, `endif`, `do_if` work on the two bits of an
  entry of `ifdef_stack`. `include` looks in the cache, tests the stack, and
  pushes, in the order of the code, which differs for the two forms of
  #include. `PopInclude` and `EndOfFile` are the end of a file, with the cache
  entry. `Junk` is what `malloc` left in a field `tcc_open` does not set.
* **Handle.** `last` is the handle the statics belong to. A source defines one function
  and calls one. Its symbol is put before its body is compiled, where the section
  ends, and a body that is compiled to the end (`whole`) is a block there; after an error
  in the body the next block takes that place. `put_extern_sym2` asks the table for a
  symbol (`Define`), or writes over the one the source has already, if it has `used`
  the function before. A symbol records its section, its block and
  which section address has been added to it. `defs` is the history the properties
  compare with. `command` stands for `command` and
  `get_symbol`; `tcc_relocate_fails` for those that end in a link error, which
  has moved the symbols all the same.

* **MacroSubst, TokenStream.** `macro_ptr` is the string it points to and what is
  left of it (`Reading`); in a substitution `levels` are the structs macro_level,
  from the innermost text out, and `file` is behind them. `macro_subst_tok`
  reads a call, `macro_arg_subst` puts arguments in, `macro_twosharps` pastes, and
  `macro_subst_rest` is the loop of `macro_subst`, which goes on from the text in
  which the last call has ended. The parser is left open: it may advance,
  ask whether an identifier is a label (the one use of `unget_tok`), take a brace
  for an initializer of unknown size, which it reads twice, or for the body of an
  inline function, which is compiled at the end of the unit, and fail at
  any token. `allocated` and `twice` say whether the expansion `next` holds was
  freed; `n` is a ghost, the place of the token in what the program means. The
  modules are recursive, as the code is, and nothing is proved about them.
* **CodeGen, ValueStack.** An operator of `CodeGen` takes the state of the
  generator and gives the next one, and on the way runs the instruction it emits on
  a machine whose registers and slots hold terms. An entry of `vstack` also has
  the value the program means by it (`val`), which the code cannot see. `ValueStack`
  makes an action of each form of expression, in any order the grammar admits
  (`open` holds what is half parsed). At a branch the machine goes either way; while it
  waits for a jump to arrive (`wait`), what is emitted does not run. `Settle` numbers
  slots and chains anew after an action, names a computed value after the
  place it is in, and marks one that is not where its entry says as lost: what is
  found wrong in one state is not renamed into something right.
* **JumpChain.** The code is a sequence of instructions, and the address field of
  a jump holds the chain, as in the code; `Chain` walks it. `open` are the frames of
  `block` with its variables `a` to `d`. Ghosts: `place`, the address of each
  label the program has, `meant`, the label of a jump, and `writes`, how often its
  field was patched. A condition is generated as a whole: `expr_land`, `expr_lor`,
  `!` and `gtst` work on a value that is a flag or a pair of chains. `Settle` makes
  another instruction of a jump that has arrived where it should and drops labels nothing
  refers to.
* **ElfSymbols.** `table` is `symtab_section` with its buckets; `syms` are the Syms
  of the unit, with the index `c` of their symbol. `greloc` is a use of a name,
  `gen_function`, `initialized` and `tentative` are its definitions, which
  write to the symbol of `c` where there is one and ask the table otherwise.
  `gen_function` is the beginning of a function, whose symbol then has no size; `func`
  is the function until `end_function` moves the end of `.text` behind the code and
  writes the size to the symbol of `c`, whoever's that is, or `label_undefined` or
  `end_compile` is the error that stops it, after or before the end of `.text` has moved.
  `tcc_relocate` resolves what is undefined in the process, `output_file` sorts
  the symbols. The linker's `_etext`, `_edata` and `_end` are each at the end of a
  section of their own. `defs` is the history the properties compare with.
* **LongLong.** Words of `W` bits. `gen_opl` is the code for two long longs, the
  names with `__` are the functions of `libtcc1.c`, `gen_opic` decides between
  folding, a shift and general code. One action computes every operation on the
  operands, in variables and as constants.

The `... _something` operators before a definition marked *Mutant* are plausible
mistakes in the code; they are used by no specification. `PROJECT.json` pairs
each property with the mutant that breaks it, as evidence that the property
depends on the code.

## 3. Runs

The comment before a property in its module says what it rules out and which code
it is about.

**define_stack** (`TypeOK`, `DefinesLive`, `ParamsBelow`, `ParamsOwned`,
`OwnTable`, `UnitFrame`, `MacroEnvSpec`). One keyword, one standard define, one
name of the user, stack of 4, two handles. The stack has room for the defines of
two handles and a function-like macro above them, or for a macro redefined twice
in a unit: each way in which a Sym can be hidden, renamed, popped, or belong to an
older token table. Larger stacks are covered by the proofs. The run shows
that errors in a #define, deletions and new handles in any order leave no dangling
definition, and also that a `-D` symbol redefined in a unit is gone after it
(`UnitFrame` says so; the comment at 8548 of the code admits it).

**sym_stack** (`ScopeRule`, `BlockRestores`, `InlineCompiled`, `InlineShrinks`).
Two names, five Syms, three globals, one nested block. Two names are enough for one
to hide another, for an implicit declaration under a local of another name, and for
two inline functions where one calls the other, which needs a second pass.
`ScopeRule` and `BlockRestores` are stated while no failed body has left locals
behind (`residue = 0`); what happens afterwards is the first of the known
disagreements below.

**label_stack** (`RefsBound`, `Pooled`, `Verdict`). Two names, two blocks, three
references: a name declared by two nested blocks or by two blocks in a row and used
in and around them, forward and backward, and in initializers before the function.
Four Syms are enough for both names in both blocks, or for a name in the function
and both blocks beside the other; the proofs have any number. `MaxFunctions = 0`: the run ends at the
first error that leaves labels behind, and the properties are stated up to there
(`residue = 0`).

**includes** (`TypeOK`, `IfdefNested`, `Transparent`, `Accepted`, `Terminates`).
All headers of up to four lines out of ten kinds, ill-formed ones included, twice
included by two different main files, with a second header that is guarded or empty, in two
units; include stack 2 and ifdef stack 3, so that both limits are met. Four lines
hold a guard, a definition and one line of any kind in any order, or a nested
conditional. `Transparent` is claimed for the headers the cache is made for
(`Plain`: a guard without #else, and no #include in the last line or just before an #ifndef);
the known disagreements below show why each restriction is there. The reference reads up to
60 lines (`Steps`), more than any of these programs has; with 40 `Transparent` fails.

**handle** (`CommandsOwn`, `CommandsCurrent`). Two functions, two handles, two
definitions in all and one Tcl command made. The handles have output in memory or an
executable: a
library (`dll`) differs from an executable only in going on with the relocation after an
error, which adds `relocate_syms` steps the run already has from `tcc_relocate_fails`,
and an object (`obj`) only in that `output_file` changes nothing. `Extern = {}`: in
this run no function is found in the process. Two definitions are enough for a second
one of a function, by a source that has used it or not, for a failed body under the
next block, and for code added after the relocation; one command is enough
because the properties speak of single commands. Which definition counts is not the
first one only: a source that uses the function before it defines it takes the symbol
over (422), without a message, and `CommandsCurrent` says that a command goes stale in
that way and in no other. What they say of a handle's own table and of the addresses is
stated while every command has named the newest handle (`mixed`), the only use the
statics allow.

**value_stack** (`TypeOK`, `Held`, `Stored`, `TestsAndCallsRight`). Every
order of operands, casts, operators on int and long long, assignments and calls by name
(cdecl, fastcall, regparm) or through a pointer, without branches, with at most three
entries on the stack. The machine has three registers and two long longs need
four, so that every way of evicting a value is met, also between the two words of one
operand. A fourth entry adds nothing an
operation looks at: `gen_op` works on the two on the top, and what is below differs
only in being saved or not.

**value_branches** (`Held`, `SameOnAllWays`). The same with one `&&`, `||` or `?:`
open at a time around constants, comparisons, divisions (which claim `eax` and
`edx`), long additions, pointers and calls. Fewer kinds of operand, because
what a branch can spoil is the place of a value and not its kind; one branch, because a
second one is on the stack as the flag or jump the first one makes of it.

**jump_chain** (`TypeOK`, `Threaded`, `Arrives`, `TestsRight`). Two statements open, six
instructions: any statement within any other, with break, continue, return, cases
and else between their parts, and up to three jumps on a chain. `TestsRight`
does not depend on the code before a test and takes all conditions of up to three operators
on three operands and the constants 0 and 1.

**elf_symbols** (`TypeOK`, `Found`, `AsDefined`, `Meant`, `Disjoint`). Two functions,
one of which may be static, and a variable, two units, three definitions, one reference.
The hashes keep a function and the variable
in one bucket until the table has grown twice, which the symbols of the linker make
happen (`_etext`, `_edata`, `_end`). Two units and three definitions give a name
used before and after its definition in another unit, a static one beside a global one,
an initialized one after a common one and before it, a function refused by a second
unit with shorter or longer code between two others, and a body stopped by an error
below the next function. One reference is enough because `Meant` speaks of single ones.
Units agree on the size of a variable, as C asks; code has two sizes. A declaration within
a block (on `local_stack`) is left out.
`Disjoint` takes a function that was reported as defined twice for its place only: 8201
writes the size of the code that was refused to the symbol of the first definition,
which may then reach into what follows. No section is laid out by that size.

**long_long** (`Computes`, `SameWhenConstant`). All pairs of long longs of two words of
four bits, all operators, each operand in a variable or constant, for int and long
long. Four bits are enough for a divisor whose highest word must be shifted, an
estimate that is one too high, a shift count on both sides of the word, and
the lowest negative number.

**token_stream** (`Delivered`, `Live`). 1,650 programs of two or three macros, object-like,
with one, no, two or any number of parameters, that name, call, paste and stringize
each other and themselves, in sources with calls nested and cut off; and
labels, initializers and inline functions with macros in them. Two units of the same
program. `means` of a program is computed in `MCTokenStream` by an
expander that has neither `macro_ptr` nor nesting: each token carries the names
that must not replace it, under both readings the standard leaves open for a call that
ends behind the text its name is from; programs on which the two differ are
left out, as are those in which tcc is known to differ (below).

**token_left** (`OwnTokens`) is expected to fail. The comment on `tcc_compile` (8461)
says "compile the C file opened in 'file'. Return non zero if errors." After an error
inside the expansion of a macro the first token of the next source is the
rest of that expansion: `macro_ptr` is a static that neither `preprocess_init` nor the
path of `longjmp` resets. `Delivered` and `Live` are stated up to the first error.

`CHECK_DEADLOCK FALSE` stands in the configurations because the process may
really stop (`exit`, undefined behaviour), and because the bounds on counters
stop it where the code would go on.

**Fairness.** Only `Includes` has a liveness property, and its specification has
`WF_vars(Next)`: one thread that keeps executing, where the files are finite and
in memory. No fairness between actions is assumed; in a state of `Includes` the
code determines the step. That `gen_inline_functions` ends is shown as an action property
instead (`InlineShrinks`: no pass adds to what is left, and every function compiled
takes one away).

### Known disagreements

These are sentences of the repository, or of C, that the code does not keep. Each
is met by one of the models and kept out of the passing runs by a stated
restriction. The first seven are definitions: put the name in the place of the
properties of the run's configuration and TLC prints the behaviour
(`UndefinedFound`: with `MaxFunctions = 1`).

| Property | Sentence | What the code does |
|---|---|---|
| `FileScopeLasts` (sym_stack) | `libtcc.h:56`, "Return non zero if error" | after an error in a body `local_stack` is not emptied; the next unit declares its globals on it and loses them at the end of its first function |
| `TokensFreed` (sym_stack) | 8246, "free all remaining inline function tokens" | a static inline prototype that is never defined, and a function the source ends in, have no tokens: what is freed is another value |
| `UndefinedFound` (label_stack) | 1693, "Look if any labels are undefined" | a label of a failed function satisfies a goto of a later one |
| `NoNeed` (includes) | 2023, "no need to parse the include because the 'ifndef macro' is defined" | a header whose #ifndef has an #else is cached, and the text of the #else is lost in the second #include; so is the text around an #ifndef that follows the #include of an empty file, whose mark of the beginning of a file is still there |
| `RecursionStops` (includes) | 2049, "#include recursion too deep" | `#include "file"` found beside the including file does not reach the test |
| `EndifAtEnd` (includes) | 2146, "Now we check if an '#endif' is exactly at the end of file" | the mark of an #endif survives the end of an included file and marks the file that included it |
| `Frozen` (handle) | `tcltcc.c:133`, "code already relocated, cannot compile more" | add_file of a C source asks nothing |

The constant `Avoided` names forms that programs do without. Taking a name out of it
makes TLC show the behaviour.

| Name | Where | What the code does |
|---|---|---|
| `sizeof` (value_stack) | 7067, "parse an expression and return its type without any side effect" | a comparison under the operand is taken from the flags by `vsetc` (3597) while no code is emitted, and is lost |
| `stmt_expr` (value_stack) | 6444, "save all registers" | a comparison that is in the flags is not in a register; the statements overwrite it |
| `shift` (value_stack) | 3822–3824, "VERY IMPORTANT to start from the bottom to ensure that we don't spill registers used in gen_opi()" | an unsigned long long cast to int keeps its second register; when it has become a flag it takes the register of a shift's operand |
| `used` (elf_symbols) | `tccelf.c:232`, "'%s' defined twice" | a unit that has used a name of another one and then defines it writes over that symbol (422); nothing is reported (`Handle` has this in its run) |
| `redefined` (elf_symbols) | 8029–8031, "It is incorrect to initialized it twice" | a second definition in a unit takes the place of the first |
| `tentative` (elf_symbols) | 8076–8080, "put a common area" | the symbol that is made a common one may be another unit's initialized one |
| `static` (elf_symbols) | C: a function declared static stays static | the definition's type replaces the declared one, but the symbol may exist already |
| `output` (elf_symbols) | `tccelf.c:324`, "Since TCC cannot sort it while generating the code" | after the sort the hash table is that of the old order; a unit compiled later finds other symbols |
| `unsigned` (long_long) | 4485–4486 | an unsigned int constant is extended by its sign, so a division, remainder or right shift folded with it differs from the same one on variables |

Four more are in the passing runs, whose properties are stated with them:

* `void *p = &&x;` outside a function is accepted and pushes `x` on
  `global_label_stack` (6565-6587). The next function, of this unit or a later one, is then
  told that "label 'x' used but not defined" although it has no reference to it, or, if it
  has a label of that name, `p` is that one. `Verdict` and `Pooled` of `LabelStack` say so.
* A body stopped by an error leaves the symbol of its function where the next function goes.
  A command for the first then calls the second (`whole` in `CommandsOwn`); relocations of
  the stopped body are applied to the code that takes its place.
* The size of a second definition that was refused is written to the first (`End` in
  `Disjoint`).
* A source that uses a function and then defines it moves the symbol of a command that
  Tcl has (`Later` in `CommandsCurrent`).

With `Calls <- PointerCall` value_stack shows that a regparm function called
through a pointer loses an argument: `gfunc_call` pops the arguments into their registers
(`i386-gen.c:400-405`), and `gcall_or_jmp` (302-322) then loads the pointer into the
first free register, `eax`, over the first argument; `tcc-doc.html:619` documents regparm
without an exception.

`generic/README:22` says "Full C preprocessor included". `MCTokenStream` leaves out the
programs in which `macro_subst` does something else than C: a name that is
hidden in an argument that is substituted beforehand, or a call that begins in an
argument and ends behind it; a call that ends in the text around its name, with a
hidden name in its arguments or in the rest of that text; a body whose `##` follows an
empty first operand. Three more things were met while translating and are in
`TokenStream` or kept out of its programs: a call without `)` in a body loops
for ever (`hang`); `unget_tok` writes no flags word, so that a wide number after an
identifier that might be a label is garbled, and a string there ends the unit;
`restore_parse_state` (8109) drops what an initializer read twice has between its
`}` and the `;`.

## 4. Proofs

The theorems hold for every value of the constants that the module's assumption
admits: any number of names, Syms, handles, blocks, lines, units, any hash function and
any program. TLC checks the same formulas on the small instances of section 3. The seven
proof modules share one layout: `IInv` is the inductive invariant, a conjunction of named
parts; `Init` has it; one lemma per action shows that the action keeps it; `Invariance`
puts these together; and each property of a run follows from `IInv` (an invariant) or
from `IInv` and the step (an action property).

| Module | Theorem | Property |
|---|---|---|
| `DefineStackProofs` | `TypeCorrect`, `NoDanglingDefine`, `ParametersBelow`, `ParametersOwned`, `DefinitionsOfOwnTable` | `TypeOK`, `DefinesLive`, `ParamsBelow`, `ParamsOwned`, `OwnTable` |
| | `UnitFrameTheorem`, `Refinement` | `UnitFrame`, `MacroEnvSpec` |
| `SymStackProofs` | `ScopeRuleHolds` | `ScopeRule` |
| | `BlocksRestore`, `InlineAllCompiled`, `InlineTerminates` | `BlockRestores`, `InlineCompiled`, `InlineShrinks` |
| `LabelStackProofs` | `LabelsBound`, `PoolKept`, `VerdictsRight` | `RefsBound`, `Pooled`, `Verdict` |
| `IncludesProofs` | `TypeCorrect`, `ConditionalsNest`, `WellFormedAccepted` | `TypeOK`, `IfdefNested`, `Accepted` |
| | `TextTransparent` | `Transparent` |
| `JumpChainProofs` | `TypeCorrect`, `JumpsThreaded`, `JumpsArrive`, `TestsDecide` | `TypeOK`, `Threaded`, `Arrives`, `TestsRight` |
| `HandleProofs` | `CommandsCallTheirOwn`, `CommandsStayCurrent` | `CommandsOwn`, `CommandsCurrent` |
| `ElfSymbolsProofs` | `TypeCorrect`, `HashFinds`, `StorageDisjoint` | `TypeOK`, `Found`, `Disjoint` |
| | `DefinitionsCount`, `ReferencesMeant` | `AsDefined`, `Meant` |

### DefineStack

The only assumption is `DefineAssumption`: the constants are naturals, the dummies
are among the keywords and the token table has room for keywords and standard
defines.

`DefinesLive` is not inductive: that a name's newest definition is above its older
ones does not say what is left of it when a unit ends. `IInv` adds

* `OwnTable`, so that `tcc_new` may forget old definitions by their height;
* `DefiningOK`, what is known of a #define that is half read;
* `StackParams`, `ParamsBelow` for every Sym of the stack, reachable or not;
* `UnitSoFar`, the state of the open unit: what it pushed is above
  `define_start` and in `defined`, a touched name has no definition from
  below, an untouched one has the one it had at the start, from below.

Besides the lemmas for the actions there are lemmas about pushing, popping and
concatenating sequences of Syms, and two that carry the
argument: `FreeDefinesFacts` (popping by names removes exactly the definitions
above the height) and `CloseFacts` (with `UnitSoFar`, the end of a unit
gives every untouched name its old definition back). `Refinement` uses both: a step
maps to a step of `MacroEnv` or leaves its variables as they are. `ParamsOwned` is
about Syms that `IInv` knows nothing of; it is inductive together with the same for the
macro that is half read (`OwnedInv`).

### SymStack

`IInv` is `TypeOK`, `Allocated`, `Nested`, `Phase` and `ScopeInv`. The code never looks
at the stack to resolve a name: it follows `sym_identifier` and `prev_tok`. So `ScopeRule`,
which speaks of the present, says nothing of the name a `sym_pop` uncovers. `ScopeInv`
says that each Sym's `prev_tok` is the next older Sym of its name (`IsScope` of
`StackFacts`) and that below every open block each name still means what it meant when the block
began, or the global pushed below it since (`global_identifier_push` inserts in the middle of
the chain). `Allocated` is that no Sym is on the stacks twice or both there and free;
`Nested` orders the blocks; `Phase` says how far `gen_inline_functions` has come, without
which the last, empty pass would not show that everything was compiled.
`ScopeInv` is stated while `residue = 0`, as `ScopeRule` is: after an error in a body it is
false (the first of the known disagreements).

### LabelStack

`IInv` is `TypeOK`, `Nested`, `LabelInv`, `Quiet` and `FileScope`. `FileScope` says which labels
wait outside a function: one for every name an initializer takes the address of. `LabelInv`
relates three things the code keeps apart: the stacks and the chains through `sym_label`
(`Allocated`, `IsScope`), the blocks of the program (`Owned`: which block has declared the label
at a height), and the forward gotos (`Contents`: what waits in the chain of a label, or refers
to its symbol, names that label; `Bound`: a goto is bound, or waits with exactly one label on
the stacks). `Verdict` needs in addition `Defs`, the history of the definitions: `label_pop`
reports a label as undefined that the function has not defined. A label that a block declares
twice (`Hidden`) is the exception the parts have to make for one another.

### Includes

`IInv` is `TypeOK`, `IfdefNested` and `Included`: only the file at the bottom of
`include_stack` is not a header, which `TypeOK` needs when the end of a file puts its
name in the cache. The lines are any sequences, ill-formed ones included;
`IncludeAssumption` asks for one unit at least; the stacks may have any size.

`Accepted` is about well-formed files. The code keeps no record of which line an entry of
`ifdef_stack` is from; the proof makes one. `Matched` says of the lines before a position of a
file that every conditional that is open there has been opened by a line of the file, of which
the entry tells whether there has been an #else, and `Frame` is this for the file
that is read and those that include it, each with its part of `ifdef_stack` (from `Base(i)` to
`Base(i + 1)`). `NInv` (`Framed`) is kept by the lines and by `Skip`, where the argument
is that `preprocess_skip` stops on the level of the branch (`SkipArrives`): levels are counted,
with lemmas on counting in place of induction. With `Frame` no #else, #elif or #endif finds
the stack at its file's bottom, nor an #else another one, and `Skip` finds a line to stop at.

`TextTransparent` is about files that are well formed and headers that are plain (`Good`). It
assumes `Steps = Nat`: the reference may read any number of lines, where the run has a bound.
It takes two more invariants:

* `GInv` (`Marks`): what the marks of a file say of its lines. `ifndef_macro` of a header is the
  macro of an #ifndef in line 1 that is still open (`GuardOpen`), and the flag ENDIF at the end of
  the header means that its last line closed it (`GuardClosed`); therefore every entry of the cache
  is `Guarded`, and the macro put into it is never what malloc left (`Junk`). The flags survive
  the end of an included file, so that both may be said wrongly behind an #include
  (`BehindInclude`); there `Plain` is needed, and only there and for the #else of a guard.
* `CInv` (`Follows`): the reference, some number of lines after its beginning, is in the same
  file at the same line behind the same includes, with the same macros and text. It knows the
  conditionals of every file being read as that file's part of `ifdef_stack`, as to whether a
  branch was taken; all branches are on but for the last where `preprocess_skip` has arrived.

One step of the program is many of the reference: those through a branch that is off (`SkipRun`:
what opens there is off too, and the levels of `SkipArrives` say that it ends where the program
does), and those through a header that is skipped (`GuardRun`, from `Guarded`). The states of the
reference are a function on the lines read so far (`Way`), which `ReferenceIs` shows to be
the recursive one.

### JumpChain

`IInv` is `Threads` (the jumps of each chain wait, lead down and mean its label, and a jump on no
chain has arrived), `Nested` (the open statements, with the addresses and chains of their kind, each
label of one statement or of the function) and the bounds. `Threaded` and `Arrives` are stated from
it. The parts need each other: patching a chain writes to the field through which another jump
would be found, if two chains had a jump in common, and it is `Nested` that gives each chain one
label, and so keeps chains apart. There is a lemma for each thing a statement does with
chains (`JumpThreads`, `BackThreads`, `GsymThreads`, `MissedThreads`), one per statement, and one for
`Settle`, which renumbers labels (`SettleKeeps`).

A condition is generated by folding `gtst` over operands. What a fold keeps is stated once
(`Iterates`), with the least operand for which it fails; `CombinedFresh`, `ShallowFresh` and
`gexprFresh` say with it that the code made for a condition is new, with one chain of new
jumps, and leaves the old code alone. `TestsRight` needs more: `Decides` says of a piece of code that,
run from its beginning, it leaves by its chain just when a condition holds and goes on behind it
otherwise, `Composed` puts two pieces together, and `FoldMeans`, `NotMeans` carry this through
`&&`, `||` and `!`, in which a chain that goes the other way is patched to the end of the test.
`JumpAssumption` has conditions of up to two operators within each other, with any number of operands:
`gexpr` calls itself for an operand, which cannot be written without recursion for any depth.

### Handle

`IInv` is `TypeOK`, `DefsOK`, `SymbolsOK`, `RelocatedOnce` and `GivenOK`. `DefsOK` says where
the code of each definition is; `SymbolsOK`, that a symbol of the table is that of the
definition that counts (`Counts`) among all given so far, so that one more definition either
takes the symbol over or leaves it; `GivenOK` has the two properties for every command made.
`RelocatedOnce` is the part that is easy to get wrong: relocation adds the
section's address to the symbols, an attempt that fails has added it too, and the code asks
`relocated` only. That the address is added once holds because a failed attempt leaves
the linker's symbols behind (`linked`), after which no attempt succeeds.

### ElfSymbols

Type, hash table and storage come first. `IInv` is `Laid` (the chains of the table lead
down; things that are kept have their storage to themselves, below the end of their section),
`Units` and `Refs` (a Sym and a relocation hold the index of a symbol), `Called` (that of
a Sym has its name), `Open` (while a body is compiled its symbol is at the end of `.text`, unless
the function was reported as defined twice, `Refused`), and `Fresh`: until
an object file is written, every global symbol is in the chain of its bucket (`Hashed`), once
(`Once`). The argument for `Hashed` goes through `rebuild_hash`, which relinks all symbols in the
order of their indices. `sort_syms` moves the symbols and leaves the hash table, so
`HashFinds` assumes that a program ends with the object file (`"output" \in Avoided`, as in
the run); `StorageDisjoint` and `TypeCorrect` assume nothing.

`AsDefined` and `Meant` are about two ways to one symbol. A unit reaches a name by the index `c`
of its Sym, and asks the table only while `c` is 0; another unit comes in between. Neither
property says that the two ways agree, so neither is inductive. The proof calls *home* of a
thing (a name as a unit means it) the symbol its Sym, a relocation or the table has for it.
`Linked` then says that a home is where the definitions of the thing so far put it
(`HomesRight`, with `RightIn`, the rule of `add_elf_sym` stated from the history), that a thing
has one home and no other thing has it (`HomesApart`), that what is defined has one
(`HomesThere`, `HomesOfUnit`), and what a Sym tells of the definitions of its unit (`DefsKept`,
`SymsKept`). A step gives at most one thing a home or another place (`HomesStep`, which all
actions of a unit use); the linker moves common symbols to `.bss` and the end of a body changes
a size (`HomesFrame`, with `Stays`), and `sort_syms` moves the symbols and the relocations by
the same permutation (`Moved`). `DefinitionsCount` and `ReferencesMeant` assume `Avoided =
Oddities`: with any form taken out of `Avoided` TLC shows a behaviour that breaks one of them,
and these are the known disagreements of section 3. They also assume that a program does not
define the linker's names. That is a restriction: with a C function `_end` the linker's
definition would be reported.

### What stays with TLC

* Liveness needs fairness and ENABLED, which the prover does not have: `Terminates`.
  What makes `gen_inline_functions` end is proved as an action property (`InlineTerminates`).
* `Delivered` and `Live` compare a program with a reference that is
  recursive over data (the expander of `MCTokenStream`);
  recursive operators and induction over data are out of the prover's reach.
  Where a proof needs an order argument it takes the least counterexample (`LeastNat` of
  `StackFacts`, from the library's well-founded induction), which also serves for the
  recursive functions that walk chains.
* `Held`, `Stored`, `TestsAndCallsRight`, `SameOnAllWays` (`ValueStack`) and
  `Computes`, `SameWhenConstant` (`LongLong`) compare code that was generated with what it
  computes, over terms of unbounded size or words of a fixed width.

## 5. What is abstracted or left out

* Text: names, expressions, types and messages; macro bodies in
  `DefineStack` (they are in `MacroSubst`). Conditions of #if are those of #ifdef and
  #ifndef; an #elif tests a macro.
* The lexer; pasting of numbers and operators, spaces in strings made by `#`,
  `__LINE__` and the like; a directive between the arguments of a call.
* Floats, structures, bit fields and narrow integers in `CodeGen`; type checking;
  designators. Struct tags (`sym_struct`) follow the stacks of `SymStack` in the code
  and are not in the module.
* #include_next, computed #include, #line, #error, #pragma.
* Object files, archives and shared libraries: `load_data` (`tccelf.c:1772`) copies a
  file into memory of Tcl and returns other memory, which was never written, so
  that nothing can be said of what follows. Weak and hidden symbols come from these
  files only. The layout of output files and the words of single relocations
  are data.
* The Tcl library (`tcc.tcl`) and the assembler's directives: in the plan.
* `exit` and undefined behaviour are final states.
* The bounds checker is not linked into the extension; ARM, C67 and IL back ends
  are not built by it. The vendored demo (expat, tdom) and headers are most of the
  lines of the repository and no part of the program.

## 6. Plan

In order:

1. `Session`: commands over `DefineStack`, `SymStack`, `LabelStack` and
   `TokenStream` together, so that an error in one source meets the next in all of them;
   `Handle` takes its symbols from `ElfSymbols`.
2. `Registry` for `tcc.tcl`, where a handle's commands are found by a name prefix.
3. Structures and narrow integers in `CodeGen`; directives of the assembler.

The project is to stay at about a dozen runs: a new module takes the place of one, or
joins the run of the module it composes.

Proofs, in order: `TypeOK` of `ValueStack`; and of `Session`, from the `IInv` of the modules it composes.
