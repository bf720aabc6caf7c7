-------------------------------- MODULE Ubpf --------------------------------
(***************************************************************************)
(* Installing a program on a running switch: the agent's recv_install,     *)
(* the ELF loader that creates the program's tables and patches their      *)
(* numbers into its code, ubpf_load, ubpf_compile, and the publication of  *)
(* the compiled function to the dataplane thread, which tests the shared   *)
(* pointer for every packet and then calls through it.                     *)
(*                                                                         *)
(* Code is the record of the program it came from and of the table number  *)
(* patched in for each symbol.  The meta table of ubpf_create is the       *)
(* dictionary that HashTab implements.                                     *)
(***************************************************************************)
EXTENDS Integers, Sequences, FiniteSets

CONSTANTS
    Program,            \* the ELF files the controller may send
    Symbol,             \* the table symbols in their maps sections
    Name,               \* table names of at most 31 characters
    Trunc,              \* the name of a symbol, cut to 31 characters
    Tables,             \* the table symbols of a program, in symtab order
    TableDef,           \* the definition a program gives a table symbol
    Fault,              \* the check a program fails, or "none"
    MAX_MAPS,           \* slots of bpf_maps
    TABLE_MAX_ENTRIES,  \* entries the agent's list of tables has room for
    NULL, FREED, META, MaxOrphans

Slots == 0 .. MAX_MAPS - 1

ASSUME UbpfAssumption ==
    /\ Trunc \in [Symbol -> Name]
    /\ Tables \in [Program -> Seq(Symbol)]
    /\ MAX_MAPS \in Nat \ {0}
    /\ TABLE_MAX_ENTRIES \in Nat
    /\ MAX_MAPS <= TABLE_MAX_ENTRIES + 1
    /\ MaxOrphans \in Nat
    /\ Fault \in [Program -> {"none", "elf", "text", "code"}]
    /\ NULL # FREED
    /\ \A p \in Program : TableDef[p] \in [Symbol -> {TableDef[p][s] : s \in Symbol}]
    /\ \A p \in Program, s \in Symbol : TableDef[p][s] \notin {NULL, META}
    /\ META # NULL
    /\ NULL \notin [fd : Slots, def : {TableDef[p][s] : p \in Program, s \in Symbol}]

VARIABLES
    bpf_maps,   \* the definition of the map in each slot, or NULL
    tables,     \* the meta table: number and definition of each table
    insts,      \* vm->insts: code, NULL, or FREED (still set, but freed)
    jitted,     \* vm->jitted: code or NULL
    ubpf_fn,    \* the function pointer of the dataplane: code or NULL
    pc,         \* where the agent is in recv_install
    program,    \* the program it is installing
    todo,       \* the table symbols it has still to look at
    code,       \* text_copy, once it is relocated
    ebpfprog,   \* what ubpf_compile returned
    orphans,    \* history: slots whose map never got into the meta table
    dp          \* the dataplane thread: "idle" or "checked" (ubpf_fn # NULL)

registry == <<bpf_maps, tables, orphans>>
vm == <<insts, jitted>>
install == <<program, todo, code, ebpfprog>>
vars == <<registry, vm, ubpf_fn, pc, install, dp>>

CodeOf(p, fds) == [program |-> p, fd |-> fds]

\* ubpf_create takes the first slot for the meta table
Init ==
    /\ bpf_maps = [i \in Slots |-> IF i = 0 THEN META ELSE NULL]
    /\ tables = [n \in Name |-> NULL]
    /\ insts = NULL
    /\ jitted = NULL
    /\ ubpf_fn = NULL
    /\ pc = "idle"
    /\ program = NULL
    /\ todo = << >>
    /\ code = NULL
    /\ ebpfprog = NULL
    /\ orphans = {}
    /\ dp = "idle"
-----------------------------------------------------------------------------
(* The agent's thread: recv_install                                        *)

RecvInstall(p) ==
    /\ pc = "idle"
    /\ program' = p
    /\ IF Fault[p] = "elf"
       THEN pc' = "compile" /\ todo' = << >>
       ELSE pc' = "maps" /\ todo' = Tables[p]
    /\ code' = NULL
    /\ ebpfprog' = NULL
    /\ UNCHANGED <<registry, vm, ubpf_fn, dp>>

\* mutant: the slots that no table names are taken to be free
UnnamedSlots == {i \in Slots : \A n \in Name : tables[n] # NULL => tables[n].fd # i}

\* bpf_create_map: the lowest free slot
FreeSlots == {i \in Slots : bpf_maps[i] = NULL}
LowestFree == CHOOSE i \in FreeSlots : \A j \in FreeSlots : i <= j

\* mutant: the loader does not look whether the table exists
FindTableRecreates ==
    /\ pc = "maps" /\ todo # << >>
    /\ tables[Trunc[Head(todo)]] # NULL
    /\ FreeSlots # {}
    /\ LET def == TableDef[program][Head(todo)]
       IN /\ bpf_maps' = [bpf_maps EXCEPT ![LowestFree] = def]
          /\ tables' = [tables EXCEPT ![Trunc[Head(todo)]] = [fd |-> LowestFree, def |-> def]]
    /\ todo' = Tail(todo)
    /\ UNCHANGED <<vm, ubpf_fn, pc, program, code, ebpfprog, orphans, dp>>

\* the next table symbol names a table that exists: it is used as it is
FindTable ==
    /\ pc = "maps" /\ todo # << >>
    /\ tables[Trunc[Head(todo)]] # NULL
    /\ todo' = Tail(todo)
    /\ UNCHANGED <<registry, vm, ubpf_fn, pc, program, code, ebpfprog, dp>>

\* the next table symbol names none: create the map and enter it
CreateTable ==
    /\ pc = "maps" /\ todo # << >>
    /\ tables[Trunc[Head(todo)]] = NULL
    /\ FreeSlots # {}
    /\ LET def == TableDef[program][Head(todo)]
           fd == LowestFree
       IN /\ bpf_maps' = [bpf_maps EXCEPT ![fd] = def]
          /\ \/ /\ tables' = [tables EXCEPT ![Trunc[Head(todo)]] = [fd |-> fd, def |-> def]]
                /\ UNCHANGED orphans
             \/ \* bpf_update_elem finds no memory, and its result is dropped
                /\ Cardinality(orphans) < MaxOrphans
                /\ orphans' = orphans \cup {fd}
                /\ UNCHANGED tables
    /\ todo' = Tail(todo)
    /\ UNCHANGED <<vm, ubpf_fn, pc, program, code, ebpfprog, dp>>

\* mutant: the -1 of bpf_create_map is entered in the meta table
CreateTableUnchecked ==
    /\ pc = "maps" /\ todo # << >>
    /\ tables[Trunc[Head(todo)]] = NULL
    /\ tables' = [tables EXCEPT ![Trunc[Head(todo)]] =
                      [fd |-> -1, def |-> TableDef[program][Head(todo)]]]
    /\ todo' = Tail(todo)
    /\ UNCHANGED <<bpf_maps, orphans, vm, ubpf_fn, pc, program, code, ebpfprog, dp>>

\* bpf_create_map returns -1: no free slot, or no memory for the map
CreateTableFails ==
    /\ pc = "maps" /\ todo # << >>
    /\ tables[Trunc[Head(todo)]] = NULL
    /\ pc' = "compile"
    /\ UNCHANGED <<registry, vm, ubpf_fn, install, dp>>

\* the symbols of p that the loader finds a number for
Resolved(p) == {s \in {Tables[p][i] : i \in DOMAIN Tables[p]} : tables[Trunc[s]] # NULL}

\* the text section is found and every relocation in it is applied
Relocate ==
    /\ pc = "maps" /\ todo = << >>
    /\ Fault[program] # "text"
    /\ \A i \in DOMAIN Tables[program] : Tables[program][i] \in Resolved(program)
    /\ code' = CodeOf(program, [s \in Resolved(program) |-> tables[Trunc[s]].fd])
    /\ pc' = "load"
    /\ UNCHANGED <<registry, vm, ubpf_fn, program, todo, ebpfprog, dp>>

\* no text section, a bad relocation, or "cannot find map"
RelocateFails ==
    /\ pc = "maps" /\ todo = << >>
    /\ \/ Fault[program] = "text"
       \/ \E i \in DOMAIN Tables[program] : Tables[program][i] \notin Resolved(program)
    /\ pc' = "compile"
    /\ UNCHANGED <<registry, vm, ubpf_fn, install, dp>>

\* ubpf_load frees the old instructions before it looks at the new ones, and
\* sets the pointer again, to what malloc returns, only when these are good
Load ==
    /\ pc = "load"
    /\ insts # FREED
    /\ pc' = "compile"
    /\ IF Fault[program] = "code"  \* code_len, validate
       THEN insts' = IF insts = NULL THEN NULL ELSE FREED
       ELSE insts' \in {code, NULL}
    /\ UNCHANGED <<registry, jitted, ubpf_fn, install, dp>>

\* ubpf_load frees the same block a second time: the C library aborts, or the
\* block is text_copy's by now, and freeing text_copy frees the new insts, if
\* there are any
LoadAfterFree ==
    /\ pc = "load"
    /\ insts = FREED
    /\ \/ pc' = "aborted" /\ UNCHANGED insts
       \/ pc' = "compile" /\ insts' \in IF Fault[program] = "code" THEN {FREED} ELSE {FREED, NULL}
    /\ UNCHANGED <<registry, jitted, ubpf_fn, install, dp>>

\* ubpf_compile when there is a compiled program already
CompileCached ==
    /\ pc = "compile"
    /\ jitted # NULL
    /\ ebpfprog' = jitted
    /\ pc' = "publish"
    /\ UNCHANGED <<registry, vm, ubpf_fn, program, todo, code, dp>>

\* ubpf_compile when there is none: translate what insts points to, which
\* gives a function of no known program when that is freed memory
Compile ==
    /\ pc = "compile"
    /\ jitted = NULL
    /\ insts # NULL
    /\ jitted' = insts
    /\ ebpfprog' = insts
    /\ pc' = "publish"
    /\ UNCHANGED <<registry, insts, ubpf_fn, program, todo, code, dp>>

\* mutant: a failed translation is not covered by the program compiled before
CompileFailsAnyTime ==
    /\ pc = "compile"
    /\ ebpfprog' = NULL
    /\ pc' = "publish"
    /\ UNCHANGED <<registry, vm, ubpf_fn, program, todo, code, dp>>

\* nothing loaded, translate fails, or mmap or mprotect fail
CompileFails ==
    /\ pc = "compile"
    /\ jitted = NULL
    /\ ebpfprog' = NULL
    /\ pc' = "publish"
    /\ UNCHANGED <<registry, vm, ubpf_fn, program, todo, code, dp>>

Publish ==
    /\ pc = "publish"
    /\ ubpf_fn' = ebpfprog
    /\ pc' = "idle"
    /\ UNCHANGED <<registry, vm, install, dp>>
-----------------------------------------------------------------------------
(* The dataplane's thread: if (ubpf_fn != NULL) ... ubpf_fn(...)           *)

Check ==
    /\ pc # "aborted"
    /\ dp = "idle"
    /\ ubpf_fn # NULL
    /\ dp' = "checked"
    /\ UNCHANGED <<registry, vm, ubpf_fn, pc, install>>

CallProgram ==
    /\ pc # "aborted"
    /\ dp = "checked"
    /\ dp' = "idle"
    /\ UNCHANGED <<registry, vm, ubpf_fn, pc, install>>

Next ==
    \/ \E p \in Program : RecvInstall(p)
    \/ FindTable \/ CreateTable \/ CreateTableFails
    \/ Relocate \/ RelocateFails
    \/ Load \/ LoadAfterFree
    \/ CompileCached \/ Compile \/ CompileFails
    \/ Publish
    \/ Check \/ CallProgram

Spec == Init /\ [][Next]_vars
-----------------------------------------------------------------------------
(* Properties                                                              *)

Defs == {TableDef[p][s] : p \in Program, s \in Symbol}
Entry == [fd : Slots, def : Defs]
Code == [program : Program, fd : UNION {[S -> Slots] : S \in SUBSET Symbol}]

\* Every variable holds what its C type and its use allow.
TypeOK ==
    /\ bpf_maps \in [Slots -> Defs \cup {META, NULL}]
    /\ tables \in [Name -> Entry \cup {NULL}]
    /\ insts \in Code \cup {NULL, FREED}
    /\ jitted \in Code \cup {NULL, FREED}
    /\ ubpf_fn \in Code \cup {NULL, FREED}
    /\ pc \in {"idle", "maps", "load", "compile", "publish", "aborted"}
    /\ program \in Program \cup {NULL}
    /\ todo \in Seq(Symbol)
    /\ code \in Code \cup {NULL}
    /\ ebpfprog \in Code \cup {NULL, FREED}
    /\ orphans \subseteq Slots
    /\ dp \in {"idle", "checked"}

Entered == {n \in Name : tables[n] # NULL}

\* bpf_maps and the meta table agree after any sequence of installs, failed
\* ones too: slot 0 is the meta table's for ever; every entry points to a map
\* of its own, with the definition it states; and every other slot in use is
\* the leavings of an update that found no memory.
RegistrySound ==
    /\ bpf_maps[0] = META
    /\ \A n \in Entered : tables[n].fd # 0 /\ bpf_maps[tables[n].fd] = tables[n].def
    /\ \A m, n \in Entered : tables[m].fd = tables[n].fd => m = n
    /\ \A i \in Slots \ {0} :
          bpf_maps[i] # NULL <=> i \in orphans \/ \E n \in Entered : tables[n].fd = i
    /\ \A i \in orphans : \A n \in Entered : tables[n].fd # i

\* do all programs that use one table name define that table the same way?
SameDefs ==
    \A p, q \in Program, s, t \in Symbol :
        Trunc[s] = Trunc[t] => TableDef[p][s] = TableDef[q][t]

\* the numbers patched into c are those of the tables its symbols name
UsesItsTables(c) ==
    \A s \in DOMAIN c.fd :
        /\ tables[Trunc[s]] # NULL
        /\ c.fd[s] = tables[Trunc[s]].fd
        /\ SameDefs => bpf_maps[c.fd[s]] = TableDef[c.program][s]

\* Whatever was installed, or failed to install, since it was patched, the
\* code that is loaded, compiled or running still names its own tables by
\* number, and finds there maps of the sizes it was written for.
ProgramUsesItsTables ==
    \A c \in {insts, jitted, ubpf_fn} \ {NULL, FREED} : UsesItsTables(c)

\* The dataplane does not call through NULL: the pointer it tests and reads
\* again to call cannot have been cleared by an install that failed in
\* between (softswitch/main.c, 443 and 444; agent.c, 99 to 106).
NeverCallsNull == dp = "checked" => ubpf_fn # NULL

\* The reply of the agent's tables list request has room for all tables: the
\* slots run out before the TABLE_MAX_ENTRIES entries do (agent.c, 123).
TablesFitReply == Cardinality(Entered) <= TABLE_MAX_ENTRIES

\* A program that was loaded after another is the one that runs ("Allow
\* loading multi BPF programs", ubpf_vm.c, 109).
LoadedProgramRuns ==
    pc = "idle" /\ insts \notin {NULL, FREED} /\ ubpf_fn # NULL => ubpf_fn = insts
=============================================================================
