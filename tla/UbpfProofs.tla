----------------------------- MODULE UbpfProofs -----------------------------
(***************************************************************************)
(* Proofs about Ubpf for any programs, symbols, names, numbers of slots    *)
(* and faults: after any sequence of installs the registry and the meta    *)
(* table agree, code finds its own tables, the dataplane does not call     *)
(* through NULL, and the list of tables has room.                          *)
(***************************************************************************)
EXTENDS Ubpf, FiniteSetTheorems, WellFoundedInduction, TLAPS

USE UbpfAssumption

\* the definition of a table is one that some program gave its name
DefsGiven ==
    \A n \in Entered : \E p \in Program, s \in Symbol :
        Trunc[s] = n /\ tables[n].def = TableDef[p][s]

\* the numbers patched into c are those of the tables its symbols name
Patched(c) ==
    \A s \in DOMAIN c.fd : tables[Trunc[s]] # NULL /\ c.fd[s] = tables[Trunc[s]].fd

CodePatched ==
    \A c \in {insts, jitted, ubpf_fn, ebpfprog, code} \ {NULL, FREED} : c \in Code => Patched(c)

\* the program being installed, and its code once relocated, are real
InstallReal ==
    /\ pc \in {"maps", "load"} => program \in Program
    /\ pc = "load" => code \in Code

\* Once there is a compiled program there always is, and what is about to be
\* published is that program.
Compiled ==
    /\ ubpf_fn # NULL => jitted # NULL
    /\ pc = "publish" => ebpfprog = jitted
    /\ NeverCallsNull

Inv ==
    /\ TypeOK
    /\ RegistrySound
    /\ DefsGiven
    /\ CodePatched
    /\ InstallReal
    /\ Compiled
-----------------------------------------------------------------------------
(* The slots                                                               *)

\* There is a slot for the meta table.
LEMMA ZeroSlot == 0 \in Slots
BY DEF Slots

\* Of the free slots, if there are any, one is the lowest.
LEMMA LowestFreeIsFree ==
    ASSUME FreeSlots # {}
    PROVE  LowestFree \in FreeSlots
<1>1. FreeSlots \subseteq Nat
  BY DEF FreeSlots, Slots
<1>2. PICK i \in FreeSlots : \A j \in FreeSlots : ~ (<<j, i>> \in OpToRel(<, Nat))
  BY <1>1, NatLessThanWellFounded, WFMin
<1>3. \A j \in FreeSlots : i <= j
  <2> SUFFICES ASSUME NEW j \in FreeSlots, j < i
               PROVE  FALSE
    BY <1>1
  <2>1. <<j, i>> \in Nat \X Nat
    BY <1>1
  <2>2. <<j, i>> \in OpToRel(<, Nat)
    BY <2>1 DEF OpToRel
  <2> QED
    BY <1>2, <2>2
<1> QED
  BY <1>2, <1>3 DEF LowestFree

\* The slot that bpf_create_map takes is no table's, and not slot 0.
LEMMA LowestFreeUnused ==
    ASSUME Inv, FreeSlots # {}
    PROVE  /\ LowestFree \in Slots \ {0}
           /\ bpf_maps[LowestFree] = NULL
           /\ LowestFree \notin orphans
           /\ \A n \in Entered : tables[n].fd # LowestFree
<1>1. LowestFree \in Slots /\ bpf_maps[LowestFree] = NULL
  BY LowestFreeIsFree DEF FreeSlots
<1>2. LowestFree # 0
  BY <1>1 DEF Inv, RegistrySound
<1> QED
  BY <1>1, <1>2 DEF Inv, RegistrySound
-----------------------------------------------------------------------------
(* The invariant is inductive                                              *)

\* Slot 0 is the meta table's from the start, and nothing is installed.
LEMMA InitInv == Init => Inv
<1> SUFFICES ASSUME Init
             PROVE  Inv
  OBVIOUS
<1> USE DEF Init
<1>1. TypeOK
  BY DEF TypeOK, Slots
<1>2. Entered = {}
  BY DEF Entered
<1>3. RegistrySound
  BY <1>2 DEF RegistrySound, Slots
<1>4. DefsGiven /\ InstallReal /\ Compiled
  BY <1>2 DEF DefsGiven, InstallReal, Compiled, NeverCallsNull
<1>5. CodePatched
  BY DEF CodePatched
<1> QED
  BY <1>1, <1>3, <1>4, <1>5 DEF Inv

\* A step that leaves registry and meta table alone keeps them sound.
LEMMA RegistryKept ==
    ASSUME Inv, UNCHANGED registry
    PROVE  RegistrySound' /\ DefsGiven' /\ \A c : Patched(c) => Patched(c)'
BY DEF Inv, registry, RegistrySound, DefsGiven, Entered, Patched

\* The symbols of a program that is being installed are symbols.
LEMMA TodoTyped ==
    ASSUME Inv, todo # << >>
    PROVE  /\ Head(todo) \in Symbol
           /\ Trunc[Head(todo)] \in Name
           /\ Tail(todo) \in Seq(Symbol)
BY DEF Inv, TypeOK

\* A new table gets a slot of its own, or leaves an orphan in one.
LEMMA CreateTableKeeps ==
    ASSUME Inv, CreateTable
    PROVE  Inv'
<1> DEFINE n == Trunc[Head(todo)]
           def == TableDef[program][Head(todo)]
           fd == LowestFree
<1>1. /\ pc = "maps"
      /\ todo # << >>
      /\ tables[n] = NULL
      /\ FreeSlots # {}
      /\ bpf_maps' = [bpf_maps EXCEPT ![fd] = def]
      /\ todo' = Tail(todo)
      /\ UNCHANGED <<insts, jitted, ubpf_fn, pc, program, code, ebpfprog, dp>>
  BY DEF CreateTable, vm
<1>2. \/ tables' = [tables EXCEPT ![n] = [fd |-> fd, def |-> def]] /\ orphans' = orphans
      \/ orphans' = orphans \cup {fd} /\ tables' = tables
  BY DEF CreateTable
<1>3. program \in Program /\ Head(todo) \in Symbol /\ n \in Name /\ Tail(todo) \in Seq(Symbol)
  BY <1>1, TodoTyped DEF Inv, InstallReal
<1>4. def \in Defs /\ def # NULL /\ def # META
  BY <1>3 DEF Defs
<1>5. /\ fd \in Slots \ {0}
      /\ bpf_maps[fd] = NULL
      /\ fd \notin orphans
      /\ \A m \in Entered : tables[m].fd # fd
  BY <1>1, LowestFreeUnused
<1>6. /\ bpf_maps \in [Slots -> Defs \cup {META, NULL}]
      /\ tables \in [Name -> Entry \cup {NULL}]
      /\ orphans \subseteq Slots
  BY DEF Inv, TypeOK
<1>7. [fd |-> fd, def |-> def] \in Entry
  BY <1>4, <1>5 DEF Entry
<1> HIDE DEF n, def, fd
<1>8. TypeOK'
  <2>1. bpf_maps' \in [Slots -> Defs \cup {META, NULL}]
    BY <1>1, <1>4, <1>6
  <2>2. tables' \in [Name -> Entry \cup {NULL}]
    BY <1>2, <1>6, <1>7
  <2>3. orphans' \subseteq Slots
    BY <1>2, <1>5, <1>6
  <2> QED
    BY <1>1, <1>3, <2>1, <2>2, <2>3 DEF Inv, TypeOK
<1>9. \A m \in Name : m # n => tables'[m] = tables[m]
  BY <1>2, <1>6
<1>10. \A i \in Slots : bpf_maps'[i] = IF i = fd THEN def ELSE bpf_maps[i]
  BY <1>1, <1>6
<1>11. RegistrySound'
  <2>1. CASE tables' = [tables EXCEPT ![n] = [fd |-> fd, def |-> def]] /\ orphans' = orphans
    <3>1. tables'[n] = [fd |-> fd, def |-> def] /\ tables'[n] # NULL
      BY <1>3, <1>6, <1>7, <2>1 DEF Entry, Defs
    <3>2. Entered' = Entered \cup {n}
      BY <1>3, <1>9, <3>1 DEF Entered
    <3>3. n \notin Entered
      BY <1>1 DEF Entered, n
    <3>4. \A m \in Entered : /\ m # n
                             /\ tables'[m] = tables[m]
                             /\ tables[m].fd \in Slots
                             /\ tables[m].fd # fd
      BY <1>5, <1>6, <1>9, <3>3 DEF Entered, Entry
    <3>5. /\ bpf_maps'[0] = META
          /\ \A m \in Entered' : tables'[m].fd # 0 /\ bpf_maps'[tables'[m].fd] = tables'[m].def
      <4>1. bpf_maps'[0] = META
        BY <1>5, <1>10, ZeroSlot DEF Inv, RegistrySound
      <4>2. \A m \in Entered : tables'[m].fd # 0 /\ bpf_maps'[tables'[m].fd] = tables'[m].def
        BY <1>10, <3>4 DEF Inv, RegistrySound
      <4>3. tables'[n].fd # 0 /\ bpf_maps'[tables'[n].fd] = tables'[n].def
        BY <1>5, <1>10, <3>1
      <4> QED
        BY <3>2, <4>1, <4>2, <4>3
    <3>6. \A l, m \in Entered' : tables'[l].fd = tables'[m].fd => l = m
      BY <3>1, <3>2, <3>4 DEF Inv, RegistrySound
    <3>7. \A i \in Slots \ {0} :
             bpf_maps'[i] # NULL <=> i \in orphans' \/ \E m \in Entered' : tables'[m].fd = i
      BY <1>4, <1>10, <2>1, <3>1, <3>2, <3>4 DEF Inv, RegistrySound
    <3>8. \A i \in orphans' : \A m \in Entered' : tables'[m].fd # i
      BY <1>5, <2>1, <3>1, <3>2, <3>4 DEF Inv, RegistrySound
    <3> QED
      BY <3>5, <3>6, <3>7, <3>8 DEF RegistrySound
  <2>2. CASE orphans' = orphans \cup {fd} /\ tables' = tables
    <3>1. Entered' = Entered
      BY <2>2 DEF Entered
    <3>2. \A m \in Entered : tables[m].fd \in Slots /\ tables[m].fd # fd
      BY <1>5, <1>6 DEF Entered, Entry
    <3>3. bpf_maps'[0] = META
      BY <1>5, <1>10, ZeroSlot DEF Inv, RegistrySound
    <3>4. \A m \in Entered' : tables'[m].fd # 0 /\ bpf_maps'[tables'[m].fd] = tables'[m].def
      BY <1>10, <2>2, <3>1, <3>2 DEF Inv, RegistrySound
    <3>5. \A l, m \in Entered' : tables'[l].fd = tables'[m].fd => l = m
      BY <2>2, <3>1 DEF Inv, RegistrySound
    <3>6. \A i \in Slots \ {0} :
             bpf_maps'[i] # NULL <=> i \in orphans' \/ \E m \in Entered' : tables'[m].fd = i
      BY <1>4, <1>10, <2>2, <3>1 DEF Inv, RegistrySound
    <3>7. \A i \in orphans' : \A m \in Entered' : tables'[m].fd # i
      BY <2>2, <3>1, <3>2 DEF Inv, RegistrySound
    <3> QED
      BY <3>3, <3>4, <3>5, <3>6, <3>7 DEF RegistrySound
  <2> QED
    BY <1>2, <2>1, <2>2
<1>12. DefsGiven'
  <2> SUFFICES ASSUME NEW m \in Entered'
               PROVE  \E p \in Program, s \in Symbol :
                          Trunc[s] = m /\ tables'[m].def = TableDef[p][s]
    BY DEF DefsGiven
  <2>1. CASE m = n /\ tables' = [tables EXCEPT ![n] = [fd |-> fd, def |-> def]]
    BY <1>3, <1>6, <2>1 DEF n, def
  <2>2. CASE ~(m = n /\ tables' = [tables EXCEPT ![n] = [fd |-> fd, def |-> def]])
    <3>1. m \in Entered /\ tables'[m] = tables[m]
      BY <1>2, <1>9, <2>2 DEF Entered
    <3> QED
      BY <3>1 DEF Inv, DefsGiven
  <2> QED
    BY <2>1, <2>2
<1>13. CodePatched'
  <2>1. \A c \in Code : Patched(c) => Patched(c)'
    <3> SUFFICES ASSUME NEW c \in Code, Patched(c), NEW s \in DOMAIN c.fd
                 PROVE  tables'[Trunc[s]] # NULL /\ c.fd[s] = tables'[Trunc[s]].fd
      BY DEF Patched
    <3>1. s \in Symbol
      BY DEF Code
    <3>2. Trunc[s] # n
      BY <1>1 DEF Patched, n
    <3>3. tables'[Trunc[s]] = tables[Trunc[s]]
      BY <1>9, <3>1, <3>2
    <3> QED
      BY <3>3 DEF Patched
  <2> QED
    BY <1>1, <2>1 DEF Inv, CodePatched
<1>14. InstallReal' /\ Compiled'
  BY <1>1 DEF Inv, InstallReal, Compiled, NeverCallsNull
<1> QED
  BY <1>8, <1>11, <1>12, <1>13, <1>14 DEF Inv

\* A step that changes neither registry nor code in any place but moves it
\* from one to another keeps CodePatched.
LEMMA CodeMoved ==
    ASSUME Inv, UNCHANGED registry,
           {insts, jitted, ubpf_fn, ebpfprog, code}'
              \subseteq {insts, jitted, ubpf_fn, ebpfprog, code, NULL, FREED}
    PROVE  CodePatched'
BY RegistryKept DEF Inv, CodePatched

\* Relocation patches in the numbers of the tables it finds, and of no other.
LEMMA RelocateKeeps ==
    ASSUME Inv, Relocate
    PROVE  Inv'
<1>1. /\ pc = "maps" /\ pc' = "load"
      /\ code' = CodeOf(program, [s \in Resolved(program) |-> tables[Trunc[s]].fd])
      /\ UNCHANGED <<bpf_maps, tables, orphans, insts, jitted, ubpf_fn, program, todo, ebpfprog, dp>>
  BY DEF Relocate, registry, vm
<1>2. program \in Program
  BY <1>1 DEF Inv, InstallReal
<1>3. Resolved(program) \subseteq Symbol
  BY <1>2 DEF Resolved
<1>4. \A s \in Resolved(program) : tables[Trunc[s]] # NULL /\ tables[Trunc[s]] \in Entry
  BY <1>3 DEF Resolved, Inv, TypeOK
<1>5. [s \in Resolved(program) |-> tables[Trunc[s]].fd] \in [Resolved(program) -> Slots]
  BY <1>4 DEF Entry
<1>6. code' \in Code
  BY <1>1, <1>2, <1>3, <1>5 DEF Code, CodeOf
<1>7. Patched(code')
  BY <1>1, <1>4 DEF Patched, CodeOf
<1>8. TypeOK'
  BY <1>1, <1>6 DEF Inv, TypeOK
<1>9. UNCHANGED registry
  BY <1>1 DEF registry
<1>10. CodePatched'
  <2>1. Patched(code)'
    BY <1>1, <1>7 DEF Patched
  <2> QED
    BY <1>1, <1>9, <2>1, RegistryKept DEF Inv, CodePatched
<1>11. InstallReal' /\ Compiled'
  BY <1>1, <1>2, <1>6 DEF InstallReal, Inv, Compiled, NeverCallsNull
<1> QED
  BY <1>8, <1>9, <1>10, <1>11, RegistryKept DEF Inv

\* Every step keeps the invariant.
LEMMA NextInv == Inv /\ [Next]_vars => Inv'
<1> SUFFICES ASSUME Inv, [Next]_vars
             PROVE  Inv'
  OBVIOUS
<1> USE DEF registry, vm, install
<1>0. ASSUME UNCHANGED registry, TypeOK', CodePatched', InstallReal', Compiled'
      PROVE  Inv'
  BY <1>0, RegistryKept DEF Inv
<1>1. ASSUME NEW p \in Program, RecvInstall(p)
      PROVE  Inv'
  <2>1. TypeOK'
    <3>1. Tables[p] \in Seq(Symbol)
      BY UbpfAssumption
    <3>2. todo' \in Seq(Symbol) /\ pc' \in {"compile", "maps"}
      <4>1. << >> \in Seq(Symbol)
        OBVIOUS
      <4>2. todo' \in {Tables[p], << >>} /\ pc' \in {"compile", "maps"}
        BY <1>1 DEF RecvInstall
      <4> QED
        BY <3>1, <4>1, <4>2
    <3> QED
      BY <1>1, <3>2 DEF RecvInstall, Inv, TypeOK
  <2>2. CodePatched'
    BY <1>1, CodeMoved DEF RecvInstall
  <2>3. InstallReal' /\ Compiled'
    BY <1>1 DEF RecvInstall, Inv, InstallReal, Compiled, NeverCallsNull
  <2> QED
    BY <1>0, <1>1, <2>1, <2>2, <2>3 DEF RecvInstall
<1>2. CASE FindTable
  <2>1. TypeOK'
    BY <1>2, TodoTyped DEF FindTable, Inv, TypeOK
  <2>2. CodePatched'
    BY <1>2, CodeMoved DEF FindTable
  <2>3. InstallReal' /\ Compiled'
    BY <1>2 DEF FindTable, Inv, InstallReal, Compiled, NeverCallsNull
  <2> QED
    BY <1>0, <1>2, <2>1, <2>2, <2>3 DEF FindTable
<1>3. CASE CreateTable
  BY <1>3, CreateTableKeeps
<1>4. CASE CreateTableFails \/ RelocateFails
  <2>1. TypeOK'
    BY <1>4 DEF CreateTableFails, RelocateFails, Inv, TypeOK
  <2>2. CodePatched'
    BY <1>4, CodeMoved DEF CreateTableFails, RelocateFails
  <2>3. InstallReal' /\ Compiled'
    BY <1>4 DEF CreateTableFails, RelocateFails, Inv, InstallReal, Compiled, NeverCallsNull
  <2> QED
    BY <1>0, <1>4, <2>1, <2>2, <2>3 DEF CreateTableFails, RelocateFails
<1>5. CASE Relocate
  BY <1>5, RelocateKeeps
<1>6. CASE Load
  <2>1. TypeOK'
    BY <1>6 DEF Load, Inv, TypeOK, InstallReal
  <2>2. CodePatched'
    BY <1>6, CodeMoved DEF Load
  <2>3. InstallReal' /\ Compiled'
    BY <1>6 DEF Load, Inv, InstallReal, Compiled, NeverCallsNull
  <2> QED
    BY <1>0, <1>6, <2>1, <2>2, <2>3 DEF Load
<1>7. CASE LoadAfterFree
  <2>1. TypeOK'
    BY <1>7 DEF LoadAfterFree, Inv, TypeOK
  <2>2. CodePatched'
    BY <1>7, CodeMoved DEF LoadAfterFree
  <2>3. InstallReal' /\ Compiled'
    BY <1>7 DEF LoadAfterFree, Inv, InstallReal, Compiled, NeverCallsNull
  <2> QED
    BY <1>0, <1>7, <2>1, <2>2, <2>3 DEF LoadAfterFree
<1>8. CASE CompileCached \/ Compile \/ CompileFails
  <2>1. TypeOK'
    BY <1>8 DEF CompileCached, Compile, CompileFails, Inv, TypeOK
  <2>2. CodePatched'
    BY <1>8, CodeMoved DEF CompileCached, Compile, CompileFails
  <2>3. InstallReal' /\ Compiled'
    BY <1>8 DEF CompileCached, Compile, CompileFails, Inv, InstallReal, Compiled, NeverCallsNull
  <2> QED
    BY <1>0, <1>8, <2>1, <2>2, <2>3 DEF CompileCached, Compile, CompileFails
<1>9. CASE Publish
  <2>1. TypeOK'
    BY <1>9 DEF Publish, Inv, TypeOK
  <2>2. CodePatched'
    BY <1>9, CodeMoved DEF Publish
  <2>3. InstallReal' /\ Compiled'
    BY <1>9 DEF Publish, Inv, InstallReal, Compiled, NeverCallsNull
  <2> QED
    BY <1>0, <1>9, <2>1, <2>2, <2>3 DEF Publish
<1>10. CASE Check \/ CallProgram \/ UNCHANGED vars
  <2>1. TypeOK'
    BY <1>10 DEF Check, CallProgram, vars, Inv, TypeOK
  <2>2. CodePatched'
    BY <1>10, CodeMoved DEF Check, CallProgram, vars
  <2>3. InstallReal' /\ Compiled'
    BY <1>10 DEF Check, CallProgram, vars, Inv, InstallReal, Compiled, NeverCallsNull
  <2> QED
    BY <1>0, <1>10, <2>1, <2>2, <2>3 DEF Check, CallProgram, vars
<1> QED
  BY <1>1, <1>2, <1>3, <1>4, <1>5, <1>6, <1>7, <1>8, <1>9, <1>10 DEF Next
-----------------------------------------------------------------------------
(* What it implies                                                         *)

\* Whatever programs are installed and whatever fails, registry, loader and
\* compiler keep to their types.
THEOREM TypeCorrect == Spec => []TypeOK
<1>1. Inv => TypeOK
  BY DEF Inv
<1> QED
  BY InitInv, NextInv, <1>1, PTL DEF Spec

\* After any sequence of installs, whatever fails in them, bpf_maps and the
\* meta table agree.
THEOREM RegistrySoundHolds == Spec => []RegistrySound
<1>1. Inv => RegistrySound
  BY DEF Inv
<1> QED
  BY InitInv, NextInv, <1>1, PTL DEF Spec

\* The dataplane never calls through NULL although it reads the pointer twice.
THEOREM NeverCallsNullHolds == Spec => []NeverCallsNull
<1>1. Inv => NeverCallsNull
  BY DEF Inv, Compiled
<1> QED
  BY InitInv, NextInv, <1>1, PTL DEF Spec

\* Code that is loaded, compiled or running finds its own tables.
THEOREM ProgramUsesItsTablesHolds == Spec => []ProgramUsesItsTables
<1>1. Inv => ProgramUsesItsTables
  <2> SUFFICES ASSUME Inv, NEW c \in {insts, jitted, ubpf_fn} \ {NULL, FREED}
               PROVE  UsesItsTables(c)
    BY DEF ProgramUsesItsTables
  <2>1. c \in Code /\ Patched(c)
    BY DEF Inv, TypeOK, CodePatched
  <2> SUFFICES ASSUME NEW s \in DOMAIN c.fd, SameDefs
               PROVE  bpf_maps[c.fd[s]] = TableDef[c.program][s]
    BY <2>1 DEF UsesItsTables, Patched
  <2>2. s \in Symbol /\ c.program \in Program /\ Trunc[s] \in Name
    BY <2>1 DEF Code
  <2>3. Trunc[s] \in Entered /\ c.fd[s] = tables[Trunc[s]].fd
    BY <2>1, <2>2 DEF Patched, Entered
  <2>4. bpf_maps[c.fd[s]] = tables[Trunc[s]].def
    BY <2>3 DEF Inv, RegistrySound
  <2>5. PICK p \in Program, t \in Symbol :
             Trunc[t] = Trunc[s] /\ tables[Trunc[s]].def = TableDef[p][t]
    BY <2>3 DEF Inv, DefsGiven
  <2> QED
    BY <2>2, <2>4, <2>5 DEF SameDefs
<1> QED
  BY InitInv, NextInv, <1>1, PTL DEF Spec

\* The slots run out before the room in the agent's list of tables does.
THEOREM TablesFitReplyHolds == Spec => []TablesFitReply
<1>1. Inv => TablesFitReply
  <2> SUFFICES ASSUME Inv
               PROVE  Cardinality(Entered) <= TABLE_MAX_ENTRIES
    BY DEF TablesFitReply
  <2> DEFINE f == [n \in Entered |-> tables[n].fd]
  <2>1. f \in Injection(Entered, 1 .. MAX_MAPS - 1)
    <3>1. \A n \in Entered : tables[n].fd \in 1 .. MAX_MAPS - 1
      BY DEF Inv, TypeOK, RegistrySound, Entered, Entry, Slots
    <3>2. \A m, n \in Entered : f[m] = f[n] => m = n
      BY DEF Inv, RegistrySound
    <3> QED
      BY <3>1, <3>2 DEF Injection, IsInjective
  <2>2. /\ IsFiniteSet(1 .. MAX_MAPS - 1)
        /\ Cardinality(1 .. MAX_MAPS - 1) = MAX_MAPS - 1
    BY FS_Interval
  <2>3. IsFiniteSet(Entered) /\ Cardinality(Entered) <= MAX_MAPS - 1
    BY <2>1, <2>2, FS_Injection
  <2>4. Cardinality(Entered) \in Nat
    BY <2>3, FS_CardinalityType
  <2> QED
    BY <2>3, <2>4
<1> QED
  BY InitInv, NextInv, <1>1, PTL DEF Spec
=============================================================================
