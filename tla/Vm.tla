--------------------------------- MODULE Vm ---------------------------------
(***************************************************************************)
(* What happens to the code of an install: validate() accepts or refuses   *)
(* it, translate() emits x86-64 code instruction by instruction, noting    *)
(* where each begins and which jumps are to be patched, resolve_jumps()    *)
(* patches them, and the result runs.  The interpreter ubpf_exec runs the  *)
(* same code beside it, as test.c does with and without -j.  Instructions  *)
(* are told apart by their control flow and by what validate() checks;     *)
(* what they compute is left out: a condition may hold or not, a divisor   *)
(* be zero, an address lie anywhere.  Nor do the two always compute the    *)
(* same, so that each finds for itself whether it does: an unsigned        *)
(* comparison extends a negative immediate with zeros in the interpreter   *)
(* and with its sign in the compiled code, and a 32-bit move keeps the     *)
(* upper half of its source only in the compiled code.                     *)
(***************************************************************************)
EXTENDS Integers, Sequences

CONSTANTS
    Codes,      \* the code that may be installed
    ExtFuncs,   \* the indices of vm->ext_funcs that are registered
    MAX_INSTS

Op == {"alu", "divimm", "divreg", "endian", "load", "store", "lddw", "half",
       "ja", "jcc", "call", "exit", "unknown"}
Jumps == {"ja", "jcc"}

\* struct ebpf_inst: "half", opcode 0, is the second half of an lddw
Inst == [opcode : Op, dst : 0 .. 15, src : 0 .. 15, offset : Int, imm : Int]

ASSUME VmAssumption ==
    /\ Codes \subseteq Seq(Inst)
    /\ MAX_INSTS \in Nat \ {0}

EXIT == -1      \* TARGET_PC_EXIT; also where code that has returned is
TRAP == -2      \* compiled code that the processor has stopped
PROLOGUE == -3  \* where a jump goes whose target has no entry in pc_locs

VARIABLES
    insts,    \* the code
    phase,    \* "validate", "refused", "translate", "run"
    i,        \* the loop variable of validate() and translate()
    located,  \* the instructions that have an entry in pc_locs
    jumps,    \* state->jumps, by target_pc
    jumpOf,   \* the entry of jumps that each jump instruction made
    ip,       \* the instruction the compiled code is at
    pc,       \* the instruction the interpreter is at
    last,     \* the instruction they were at before
    alike     \* and whether they found the same there

vars == <<insts, phase, i, located, jumps, jumpOf, ip, pc, last, alike>>

num_insts == Len(insts)
At(k) == insts[k + 1]
Index == 0 .. num_insts - 1

Init ==
    /\ insts \in Codes
    /\ phase = "validate"
    /\ i = 0
    /\ located = {}
    /\ jumps = << >>
    /\ jumpOf = [k \in Index |-> 0]
    /\ ip = 0
    /\ pc = 0
    /\ last = 0
    /\ alike = TRUE

\* the instruction behind k: an lddw has two halves
After(k) == IF At(k).opcode = "lddw" THEN k + 2 ELSE k + 1
-----------------------------------------------------------------------------
(* validate()                                                              *)

JumpOK(k) ==
    LET new_pc == k + 1 + At(k).offset
    IN  /\ At(k).offset # -1
        /\ new_pc \in Index
        /\ At(new_pc).opcode # "half"

\* mutant: register 10 may be the destination of any instruction, and 11 too
RegistersOKWide(k) == At(k).src <= 10 /\ At(k).dst <= 11

RegistersOK(k) ==
    /\ At(k).src <= 10
    /\ At(k).dst <= 9 \/ (At(k).opcode = "store" /\ At(k).dst = 10)

\* mutant: an lddw may lack its second half
ValidNoHalf(k) ==
    /\ At(k).opcode \notin {"unknown", "half"}
    /\ At(k).opcode \in Jumps => JumpOK(k)
    /\ At(k).opcode = "call" => At(k).imm \in ExtFuncs
    /\ RegistersOK(k)

\* what the switch over the opcode checks, and the registers
Valid(k) ==
    /\ At(k).opcode \notin {"unknown", "half"}
    /\ At(k).opcode = "endian" => At(k).imm \in {16, 32, 64}
    /\ At(k).opcode = "lddw" => k + 1 \in Index /\ At(k + 1).opcode = "half"
    /\ At(k).opcode \in Jumps => JumpOK(k)
    /\ At(k).opcode = "call" => At(k).imm \in ExtFuncs
    /\ At(k).opcode = "divimm" => At(k).imm # 0
    /\ RegistersOK(k)

\* mutant: as many as MAX_INSTS are accepted
TooManyLate == num_insts > MAX_INSTS

TooMany == num_insts >= MAX_INSTS

Refuse ==
    /\ phase = "validate"
    /\ TooMany \/ (i < num_insts /\ ~Valid(i))
    /\ phase' = "refused"
    /\ UNCHANGED <<insts, i, located, jumps, jumpOf, ip, pc, last, alike>>

Validate ==
    /\ phase = "validate"
    /\ ~TooMany
    /\ i < num_insts
    /\ Valid(i)
    /\ i' = After(i)
    /\ UNCHANGED <<insts, phase, located, jumps, jumpOf, ip, pc, last, alike>>

Accept ==
    /\ phase = "validate"
    /\ ~TooMany
    /\ i >= num_insts
    /\ phase' = "translate"
    /\ i' = 0
    /\ UNCHANGED <<insts, located, jumps, jumpOf, ip, pc, last, alike>>
-----------------------------------------------------------------------------
(* translate()                                                             *)

\* mutant: an EXIT never needs a jump
EmitsNoExit(k) == At(k).opcode \in Jumps

\* the instructions that end in a jump to be patched: the last EXIT falls
\* through to the epilogue
EmitsJump(k) ==
    At(k).opcode \in Jumps \/ (At(k).opcode = "exit" /\ k # num_insts - 1)

TargetPc(k) == IF At(k).opcode = "exit" THEN EXIT ELSE k + At(k).offset + 1

Translate ==
    /\ phase = "translate"
    /\ i < num_insts
    /\ located' = located \cup {i}
    /\ IF EmitsJump(i)
       THEN /\ jumps' = Append(jumps, TargetPc(i))
            /\ jumpOf' = [jumpOf EXCEPT ![i] = Len(jumps) + 1]
       ELSE UNCHANGED <<jumps, jumpOf>>
    /\ i' = After(i)
    /\ UNCHANGED <<insts, phase, ip, pc, last, alike>>

\* the epilogue, the handler of divisions by zero with its jump to the
\* epilogue, and resolve_jumps
Finish ==
    /\ phase = "translate"
    /\ i >= num_insts
    /\ jumps' = Append(jumps, EXIT)
    /\ phase' = "run"
    /\ ip' = IF num_insts = 0 THEN EXIT ELSE 0
    /\ UNCHANGED <<insts, i, located, jumpOf, pc, last, alike>>
-----------------------------------------------------------------------------
(* Running                                                                 *)

\* resolve_jumps: pc_locs is cleared when it is allocated
Resolve(target) ==
    IF target = EXIT \/ target \in located THEN target ELSE PROLOGUE

\* what was emitted behind k: the next instruction, or the epilogue
Behind(k) == IF After(k) < num_insts THEN After(k) ELSE EXIT

\* What may be found at k: a condition that holds, a divisor that is zero or of
\* which the lower half is (for a 32-bit division), an address outside of the
\* packet and the stack; or none of it.
Outcomes(k) ==
    CASE At(k).opcode = "jcc"               -> {"on", "taken"}
      [] At(k).opcode \in {"ja", "exit"}    -> {"taken"}
      [] At(k).opcode = "divreg"            -> {"on", "zero", "low"}
      [] At(k).opcode \in {"load", "store"} -> {"on", "outside"}
      [] OTHER                              -> {"on"}

\* Where the compiled code of k may go.  muldivmod does not test the divisor,
\* and divides by imm if it is not 0, even where the register is meant; and no
\* address is tested, so that the memory there is used or the processor stops.
Compiled(k, found) ==
    IF found = "outside" THEN {TRAP, Behind(k)}
    ELSE IF found \in {"zero", "low"} /\ At(k).imm = 0 THEN {TRAP}
    ELSE IF found = "taken" /\ jumpOf[k] # 0 THEN {Resolve(jumps[jumpOf[k]])}
    ELSE {Behind(k)}

Target(k) == k + 1 + At(k).offset

\* Where ubpf_exec may go from k.  It tests all 64 bits of the divisor, and the
\* bounds of an access, but for one whose end is beyond the last address.
Interpreted(k, found) ==
    IF At(k).opcode = "exit" \/ found = "zero" THEN {EXIT}
    ELSE IF found = "low" THEN {TRAP}
    ELSE IF found = "outside" THEN {EXIT, TRAP}
    ELSE IF At(k).opcode \in Jumps /\ found = "taken" THEN {Target(k)}
    ELSE {After(k)}

\* one instruction, by both, for as long as they are together
Run ==
    /\ phase = "run"
    /\ pc \in Index /\ ip = pc
    /\ \E c, n \in Outcomes(pc) :
          /\ ip' \in Compiled(pc, c)
          /\ pc' \in Interpreted(pc, n)
          /\ alike' = (c = n)
    /\ last' = pc
    /\ UNCHANGED <<insts, phase, i, located, jumps, jumpOf>>

Next == Refuse \/ Validate \/ Accept \/ Translate \/ Finish \/ Run

Spec == Init /\ [][Next]_vars
-----------------------------------------------------------------------------
(* Properties                                                              *)

\* Every variable holds what its use allows: the loops of validate() and
\* translate() step over an lddw without leaving the code.
TypeOK ==
    /\ insts \in Codes
    /\ phase \in {"validate", "refused", "translate", "run"}
    /\ i \in 0 .. num_insts
    /\ located \subseteq Index
    /\ jumps \in Seq(Int)
    /\ jumpOf \in [Index -> 0 .. Len(jumps)]
    /\ ip \in Index \cup {0, EXIT, TRAP, PROLOGUE}
    /\ pc \in Int
    /\ last \in Index \cup {0}
    /\ alike \in BOOLEAN

\* translate() has no case that fails for code that validate() let pass: its
\* opcodes are known, its registers are in register_map (whose index is
\* asserted) and its calls have a function.
TranslateTotal ==
    phase = "translate" /\ i < num_insts =>
        /\ At(i).opcode \notin {"unknown", "half"}
        /\ At(i).dst <= 10 /\ At(i).src <= 10
        /\ At(i).opcode = "call" => At(i).imm \in ExtFuncs

\* The array of jumps has MAX_INSTS entries, and one of them is for the handler
\* of divisions by zero.
JumpsFit == Len(jumps) <= MAX_INSTS

\* Every jump that resolve_jumps patches goes to the epilogue or to an
\* instruction that was emitted: never to an entry of pc_locs that is not set.
\* (Stated for VmProofs; where it fails, so does SamePath.)
JumpsResolve == phase = "run" => \A j \in DOMAIN jumps : Resolve(jumps[j]) # PROLOGUE

\* the ways in which the two may have parted at k, having found the same there ...
PartedAlike(k) ==
    \/ /\ At(k).opcode = "divreg"
       /\ IF At(k).imm = 0 THEN ip = TRAP /\ pc = EXIT ELSE ip = Behind(k) /\ pc \in {EXIT, TRAP}
    \/ /\ At(k).opcode \in {"load", "store"}
       /\ ip \in {TRAP, Behind(k)} /\ pc \in {EXIT, TRAP}

\* ... and having found different things
PartedUnlike(k) ==
    \/ /\ At(k).opcode = "jcc"
       /\ <<ip, pc>> \in {<<Target(k), After(k)>>, <<Behind(k), Target(k)>>}
    \/ /\ At(k).opcode \in {"divreg", "load", "store"}
       /\ ip \in {TRAP, Behind(k)} /\ pc \in {EXIT, TRAP, After(k)}

\* The compiled code is at the instruction the interpreter is at, over all
\* branches, or has left it in one of these ways: code without a final EXIT
\* returns when it is compiled where the interpreter runs behind the last
\* instruction; a division by a register that is zero, or an access outside of
\* the packet and the stack, ends the interpreter, and stops the compiled code
\* or is passed over by it; a value that the two computed differently decided a
\* branch, a division or an access, and each went where its own value sends it.
SamePath ==
    phase = "run" =>
        \/ ip = pc
        \/ ip = EXIT /\ pc = num_insts
        \/ IF alike THEN PartedAlike(last) ELSE PartedUnlike(last)
=============================================================================
