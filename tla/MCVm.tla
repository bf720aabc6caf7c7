-------------------------------- MODULE MCVm --------------------------------
(* A small instance of Vm for TLC. *)
EXTENDS Vm

I(op, dst, offset, imm) ==
    [opcode |-> op, dst |-> dst, src |-> 0, offset |-> offset, imm |-> imm]

\* one of each kind, good and bad, and jumps to everywhere
MCInst ==
    {I("alu", 0, 0, 0), I("lddw", 0, 0, 0), I("half", 0, 0, 0), I("exit", 0, 0, 0),
     I("store", 10, 0, 0), I("alu", 11, 0, 0), I("call", 0, 0, 1), I("call", 0, 0, 2)}
    \cup {I("jcc", 0, o, 0) : o \in -4 .. 2} \cup {I("ja", 0, o, 0) : o \in {-2, 1}}

\* loops and branches over a wide instruction, in longer code
MCFew ==
    {I("lddw", 0, 0, 0), I("half", 0, 0, 0), I("exit", 0, 0, 0), I("divreg", 0, 0, 0)}
    \cup {I("jcc", 0, o, 0) : o \in {-4, -3, -2, 0, 1, 2}} \cup {I("ja", 0, o, 0) : o \in {-3, 1}}

MCOther ==
    {I("divimm", 0, 0, 0), I("divimm", 0, 0, 1), I("endian", 0, 0, 8), I("endian", 0, 0, 16),
     I("divreg", 0, 0, 0), I("divreg", 0, 0, 1), I("load", 9, 0, 0), I("load", 10, 0, 0), I("unknown", 0, 0, 0)}

\* lengths up to the largest that is accepted, and one more
MCCodes ==
    {<< >>} \cup UNION {[1 .. n -> MCInst] : n \in 1 .. 3}
    \cup [1 .. 2 -> MCInst \cup MCOther]
    \cup [1 .. 4 -> MCFew] \cup [1 .. 5 -> {I("exit", 0, 0, 0), I("jcc", 0, 0, 0), I("jcc", 0, -2, 0)}]
=============================================================================
