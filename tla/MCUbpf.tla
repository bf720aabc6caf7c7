------------------------------- MODULE MCUbpf -------------------------------
(* A small instance of Ubpf for TLC. *)
EXTENDS Ubpf

CONSTANTS pA, pB, pC, pElf, pText, pCode, s1, s2, s3, s4, n1, n2, n3, d1, d2

MCProgram == {pA, pB, pC, pElf, pText, pCode}
MCSymbol == {s1, s2, s3, s4}
MCName == {n1, n2, n3}

\* s1 and s3 are the same name after 31 characters
MCTrunc == [s \in MCSymbol |->
    IF s = s2 THEN n2 ELSE IF s = s4 THEN n3 ELSE n1]

\* three slots, of which the meta table has one, do not hold n1, n2 and n3
MCTables == [p \in MCProgram |->
    CASE p = pA    -> <<s1>>
      [] p = pB    -> <<s2, s3>>
      [] p = pC    -> <<s1, s4>>
      [] p = pText -> <<s2>>
      [] p = pCode -> <<s1, s2>>
      [] OTHER     -> << >>]

MCTableDef == [p \in MCProgram |-> [s \in MCSymbol |-> IF s = s2 THEN d2 ELSE d1]]

MCFault == [p \in MCProgram |->
    CASE p = pElf  -> "elf"
      [] p = pText -> "text"
      [] p = pCode -> "code"
      [] OTHER     -> "none"]
=============================================================================
