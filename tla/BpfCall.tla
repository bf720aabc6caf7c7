------------------------------ MODULE BpfCall ------------------------------
(***************************************************************************)
(* The calls of bpfmap.h as a caller sees them: the flags of               *)
(* bpf_update_elem, and one record for the last call made on a map, its    *)
(* arguments and what it returned.  "ok" is a return code of 0 (for a      *)
(* lookup: a pointer that is not NULL); "out" is the value or the key that *)
(* the call hands back.                                                    *)
(***************************************************************************)
EXTENDS Naturals

BPF_ANY     == 0
BPF_NOEXIST == 1
BPF_EXIST   == 2

Call(op, k, flags, ok, out) ==
    [op |-> op, key |-> k, flags |-> flags, ok |-> ok, out |-> out]
=============================================================================
