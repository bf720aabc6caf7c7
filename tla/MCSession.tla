----------------------------- MODULE MCSession -----------------------------
(* A small instance of Session for TLC. *)
EXTENDS Session

CONSTANTS s1, s2, d1, d2

MCSwitch == {s1, s2}
MCDpidOf == [s \in MCSwitch |-> IF s = s1 THEN d1 ELSE d2]
MCOneSwitch == {s1}
MCOneDpidOf == [s \in MCOneSwitch |-> d1]
=============================================================================
