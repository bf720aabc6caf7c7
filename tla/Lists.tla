------------------------------- MODULE Lists -------------------------------
(***************************************************************************)
(* Linked lists as sequences.  The C code keeps its lists (the chain of a  *)
(* bucket, the oldest-to-newest list of a table) with next and previous    *)
(* pointers; the models keep the sequence those pointers spell.            *)
(***************************************************************************)
EXTENDS Naturals, Sequences, SequencesExt

\* the position of x in s, when x occurs in s
IndexOf(s, x) == CHOOSE i \in DOMAIN s : s[i] = x

\* s with the element x linked out
Without(s, x) == RemoveAt(s, IndexOf(s, x))

\* no element occurs twice
NoDuplicates(s) == \A i, j \in DOMAIN s : s[i] = s[j] => i = j
=============================================================================
