----------------------------- MODULE MCHashTab -----------------------------
(* Small instances of HashTab for TLC. *)
EXTENDS HashTab

CONSTANTS z, k1, k2, k3, v1, v2, a1, a2, a3

MCKey == {z, k1, k2, k3}
MCUsedKey == {k1, k2, k3}
MCVal == {v1, v2}

\* no two colliding keys have a value in common, and one key has two
MCUsedVal == [k \in MCUsedKey |-> CASE k = k1 -> {v1} [] k = k2 -> {v2} [] OTHER -> {v1, v2}]

\* a key that shares its chain
MCSharedKey == {k1}
MCAddr == {a1, a2, a3}
MCBucket == {0, 1}

\* two of the three keys that are stored collide
MCHash == [k \in MCKey |-> IF k \in {k1, k2} THEN 0 ELSE 1]

MCSymmetry == Permutations(MCAddr)
=============================================================================
