------------------------------ MODULE BpfArray ------------------------------
(***************************************************************************)
(* What an eBPF array map promises to the code that uses it: a fixed       *)
(* number of elements of a fixed number of bytes, which exist from the     *)
(* start, all zero, and never go away.  An update is not atomic: it writes *)
(* the bytes of its element one at a time, as a program does that writes   *)
(* through the pointer of a lookup.  What is promised is that they are     *)
(* bytes of that element and of no other.                                  *)
(***************************************************************************)
EXTENDS BpfCall

CONSTANTS
    Thread,     \* who calls the map
    Index,      \* the indices its callers pass
    Flags,      \* the flags they pass to bpf_update_elem
    Size,       \* the sizes an array may have, in elements and in bytes
    Byte,
    Zero,
    NONE

VARIABLES
    cells,      \* the bytes of each element, none before there is an array
    open,       \* the element each thread may write
    last        \* the last call made on the map and its result

vars == <<cells, open, last>>

Init ==
    /\ cells = << >>
    /\ open = [t \in Thread |-> NONE]
    /\ last = Call("none", NONE, BPF_ANY, TRUE, NONE)

Created == DOMAIN cells # {}

Create(entries, bytes) ==
    /\ ~Created
    /\ cells' = [i \in 0 .. entries - 1 |-> [j \in 0 .. bytes - 1 |-> Zero]]
    /\ UNCHANGED <<open, last>>

\* do the flags let an update go ahead?  Every element exists.
Admits(flags) == flags \in {BPF_ANY, BPF_EXIST}

Has(i) == i \in DOMAIN cells

\* the thread that calls has the element open until the update is done
Update(i, flags) ==
    /\ last' = Call("update", i, flags, Has(i) /\ Admits(flags), NONE)
    /\ Created
    /\ IF Has(i) /\ Admits(flags) THEN \E t \in Thread : open' = [open EXCEPT ![t] = i]
                                  ELSE UNCHANGED open
    /\ UNCHANGED cells

\* the pointer may be kept, to write the element later
Lookup(i) ==
    /\ last' = Call("lookup", i, BPF_ANY, Has(i), NONE)
    /\ Created
    /\ \/ UNCHANGED open
       \/ Has(i) /\ \E t \in Thread : open' = [open EXCEPT ![t] = i]
    /\ UNCHANGED cells

\* a thread writes a byte, the last one or not, of the element it has open
Write(t, j, b) ==
    /\ UNCHANGED last
    /\ cells' = [cells EXCEPT ![open[t]][j] = b]
    /\ \/ UNCHANGED open
       \/ open' = [open EXCEPT ![t] = NONE]

Close(t) ==
    /\ open' = [open EXCEPT ![t] = NONE]
    /\ UNCHANGED <<cells, last>>

\* no element goes away
Delete(i) ==
    /\ last' = Call("delete", i, BPF_ANY, FALSE, NONE)
    /\ Created
    /\ UNCHANGED <<cells, open>>

\* the elements in the order of their indices; a key of none starts the walk
GetNextKey(i) ==
    /\ last' = CASE ~Has(i)    -> Call("next", i, BPF_ANY, TRUE, 0)
                 [] Has(i + 1) -> Call("next", i, BPF_ANY, TRUE, i + 1)
                 [] OTHER      -> Call("next", i, BPF_ANY, FALSE, NONE)
    /\ Created
    /\ UNCHANGED <<cells, open>>

Next ==
    \/ \E t \in {u \in Thread : open[u] # NONE} :
          \E j \in DOMAIN cells[open[t]], b \in Byte : Write(t, j, b)
    \/ \E i \in Index, flags \in Flags : Update(i, flags)
    \/ \E i \in Index : Lookup(i) \/ Delete(i) \/ GetNextKey(i)
    \/ \E t \in Thread : Close(t)
    \/ \E size \in Size : Create(size[1], size[2])

Spec == Init /\ [][Next]_vars
=============================================================================
