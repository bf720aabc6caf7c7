------------------------------- MODULE BpfMap -------------------------------
(***************************************************************************)
(* What an eBPF hash map promises to the code that uses it: to the         *)
(* programs through the helpers 1, 2 and 3 the agent registers, and to     *)
(* the agent's table requests.  It is a dictionary together with the order *)
(* in which get_next_key walks it: oldest entry first, where updating an   *)
(* entry makes it the newest.  get_next_key has no memory here: the key it *)
(* is given alone decides its answer; but of a walk in which somebody      *)
(* writes the map nothing is promised from there on.                       *)
(***************************************************************************)
EXTENDS BpfCall, Lists

CONSTANTS
    Key,        \* the keys of the map
    Val,        \* the values of the map
    UsedKey,    \* the keys its clients write
    Flags,      \* the flags its clients pass to bpf_update_elem
    NULL

VARIABLES
    order,      \* the keys of the map, oldest first
    dict,       \* the value of each key of the map
    last,       \* the last call made on the map and its result
    disturbed   \* was the map written since the walk of it began?

vars == <<order, dict, last, disturbed>>

Init ==
    /\ order = << >>
    /\ dict = [k \in {} |-> NULL]
    /\ last = Call("none", NULL, BPF_ANY, TRUE, NULL)
    /\ disturbed = FALSE

\* A write disturbs the walk, if there is one.
Disturb == disturbed' \in {disturbed, TRUE}

KeysWithout(k) == IF k \in DOMAIN dict THEN Without(order, k) ELSE order

\* do the flags let an update of k go ahead?  (bpfmap.h, lines 7 to 9)
Admits(k, flags) ==
    CASE flags = BPF_NOEXIST -> k \notin DOMAIN dict
      [] flags = BPF_EXIST   -> k \in DOMAIN dict
      [] OTHER               -> TRUE

Update(k, v, flags) ==
    /\ last' = Call("update", k, flags, TRUE, NULL)
    /\ Admits(k, flags)
    /\ order' = Append(KeysWithout(k), k)
    /\ dict' = [x \in DOMAIN dict \cup {k} |-> IF x = k THEN v ELSE dict[x]]
    /\ Disturb

RefuseUpdate(k, flags) ==
    /\ last' = Call("update", k, flags, FALSE, NULL)
    /\ ~Admits(k, flags)
    /\ UNCHANGED <<order, dict, disturbed>>

\* There is no memory for the new element.  The old one is gone by then: the
\* promise a caller can rely on is that a failed update leaves no entry for k.
FailUpdate(k, flags) ==
    /\ last' = Call("update", k, flags, FALSE, NULL)
    /\ order' = KeysWithout(k)
    /\ dict' = [x \in DOMAIN dict \ {k} |-> dict[x]]
    /\ Disturb

Lookup(k) ==
    /\ last' = IF k \in DOMAIN dict THEN Call("lookup", k, BPF_ANY, TRUE, dict[k])
                                    ELSE Call("lookup", k, BPF_ANY, FALSE, NULL)
    /\ UNCHANGED <<order, dict, disturbed>>

Delete(k) ==
    /\ last' = Call("delete", k, BPF_ANY, k \in DOMAIN dict, NULL)
    /\ order' = KeysWithout(k)
    /\ dict' = [x \in DOMAIN dict \ {k} |-> dict[x]]
    /\ Disturb

\* the position in order that get_next_key(k) answers with
NextPosition(k) == IF k \in DOMAIN dict THEN IndexOf(order, k) + 1 ELSE 1

GetNextKey(k) ==
    /\ ~disturbed
    /\ last' = IF NextPosition(k) \in DOMAIN order
               THEN Call("next", k, BPF_ANY, TRUE, order[NextPosition(k)])
               ELSE Call("next", k, BPF_ANY, FALSE, NULL)
    /\ UNCHANGED <<order, dict, disturbed>>

\* In a walk that was disturbed the answer may be any key, or the end.
GetSomeKey(k) ==
    /\ disturbed
    /\ \/ last' = Call("next", k, BPF_ANY, FALSE, NULL)
       \/ \E n \in Key : last' = Call("next", k, BPF_ANY, TRUE, n)
    /\ UNCHANGED <<order, dict, disturbed>>

\* a walk ends or another one begins
NewWalk ==
    /\ disturbed' = FALSE
    /\ UNCHANGED <<order, dict, last>>

Next ==
    \/ \E k \in UsedKey, v \in Val, flags \in Flags : Update(k, v, flags)
    \/ \E k \in UsedKey, flags \in Flags : RefuseUpdate(k, flags) \/ FailUpdate(k, flags)
    \/ \E k \in Key : Lookup(k) \/ Delete(k) \/ GetNextKey(k) \/ GetSomeKey(k)
    \/ NewWalk

Spec == Init /\ [][Next]_vars
=============================================================================
