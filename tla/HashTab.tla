------------------------------- MODULE HashTab -------------------------------
(***************************************************************************)
(* One eBPF hash map: htab (hashtab.c) over the chained hash table of      *)
(* libghthash, with the iterator that htab keeps between two calls of      *)
(* get_next_key, and the agent's table list request, which walks the map   *)
(* with one such call per entry.                                           *)
(*                                                                         *)
(* An address stands for the pair of blocks an entry is made of: the       *)
(* htab_elem that holds key and value, and the ght_hash_entry that points  *)
(* to it.  They are allocated together and freed together, and a freed     *)
(* block keeps its contents until it is allocated again.  Every call of    *)
(* the map is one step: this model interleaves calls, not instructions.    *)
(***************************************************************************)
EXTENDS BpfCall, Lists, FiniteSets

CONSTANTS
    Key, Val, Bucket, Addr, NULL,
    Hash,       \* the bucket of each key: ght_one_at_a_time_hash, masked
    ZeroKey,    \* the key whose bytes are all zero
    UsedKey,    \* the keys that the program and the controller write
    UsedVal,    \* the values they write for each of them
    Flags,      \* the flags they pass to bpf_update_elem
    SharedKey,  \* the keys the program may write while the agent lists the map
    MaxItems    \* bound of the model: entries one list request may collect; the
                \* agent's buffer has room for max_entries

ASSUME HashTabAssumption ==
    /\ Hash \in [Key -> Bucket]
    /\ ZeroKey \in Key
    /\ UsedKey \subseteq Key
    /\ NULL \notin Key \cup Val \cup Addr
    /\ Flags \subseteq {BPF_ANY, BPF_NOEXIST, BPF_EXIST}
    /\ MaxItems \in Nat
    /\ SharedKey \subseteq UsedKey
    /\ UsedVal \in [UsedKey -> SUBSET Val]

VARIABLES
    pp_entries, \* the chain of each bucket, from its head
    age,        \* all entries from p_oldest to p_newest, along p_newer
    live,       \* the addresses that are allocated
    key, value, \* what the elements hold; a freed element keeps it
    current,    \* htab->current
    p_next,     \* htab->iterator.p_next
    held,       \* the element whose value a running program points to
    heldKey,    \* the key the program looked up to get that pointer
    pc,         \* where the agent is in a table list request
    cursor,     \* the key the agent passes to bpf_get_next_key next
    items,      \* the entries it has collected
    touched,    \* history: the keys written since the request began
    last        \* the last call on the map and its result

table == <<pp_entries, age, live, key, value>>
iterator == <<current, p_next>>
program == <<held, heldKey>>
request == <<pc, cursor, items>>
vars == <<table, iterator, program, request, touched, last>>

Init ==
    /\ pp_entries = [b \in Bucket |-> << >>]
    /\ age = << >>
    /\ live = {}
    /\ key = [a \in Addr |-> NULL]
    /\ value = [a \in Addr |-> NULL]
    /\ current = NULL
    /\ p_next = NULL
    /\ held = NULL
    /\ heldKey = NULL
    /\ pc = "idle"
    /\ cursor = ZeroKey
    /\ items = << >>
    /\ touched = {}
    /\ last = Call("none", NULL, BPF_ANY, TRUE, NULL)
-----------------------------------------------------------------------------
(* Searching and linking (libghthash/hash_table.c)                         *)

Chain(k) == pp_entries[Hash[k]]

\* mutant: only the head of the chain is compared
MatchesHeadOnly(k) == {i \in DOMAIN Chain(k) : i = 1 /\ key[Chain(k)[i]] = k}

\* search_in_bucket: where the chain of k's bucket holds an entry for k
Matches(k) == {i \in DOMAIN Chain(k) : key[Chain(k)[i]] = k}

Stored(k) == Matches(k) # {}

\* mutant: the head of the chain is taken without comparing keys
EntryForUnchecked(k) == Chain(k)[1]

\* ght_get: the first entry of the chain that matches
EntryFor(k) ==
    Chain(k)[CHOOSE i \in Matches(k) : \A j \in Matches(k) : i <= j]

\* ght_remove, and the free of the element its callers do: the chains, the
\* age list and the allocated blocks once k's entry, if any, is out
ChainsWithout(k) ==
    IF Stored(k) THEN [pp_entries EXCEPT ![Hash[k]] = Without(@, EntryFor(k))]
                 ELSE pp_entries
\* mutant: remove_from_chain leaves the entry in the age list
AgeKept(k) == age
AgeWithout(k) == IF Stored(k) THEN Without(age, EntryFor(k)) ELSE age
LiveWithout(k) == IF Stored(k) THEN live \ {EntryFor(k)} ELSE live

\* ght_insert: at the head of its chain, and the newest of all
ChainsWith(chains, k, a) == [chains EXCEPT ![Hash[k]] = Cons(a, @)]
\* mutant: the new entry is linked in as the oldest
AgeWithOldest(list, a) == Cons(a, list)
AgeWith(list, a) == Append(list, a)

\* a->p_newer, which he_finalize clears before it frees the entry
NewerOf(a) ==
    IF a \in ToSet(age) /\ IndexOf(age, a) < Len(age)
    THEN age[IndexOf(age, a) + 1]
    ELSE NULL

\* mutant: the walk starts at p_newest
Newest == IF age = << >> THEN NULL ELSE Last(age)

Oldest == IF age = << >> THEN NULL ELSE Head(age)
-----------------------------------------------------------------------------
(* The map operations (hashtab.c)                                          *)

\* the agent's thread serves one request at a time; the program's is another
MayWrite(k) == pc = "idle" \/ (k \in SharedKey /\ pc # "crashed")

Touch(k) == touched' = IF pc = "idle" THEN touched ELSE touched \cup {k}

\* htab_map_update_elem: the old element is taken out and freed, then a new
\* one is allocated.  Its flags are never read.
Update(k, v, flags) ==
    /\ MayWrite(k)
    /\ \E a \in Addr \ LiveWithout(k) :
          /\ pp_entries' = ChainsWith(ChainsWithout(k), k, a)
          /\ age' = AgeWith(AgeWithout(k), a)
          /\ live' = LiveWithout(k) \cup {a}
          /\ key' = [key EXCEPT ![a] = k]
          /\ value' = [value EXCEPT ![a] = v]
    /\ last' = Call("update", k, flags, TRUE, NULL)
    /\ Touch(k)
    /\ UNCHANGED <<iterator, program, request>>

\* mutant: the result of calloc is linked in unchecked
UpdateUncheckedMemory(k, flags) ==
    /\ MayWrite(k)
    /\ pp_entries' = ChainsWith(ChainsWithout(k), k, NULL)
    /\ age' = AgeWith(AgeWithout(k), NULL)
    /\ live' = LiveWithout(k)
    /\ last' = Call("update", k, flags, FALSE, NULL)
    /\ Touch(k)
    /\ UNCHANGED <<key, value, iterator, program, request>>

\* the same call when calloc (or the malloc of the entry) returns NULL
UpdateNoMemory(k, flags) ==
    /\ MayWrite(k)
    /\ pp_entries' = ChainsWithout(k)
    /\ age' = AgeWithout(k)
    /\ live' = LiveWithout(k)
    /\ last' = Call("update", k, flags, FALSE, NULL)
    /\ Touch(k)
    /\ UNCHANGED <<key, value, iterator, program, request>>

\* htab_map_delete_elem
Delete(k) ==
    /\ MayWrite(k)
    /\ pp_entries' = ChainsWithout(k)
    /\ age' = AgeWithout(k)
    /\ live' = LiveWithout(k)
    /\ last' = Call("delete", k, BPF_ANY, Stored(k), NULL)
    /\ Touch(k)
    /\ UNCHANGED <<key, value, iterator, program, request>>

LookupResult(k) ==
    IF Stored(k) THEN Call("lookup", k, BPF_ANY, TRUE, value[EntryFor(k)])
                 ELSE Call("lookup", k, BPF_ANY, FALSE, NULL)

\* htab_map_lookup_elem: the caller gets a pointer into the element.  The
\* agent copies from it at once; a program may keep it while it runs.
Lookup(k) ==
    /\ pc # "crashed"
    /\ last' = LookupResult(k)
    /\ \/ UNCHANGED program
       \/ Stored(k) /\ held' = EntryFor(k) /\ heldKey' = k
    /\ UNCHANGED <<table, iterator, request, touched>>

\* the program returns, and its pointer with it
Return ==
    /\ held # NULL
    /\ pc # "crashed"
    /\ held' = NULL
    /\ heldKey' = NULL
    /\ UNCHANGED <<table, iterator, request, touched, last>>

\* Does htab->current hold k?  A freed block may compare either way.
MayContinue(k) == current # NULL /\ (current \in live => key[current] = k)
MayRestart(k) == current # NULL /\ current \in live => key[current] # k

\* The entries that get_next_key(k) may reach; NULL is the end of the map.
\* ght_next returns the p_data of p_next: if freed, that may read NULL.
NextEntries(k) ==
    (IF MayContinue(k) THEN {p_next} \cup (IF p_next \in live THEN {} ELSE {NULL}) ELSE {})
    \cup
    (IF MayRestart(k) THEN {IF Stored(k) THEN NewerOf(EntryFor(k)) ELSE Oldest} ELSE {})
-----------------------------------------------------------------------------
(* The agent's recv_table_list_request over the map (agent.c)              *)

ListStart ==
    /\ pc = "idle"
    /\ pc' = "next"
    /\ cursor' = ZeroKey
    /\ items' = << >>
    /\ touched' = {}
    /\ UNCHANGED <<table, iterator, program, last>>

\* htab_map_get_next_key, called in the condition of the agent's loop
ListNext ==
    /\ pc = "next"
    /\ Len(items) < MaxItems
    /\ \E e \in NextEntries(cursor) :
          /\ current' = e
          /\ p_next' = IF e = NULL THEN NULL ELSE NewerOf(e)
          /\ IF e = NULL
             THEN /\ pc' = "reply"
                  /\ last' = Call("next", cursor, BPF_ANY, FALSE, NULL)
                  /\ UNCHANGED cursor
             ELSE /\ pc' = "copy"
                  /\ last' = Call("next", cursor, BPF_ANY, TRUE, key[e])
                  /\ cursor' = key[e]
    /\ UNCHANGED <<table, program, items, touched>>

\* the body of the loop: look the key up and copy the value, which is a
\* copy from address NULL when the key has gone
ListCopy ==
    /\ pc = "copy"
    /\ last' = LookupResult(cursor)
    /\ IF Stored(cursor)
       THEN /\ pc' = "next"
            /\ items' = Append(items, <<cursor, value[EntryFor(cursor)]>>)
       ELSE /\ pc' = "crashed"
            /\ UNCHANGED items
    /\ UNCHANGED <<table, iterator, program, cursor, touched>>

\* mutant: the reply goes out before the walk has come to its end
ListReplyEarly ==
    /\ pc \in {"next", "reply"}
    /\ pc' = "idle"
    /\ cursor' = ZeroKey
    /\ items' = << >>
    /\ touched' = {}
    /\ UNCHANGED <<table, iterator, program, last>>

ListReply ==
    /\ pc = "reply"
    /\ pc' = "idle"
    /\ cursor' = ZeroKey
    /\ items' = << >>
    /\ touched' = {}
    /\ UNCHANGED <<table, iterator, program, last>>

Next ==
    \/ \E k \in UsedKey, flags \in Flags : \E v \in UsedVal[k] : Update(k, v, flags)
    \/ \E k \in UsedKey, flags \in Flags : UpdateNoMemory(k, flags)
    \/ \E k \in Key : Delete(k) \/ Lookup(k)
    \/ Return
    \/ ListStart
    \/ ListNext
    \/ ListCopy
    \/ ListReply

Spec == Init /\ [][Next]_vars
-----------------------------------------------------------------------------
(* Properties                                                              *)

\* Every variable holds what its C type and its use allow.
TypeOK ==
    /\ pp_entries \in [Bucket -> Seq(Addr)]
    /\ age \in Seq(Addr)
    /\ live \subseteq Addr
    /\ key \in [Addr -> Key \cup {NULL}]
    /\ value \in [Addr -> Val \cup {NULL}]
    /\ current \in Addr \cup {NULL}
    /\ p_next \in Addr \cup {NULL}
    /\ held \in Addr \cup {NULL}
    /\ heldKey \in Key \cup {NULL}
    /\ pc \in {"idle", "next", "copy", "reply", "crashed"}
    /\ cursor \in Key
    /\ items \in Seq(Key \X Val)
    /\ touched \subseteq Key

\* The two lists of the table agree with the heap and with each other: the
\* age list holds exactly the allocated entries, once each; each chain holds,
\* once each, exactly those whose key hashes to its bucket; and no key has two
\* entries.  This is what remove_from_chain, he_create and ght_insert maintain
\* together, with the element freed by hashtab.c and not by the table.
AgeListExact == ToSet(age) = live /\ NoDuplicates(age)
ChainsExact ==
    \A b \in Bucket :
        /\ ToSet(pp_entries[b]) = {a \in live : Hash[key[a]] = b}
        /\ NoDuplicates(pp_entries[b])
KeysUnique == \A a, b \in live : key[a] = key[b] => a = b
KeysReal == \A a \in live : key[a] \in Key /\ value[a] \in Val
Structure == AgeListExact /\ ChainsExact /\ KeysUnique /\ KeysReal

\* No iteration is left over from one list request to the next, even where the
\* iterator went astray; and between two calls of a request that no writer has
\* interrupted so far the cached iterator of hashtab.c is not stale: current is
\* the entry of the key that the next call will pass, and p_next the one after.
IteratorAtCursor ==
    /\ pc = "copy" \/ (pc = "next" /\ items # << >>) => current # NULL
    /\ current # NULL =>
          /\ current \in live
          /\ key[current] = cursor
          /\ p_next = NewerOf(current)
IteratorFresh ==
    /\ pc \in {"idle", "reply"} => current = NULL
    /\ touched = {} => IteratorAtCursor

\* the walk order and the dictionary the table stands for
Order == [i \in DOMAIN age |-> key[age[i]]]
Dict == [k \in ToSet(Order) |-> value[EntryFor(k)]]
Disturbed == touched # {}
Map == INSTANCE BpfMap WITH order <- Order, dict <- Dict, disturbed <- Disturbed

\* Seen through its calls the table is the dictionary of BpfMap: two calls of
\* get_next_key with an iterator kept between them answer as if each started
\* from its key alone, unless the map was written during the walk; and search,
\* update and delete act on the right entry, always.
ImplementsBpfMap == Map!Spec

\* The reply of a table list request that no write has interrupted has every
\* entry of the table exactly once, with its value, in the order of the age list
\* (agent.c, 221 to 232).
ListExact ==
    pc = "reply" /\ touched = {} => items = [i \in DOMAIN age |-> <<key[age[i]], value[age[i]]>>]

\* The agent copies from a NULL pointer only if the very key it is at was
\* written by the program during the request (agent.c, 226 and 227).
CrashOnlyIfTouched == pc = "crashed" => cursor \in touched

\* The element behind a pointer that bpf_map_lookup_elem gave to a program
\* stays allocated, and stays the element of its key, until somebody updates
\* or deletes that key: no operation on another key moves or frees it.
HeldUntilWritten ==
    [][ held # NULL /\ held' = held /\ held \in live /\ key[held] = heldKey =>
            \/ held \in live' /\ key'[held] = heldKey
            \/ last'.op \in {"update", "delete"} /\ last'.key = heldKey ]_vars
=============================================================================
