------------------------------ MODULE ArrayMap ------------------------------
(***************************************************************************)
(* One eBPF array map (arraymap.c): a header and its elements in a single  *)
(* block.  Two threads use it without a lock: the program, through the     *)
(* helpers and through the pointers that lookups give it, and the agent,   *)
(* which serves the controller's table requests.  A copy of an element is  *)
(* made a byte at a time, so that each thread sees the other's half-way.   *)
(***************************************************************************)
EXTENDS BpfCall, Sequences, Functions

CONSTANTS
    Align,      \* elements begin at multiples of this many bytes: 8
    HeaderSize, \* sizeof(struct bpf_array)
    Width,      \* how many values a uint32_t has
    Sizes,      \* max_entries and value_size of the maps that programs declare
    Index,      \* the indices that the program and the controller pass
    Flags,      \* the flags the program passes to bpf_update_elem
    Byte,
    Zero,
    NONE

ASSUME ArrayAssumption ==
    /\ Align \in Nat /\ Align > 1
    /\ HeaderSize \in Nat /\ HeaderSize > 1
    /\ Width \in Nat /\ Width > 0
    /\ Sizes \subseteq (0 .. Width - 1) \X (0 .. Width - 1)
    /\ Index \subseteq 0 .. Width - 1
    /\ Flags \subseteq Nat
    /\ Zero \in Byte
    /\ NONE \notin Nat

Thread == {"agent", "program"}

VARIABLES
    max_entries, value_size,
    value,      \* the bytes of the block that follow the header
    access,     \* the element each thread has open, to copy a value into it or
                \* through a pointer, and what is still to be copied
    pc,         \* where the agent is
    items,      \* the bytes of the list reply it has copied
    touched,    \* history: the elements written since the list request began
    last        \* the last call on the map and its result

map == <<max_entries, value_size>>
request == <<pc, items>>
vars == <<map, value, access, request, touched, last>>

Nothing == [k \in {} |-> Zero]
Closed == [mode |-> "closed", index |-> 0, todo |-> Nothing]

Init ==
    /\ max_entries = 0
    /\ value_size = 0
    /\ value = Nothing
    /\ access = [t \in Thread |-> Closed]
    /\ pc = "none"
    /\ items = << >>
    /\ touched = {}
    /\ last = Call("none", NONE, BPF_ANY, TRUE, NONE)
-----------------------------------------------------------------------------
(* Sizes and addresses                                                     *)

\* mutant: round_down, which stands beside round_up in bpfmap.h
RoundDown(x) == (x \div Align) * Align

RoundUp(x) == ((x + Align - 1) \div Align) * Align

\* array->elem_size, and the first factor of calloc: both uint32_t
ElemSize(bytes) == RoundUp(bytes) % Width
Product(entries, bytes) == (entries * ElemSize(bytes)) % Width

elem_size == ElemSize(value_size)

\* array->elem_size * index
Address(i) == (elem_size * i) % Width

\* is the size of all elements a number that an int holds?
Fits == max_entries * RoundUp(value_size) < Width \div 2
-----------------------------------------------------------------------------
(* The map operations                                                      *)

Served == pc \in {"idle", "list", "reply"}

\* mutant: the block is calloc(max_entries, elem_size), without the header
AllocWithoutHeader(entries, bytes) ==
    /\ pc = "none"
    /\ entries # 0 /\ bytes # 0
    /\ max_entries' = entries
    /\ value_size' = bytes
    /\ pc' = "idle"
    /\ value' = [k \in 0 .. entries * ElemSize(bytes) - HeaderSize - 1 |-> Zero]
    /\ UNCHANGED <<access, items, touched, last>>

\* array_map_alloc.  The block has Product * HeaderSize bytes: when the
\* product has wrapped to 0, the header is written to a block of none.
Alloc(entries, bytes) ==
    /\ pc = "none"
    /\ entries # 0 /\ bytes # 0
    /\ max_entries' = entries
    /\ value_size' = bytes
    /\ IF Product(entries, bytes) = 0
       THEN /\ pc' = "corrupt"
            /\ UNCHANGED value
       ELSE /\ pc' = "idle"
            /\ value' = [k \in 0 .. (Product(entries, bytes) - 1) * HeaderSize - 1 |-> Zero]
    /\ UNCHANGED <<access, items, touched, last>>

Has(i) == i < max_entries

\* mutant: BPF_NOEXIST is not refused, though every element exists
AdmitsAny(flags) == flags <= BPF_EXIST

\* the checks of array_map_update_elem on its flags
Admits(flags) == flags <= BPF_EXIST /\ flags # BPF_NOEXIST

\* the thread is not in the middle of a copy of its own
Free(t) == access[t].mode # "copy"

Values == [0 .. value_size - 1 -> Byte]

\* array_map_update_elem with some value, up to its memcpy
Update(t, i, flags) ==
    /\ Served
    /\ Free(t)
    /\ last' = Call("update", i, flags, Has(i) /\ Admits(flags), NONE)
    /\ IF Has(i) /\ Admits(flags)
       THEN \E v \in Values :
               access' = [access EXCEPT ![t] = [mode |-> "copy", index |-> i, todo |-> v]]
       ELSE UNCHANGED access
    /\ UNCHANGED <<map, value, request, touched>>

Touch(i) == touched' = IF pc = "idle" THEN touched ELSE touched \cup {i}

\* a byte is written at a distance of j from where the element of t begins
WriteAt(t, j, b) ==
    LET k == Address(access[t].index) + j
    IN IF k \in DOMAIN value
       THEN value' = [value EXCEPT ![k] = b] /\ UNCHANGED pc
       ELSE pc' = "corrupt" /\ UNCHANGED value

\* what is left of a copy when its byte j is done
AfterByte(a, j) ==
    IF DOMAIN a.todo = {j} THEN Closed
    ELSE [a EXCEPT !.todo = Restrict(a.todo, DOMAIN a.todo \ {j})]

\* one byte of the memcpy, which may take them in any order and ends the update
Copy(t, j) ==
    /\ Served
    /\ access[t].mode = "copy"
    /\ j \in DOMAIN access[t].todo
    /\ WriteAt(t, j, access[t].todo[j])
    /\ access' = [access EXCEPT ![t] = AfterByte(access[t], j)]
    /\ Touch(access[t].index)
    /\ UNCHANGED <<map, items, last>>

\* array_map_lookup_elem from a program, which keeps the pointer
Lookup(i) ==
    /\ Served
    /\ Free("program")
    /\ last' = Call("lookup", i, BPF_ANY, Has(i), NONE)
    /\ access' = IF Has(i)
                 THEN [access EXCEPT !["program"] =
                          [mode |-> "pointer", index |-> i, todo |-> Nothing]]
                 ELSE access
    /\ UNCHANGED <<map, value, request, touched>>

\* the program writes a byte of the value it points to
Store(j, b) ==
    /\ Served
    /\ access["program"].mode = "pointer"
    /\ j < value_size
    /\ WriteAt("program", j, b)
    /\ Touch(access["program"].index)
    /\ UNCHANGED <<map, access, items, last>>

\* the program returns, and its pointer with it
Return ==
    /\ Served
    /\ access["program"].mode = "pointer"
    /\ access' = [access EXCEPT !["program"] = Closed]
    /\ UNCHANGED <<map, value, request, touched, last>>

\* array_map_delete_elem
Delete(i) ==
    /\ Served
    /\ last' = Call("delete", i, BPF_ANY, FALSE, NONE)
    /\ UNCHANGED <<map, value, access, request, touched>>

\* array_map_get_next_key
GetNextKey(i) ==
    /\ Served
    /\ last' = IF ~Has(i) THEN Call("next", i, BPF_ANY, TRUE, 0)
               ELSE IF i = max_entries - 1 THEN Call("next", i, BPF_ANY, FALSE, NONE)
               ELSE Call("next", i, BPF_ANY, TRUE, i + 1)
    /\ UNCHANGED <<map, value, access, request, touched>>
-----------------------------------------------------------------------------
(* The agent's requests on an array table (agent.c)                        *)

AgentIdle == pc = "idle" /\ access["agent"].mode = "closed"

\* recv_table_entry_insert_request: the flags are 0
EntryInsert(i) == AgentIdle /\ Update("agent", i, BPF_ANY)

EntryDelete(i) == AgentIdle /\ Delete(i)

\* recv_table_entry_get_request: once the reply is sent the agent frees the
\* pointer of the lookup, which no malloc has returned; nothing is known of
\* the heap from then on
EntryGet(i) ==
    /\ AgentIdle
    /\ last' = Call("lookup", i, BPF_ANY, Has(i), NONE)
    /\ pc' = IF Has(i) THEN "freed" ELSE "idle"
    /\ UNCHANGED <<map, value, access, items, touched>>

\* mutant: the copy stops short of the last byte
ListSizeShort == max_entries * value_size - 1

\* n_items * item_size: an int, and negative where it is not below Width / 2
ListSize == (max_entries * value_size) % Width

\* recv_table_list_request; a copy of a negative size does not end well
ListStart ==
    /\ AgentIdle
    /\ pc' = IF ListSize < Width \div 2 THEN "list" ELSE "corrupt"
    /\ items' = << >>
    /\ touched' = {}
    /\ last' = Call("lookup", 0, BPF_ANY, Has(0), NONE)
    /\ UNCHANGED <<map, value, access>>

\* one byte of the memcpy from the first element on
ListCopy ==
    /\ pc = "list"
    /\ Len(items) < ListSize
    /\ LET k == Address(0) + Len(items)
       IN IF k \in DOMAIN value
          THEN items' = Append(items, value[k]) /\ UNCHANGED pc
          ELSE pc' = "corrupt" /\ UNCHANGED items
    /\ UNCHANGED <<map, value, access, touched, last>>

ListCopied ==
    /\ pc = "list"
    /\ Len(items) = ListSize
    /\ pc' = "reply"
    /\ UNCHANGED <<map, value, access, items, touched, last>>

ListReply ==
    /\ pc = "reply"
    /\ pc' = "idle"
    /\ items' = << >>
    /\ touched' = {}
    /\ UNCHANGED <<map, value, access, last>>

ProgramStep ==
    \/ \E i \in Index, flags \in Flags : Update("program", i, flags)
    \/ \E i \in Index : Lookup(i) \/ (Free("program") /\ Delete(i))
    \/ \E j \in 0 .. value_size - 1, b \in Byte : Store(j, b)
    \/ Return

AgentStep ==
    \/ \E i \in Index : EntryInsert(i) \/ EntryDelete(i) \/ EntryGet(i)
    \/ \E i \in Index : AgentIdle /\ GetNextKey(i)
    \/ ListStart \/ ListCopy \/ ListCopied \/ ListReply

Next ==
    \/ \E size \in Sizes : Alloc(size[1], size[2])
    \/ ProgramStep
    \/ AgentStep
    \/ \E t \in Thread : \E j \in 0 .. value_size - 1 : Copy(t, j)

Spec == Init /\ [][Next]_vars
-----------------------------------------------------------------------------
(* Properties                                                              *)

Block == 0 .. (Product(max_entries, value_size) - 1) * HeaderSize - 1
Partial == UNION {[s -> Byte] : s \in SUBSET (0 .. value_size - 1)}

\* Every variable holds what its C type and its use allow.
TypeOK ==
    /\ max_entries \in 0 .. Width - 1
    /\ value_size \in 0 .. Width - 1
    /\ value \in [Block -> Byte]
    /\ access \in [Thread -> [mode : {"closed", "copy", "pointer"},
                              index : Nat, todo : Partial]]
    /\ pc \in {"none", "idle", "list", "reply", "freed", "corrupt"}
    /\ items \in Seq(Byte)
    /\ touched \subseteq Nat

\* As long as the size of all elements is a number that an int holds, no
\* operation leaves the block, whatever index and flags it is given: not the
\* copy of an update, nor a program's store, nor the agent's list, which copies
\* all elements at once (arraymap.c, 21 to 24, 55 and 102; agent.c, 237 to 243).
StaysInBlock == pc = "corrupt" => ~Fits

\* The value of element i in the reply, as cli.py takes it apart (line 168), is
\* the one of the map, for every element that nobody wrote since the request
\* began, provided that value_size is a multiple of 8 or there is one element
\* only: the copy knows nothing of the rounding (agent.c, 236 to 244).
ListedExact ==
    pc = "reply" /\ Fits /\ (value_size = elem_size \/ max_entries = 1) =>
        /\ Len(items) = max_entries * value_size
        /\ \A i \in 0 .. max_entries - 1 : i \notin touched =>
              \A j \in 0 .. value_size - 1 :
                  items[i * value_size + j + 1] = value[Address(i) + j]

Exists == pc # "none" /\ Fits

\* what a user of the map sees: the bytes of each element, who has it open, and
\* the last call
Cells == IF Exists
         THEN [i \in 0 .. max_entries - 1 |->
                  [j \in 0 .. value_size - 1 |-> value[Address(i) + j]]]
         ELSE << >>
Open == [t \in Thread |->
            IF Exists /\ access[t].mode # "closed" THEN access[t].index ELSE NONE]
Last == IF Exists THEN last ELSE Call("none", NONE, BPF_ANY, TRUE, NONE)

Abstract == INSTANCE BpfArray WITH Size <- Sizes, cells <- Cells, open <- Open, last <- Last

\* Where the sizes fit, the map is the array of BpfArray: the elements do not
\* overlap, so that what is written to one, by either thread and however their
\* copies interleave, changes no other; an index or flags out of range are
\* refused and change nothing (arraymap.c, 47 to 112).
ImplementsBpfArray == Abstract!Spec
=============================================================================
