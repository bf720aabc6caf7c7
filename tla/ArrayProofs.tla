---------------------------- MODULE ArrayProofs ----------------------------
(***************************************************************************)
(* Proofs about ArrayMap for maps of any size, any alignment, header and   *)
(* width of integers: as long as the size of all elements is a number that *)
(* an int holds, the elements lie side by side within the block.           *)
(***************************************************************************)
EXTENDS ArrayMap, TLAPS

USE ArrayAssumption

-----------------------------------------------------------------------------
(* The arithmetic of sizes and addresses                                   *)

\* Quotient and remainder.
LEMMA DivMod ==
    ASSUME NEW y \in Nat, NEW a \in Nat, a > 0
    PROVE  /\ y \div a \in Nat
           /\ y % a \in 0 .. a - 1
           /\ y = (y \div a) * a + (y % a)
BY Z3

\* What is below the modulus does not wrap.
LEMMA ModSmall ==
    ASSUME NEW w \in Nat, NEW x \in Nat, x < w
    PROVE  x % w = x
BY Z3

\* Rounding up does not lose a byte, and what it makes of a size is no smaller
\* than the alignment.
LEMMA RoundUpBounds ==
    ASSUME NEW x \in Nat, x > 0
    PROVE  /\ RoundUp(x) \in Nat
           /\ RoundUp(x) >= x
           /\ RoundUp(x) >= Align
<1>1. PICK q \in Nat, r \in 0 .. Align - 1 :
          q = (x + Align - 1) \div Align /\ x + Align - 1 = q * Align + r
  BY DivMod
<1>2. RoundUp(x) = q * Align
  BY <1>1 DEF RoundUp
<1>3. q >= 1
  <2>1. q = 0 => x + Align - 1 = r
    BY <1>1
  <2> QED
    BY <2>1
<1>4. q * Align \in Nat /\ q * Align >= Align
  BY <1>3, Z3
<1> QED
  BY <1>1, <1>2, <1>4

\* A product grows with its factors.
LEMMA ProductGrows ==
    ASSUME NEW e \in Nat, NEW i \in Nat, NEW n \in Nat, i < n
    PROVE  /\ e * i \in Nat /\ n * e \in Nat
           /\ e * i + e <= n * e
<1>1. PICK d \in Nat : n = i + 1 + d
  BY n - i - 1 \in Nat /\ n = i + 1 + (n - i - 1)
<1>2. (i + 1 + d) * e = e * i + e + d * e
  BY Z3
<1>3. d * e \in Nat /\ e * i \in Nat /\ n * e \in Nat
  BY Z3
<1> QED
  BY <1>1, <1>2, <1>3

\* The product of sizes that fit does not wrap, and is not 0.
LEMMA ProductFits ==
    ASSUME NEW n \in Nat, NEW x \in Nat, n > 0, x > 0,
           n * RoundUp(x) < Width \div 2
    PROVE  /\ ElemSize(x) = RoundUp(x)
           /\ n * RoundUp(x) \in Nat
           /\ n * RoundUp(x) < Width
           /\ n * RoundUp(x) >= 2
           /\ Product(n, x) = n * RoundUp(x)
<1> DEFINE e == RoundUp(x)
<1>1. e \in Nat /\ e >= x /\ e >= Align
  BY RoundUpBounds
<1>2. e * 0 + e <= n * e /\ n * e \in Nat
  BY <1>1, ProductGrows
<1>3. Width \div 2 <= Width
  BY DivMod
<1>4. n * e < Width /\ e < Width
  BY <1>1, <1>2, <1>3
<1>5. ElemSize(x) = e
  BY <1>1, <1>4, ModSmall DEF ElemSize
<1>6. Product(n, x) = n * e
  BY <1>2, <1>4, <1>5, ModSmall DEF Product
<1> QED
  BY <1>1, <1>2, <1>4, <1>5, <1>6

\* A map that does not exist has no block.
LEMMA ProductOfNone == Product(0, 0) = 0
<1>1. RoundUp(0) \in Nat
  BY DivMod DEF RoundUp
<1>2. ElemSize(0) \in Nat
  BY <1>1, DivMod DEF ElemSize
<1>3. 0 * ElemSize(0) = 0
  BY <1>2
<1> QED
  BY <1>3, ModSmall DEF Product

\* Where the sizes fit nothing wraps: the address of an element is the sum of
\* the sizes before it, and it ends where the next one begins or the block ends.
LEMMA Layout ==
    ASSUME max_entries \in Nat, max_entries > 0,
           value_size \in Nat, value_size > 0, Fits
    PROVE  /\ elem_size = RoundUp(value_size)
           /\ elem_size \in Nat /\ elem_size >= value_size /\ elem_size > 0
           /\ max_entries * elem_size \in Nat
           /\ max_entries * elem_size < Width
           /\ Product(max_entries, value_size) = max_entries * elem_size
           /\ max_entries * elem_size <= (max_entries * elem_size - 1) * HeaderSize
           /\ \A i \in 0 .. max_entries - 1 :
                 /\ Address(i) = elem_size * i
                 /\ Address(i) \in Nat
                 /\ Address(i) + elem_size <= max_entries * elem_size
<1> DEFINE e == RoundUp(value_size)
           n == max_entries
<1>1. e \in Nat /\ e >= value_size /\ e > 0
  BY RoundUpBounds
<1>2. /\ elem_size = e
      /\ n * e \in Nat /\ n * e < Width /\ n * e >= 2
      /\ Product(n, value_size) = n * e
  BY ProductFits DEF Fits, elem_size
<1>8. n * e <= (n * e - 1) * HeaderSize
  <2>1. ASSUME NEW p \in Nat, p >= 2, NEW h \in Nat, h >= 2
        PROVE  p <= (p - 1) * h
    BY <2>1, Z3
  <2> QED
    BY <1>2, <2>1
<1>9. ASSUME NEW i \in 0 .. n - 1
      PROVE  /\ Address(i) = e * i
             /\ Address(i) \in Nat
             /\ Address(i) + e <= n * e
  <2>1. e * i \in Nat /\ e * i + e <= n * e
    BY <1>1, ProductGrows
  <2>2. e * i < Width
    BY <1>1, <1>2, <2>1
  <2> QED
    BY <1>2, <2>1, <2>2, ModSmall DEF Address
<1> QED
  BY <1>1, <1>2, <1>8, <1>9

\* Two bytes of different elements are different bytes of the block.
LEMMA Disjoint ==
    ASSUME max_entries \in Nat, max_entries > 0,
           value_size \in Nat, value_size > 0, Fits,
           NEW i \in 0 .. max_entries - 1, NEW j \in 0 .. value_size - 1,
           NEW k \in 0 .. max_entries - 1, NEW l \in 0 .. value_size - 1,
           Address(i) + j = Address(k) + l
    PROVE  i = k /\ j = l
<1>1. /\ elem_size \in Nat /\ elem_size >= value_size
      /\ Address(i) = elem_size * i /\ Address(i) \in Nat
      /\ Address(k) = elem_size * k /\ Address(k) \in Nat
  BY Layout
<1>2. ASSUME NEW a \in Nat, NEW b \in Nat, a < b
      PROVE  elem_size * a + elem_size <= elem_size * b
  <2>1. elem_size * a + elem_size <= b * elem_size
    BY <1>1, <1>2, ProductGrows
  <2>2. b * elem_size = elem_size * b
    BY <1>1
  <2> QED
    BY <2>1, <2>2
<1>3. CASE i < k
  BY <1>1, <1>2, <1>3
<1>4. CASE k < i
  BY <1>1, <1>2, <1>4
<1>5. CASE i = k
  BY <1>1, <1>5
<1> QED
  BY <1>3, <1>4, <1>5

\* A byte of an element is a byte of the block.
LEMMA InBlock ==
    ASSUME max_entries \in Nat, max_entries > 0,
           value_size \in Nat, value_size > 0, Fits,
           NEW i \in 0 .. max_entries - 1, NEW j \in 0 .. value_size - 1
    PROVE  Address(i) + j \in Block
<1>1. /\ elem_size \in Nat /\ elem_size >= value_size
      /\ Address(i) \in Nat
      /\ Address(i) + elem_size <= max_entries * elem_size
      /\ max_entries * elem_size \in Nat
      /\ Product(max_entries, value_size) = max_entries * elem_size
      /\ max_entries * elem_size <= (max_entries * elem_size - 1) * HeaderSize
  BY Layout
<1> DEFINE p == max_entries * elem_size
<1>2. (p - 1) * HeaderSize \in Int
  BY <1>1
<1> QED
  BY <1>1, <1>2 DEF Block

\* Where the sizes fit, the size of a list is the product of its factors, and
\* the bytes of a list are bytes of the block.
LEMMA ListFits ==
    ASSUME max_entries \in Nat, max_entries > 0,
           value_size \in Nat, value_size > 0, Fits
    PROVE  /\ ListSize = max_entries * value_size
           /\ ListSize \in Nat
           /\ ListSize < Width \div 2
           /\ \A k \in 0 .. ListSize - 1 : Address(0) + k \in Block
<1> DEFINE p == max_entries * elem_size
<1>1. /\ elem_size = RoundUp(value_size) /\ elem_size \in Nat /\ elem_size >= value_size
      /\ p \in Nat /\ p < Width
      /\ Product(max_entries, value_size) = p
      /\ p <= (p - 1) * HeaderSize
      /\ Address(0) = elem_size * 0
  BY Layout
<1>2. max_entries * value_size \in Nat /\ max_entries * value_size <= p
  <2>1. PICK d \in Nat : elem_size = value_size + d
    BY <1>1, elem_size - value_size \in Nat /\ elem_size = value_size + (elem_size - value_size)
  <2>2. max_entries * (value_size + d) = max_entries * value_size + max_entries * d
    BY Z3
  <2>3. max_entries * value_size \in Nat /\ max_entries * d \in Nat
    BY Z3
  <2> QED
    BY <2>1, <2>2, <2>3
<1>3. ListSize = max_entries * value_size
  <2>1. max_entries * value_size < Width
    BY <1>1, <1>2
  <2> HIDE DEF p
  <2> QED
    BY <1>2, <2>1, ModSmall DEF ListSize
<1>4. Width \div 2 \in Nat
  BY DivMod
<1>5. ListSize < Width \div 2
  BY <1>1, <1>2, <1>3, <1>4 DEF Fits
<1>6. (p - 1) * HeaderSize \in Int
  BY <1>1
<1>7. \A k \in 0 .. ListSize - 1 : Address(0) + k \in Block
  BY <1>1, <1>2, <1>3, <1>6 DEF Block
<1> QED
  BY <1>2, <1>3, <1>5, <1>7
-----------------------------------------------------------------------------
(* Nothing leaves the block                                                *)

\* A map that exists is not empty, and what is open is an element of it.
Sized ==
    /\ pc = "none" => max_entries = 0 /\ value_size = 0
    /\ pc # "none" => max_entries > 0 /\ value_size > 0
    /\ pc = "none" => \A t \in Thread : access[t] = Closed
Opened == \A t \in Thread : access[t].mode # "closed" => access[t].index < max_entries

\* The list request has copied no more than it asked for.
Listing == pc = "list" => Len(items) <= ListSize

Inv == TypeOK /\ Sized /\ Opened /\ Listing /\ StaysInBlock

LEMMA InitInv == Init => Inv
<1> SUFFICES ASSUME Init
             PROVE  Inv
  OBVIOUS
<1> USE DEF Init
<1>1. Nothing \in [{} -> Byte] /\ {} \in SUBSET (0 .. value_size - 1)
  BY DEF Nothing
<1>2. Closed \in [mode : {"closed", "copy", "pointer"}, index : Nat, todo : Partial]
  BY <1>1 DEF Closed, Partial
<1>3. Block = {}
  BY ProductOfNone DEF Block
<1>4. value \in [Block -> Byte]
  BY <1>3 DEF Nothing
<1>5. TypeOK
  BY <1>2, <1>4 DEF TypeOK
<1>6. Opened
  BY DEF Opened, Closed
<1> QED
  BY <1>5, <1>6 DEF Inv, Sized, Listing, StaysInBlock

\* A byte that a thread writes to the element it has open is written in the
\* block, if the sizes fit.
LEMMA WriteKeeps ==
    ASSUME Inv, Served, NEW t \in Thread, access[t].mode # "closed",
           NEW j \in 0 .. value_size - 1, NEW b \in Byte, WriteAt(t, j, b)
    PROVE  /\ value' \in [Block -> Byte]
           /\ pc' \in {pc, "corrupt"}
           /\ Fits => /\ pc' = pc
                      /\ Address(access[t].index) + j \in Block
                      /\ value' = [value EXCEPT ![Address(access[t].index) + j] = b]
<1>1. /\ value \in [Block -> Byte]
      /\ max_entries \in Nat /\ max_entries > 0
      /\ value_size \in Nat /\ value_size > 0
      /\ access[t].index \in 0 .. max_entries - 1
  BY DEF Inv, TypeOK, Sized, Opened, Served
<1> DEFINE k == Address(access[t].index) + j
<1>2. \/ k \in Block /\ value' = [value EXCEPT ![k] = b] /\ pc' = pc
      \/ k \notin Block /\ value' = value /\ pc' = "corrupt"
  BY <1>1 DEF WriteAt
<1>3. Fits => k \in Block
  BY <1>1, InBlock
<1> HIDE DEF k
<1>4. value' \in [Block -> Byte]
  BY <1>1, <1>2
<1> QED
  BY <1>2, <1>3, <1>4 DEF k

\* Nothing of a map that is there changes with its other variables.
LEMMA MapKept ==
    ASSUME UNCHANGED map
    PROVE  /\ Block' = Block
           /\ Partial' = Partial
           /\ Fits' = Fits
           /\ ListSize' = ListSize
           /\ elem_size' = elem_size
           /\ \A i : Address(i)' = Address(i)
BY DEF map, Block, Partial, Fits, ListSize, elem_size, Address

\* Every step keeps the invariant.
LEMMA NextInv == Inv /\ [Next]_vars => Inv'
<1> SUFFICES ASSUME Inv, [Next]_vars
             PROVE  Inv'
  OBVIOUS
<1> DEFINE Access == [mode : {"closed", "copy", "pointer"}, index : Nat, todo : Partial]
<1>0. /\ access \in [Thread -> Access]
      /\ max_entries \in Nat /\ value_size \in Nat
      /\ Index \subseteq Nat
  BY DEF Inv, TypeOK
<1>a. Nothing \in Partial /\ Closed \in Access /\ Closed.mode = "closed"
  <2>1. Nothing \in [{} -> Byte] /\ {} \in SUBSET (0 .. value_size - 1)
    BY DEF Nothing
  <2>2. Nothing \in Partial
    BY <2>1 DEF Partial
  <2> QED
    BY <2>2 DEF Closed
<1>1. ASSUME NEW size \in Sizes, Alloc(size[1], size[2])
      PROVE  Inv'
  <2> DEFINE n == size[1]
             s == size[2]
  <2>1. /\ n \in 0 .. Width - 1 /\ s \in 0 .. Width - 1
        /\ n > 0 /\ s > 0
        /\ max_entries' = n /\ value_size' = s
        /\ pc = "none"
    BY <1>1 DEF Alloc
  <2>2. /\ UNCHANGED <<access, items, touched>>
        /\ access = [t \in Thread |-> Closed]
    BY <1>0, <1>1, <2>1 DEF Alloc, Inv, Sized
  <2>3. Block' = 0 .. (Product(n, s) - 1) * HeaderSize - 1
    BY <2>1 DEF Block
  <2>4. value' \in [Block' -> Byte] /\ pc' \in {"idle", "corrupt"}
    <3>1. CASE Product(n, s) = 0
      <4>1. value' = value /\ pc' = "corrupt"
        BY <1>1, <3>1 DEF Alloc
      <4>2. Block' = {}
        BY <2>3, <3>1
      <4>3. Block = {}
        BY <2>1, ProductOfNone DEF Block, Inv, Sized
      <4> QED
        BY <4>1, <4>2, <4>3 DEF Inv, TypeOK
    <3>2. CASE Product(n, s) # 0
      BY <1>1, <2>3, <3>2 DEF Alloc
    <3> QED
      BY <3>1, <3>2
  <2>5. pc' = "corrupt" => ~Fits'
    <3> SUFFICES ASSUME Fits', pc' = "corrupt"
                 PROVE  FALSE
      OBVIOUS
    <3>1. Product(n, s) = 0
      BY <1>1 DEF Alloc
    <3>2. Product(n, s) = n * RoundUp(s) /\ n * RoundUp(s) >= 2
      BY <2>1, ProductFits DEF Fits
    <3> QED
      BY <3>1, <3>2
  <2>6. Nothing \in Partial'
    <3>1. Nothing \in [{} -> Byte] /\ {} \in SUBSET (0 .. value_size' - 1)
      BY DEF Nothing
    <3> QED
      BY <3>1 DEF Partial
  <2>7. TypeOK'
    BY <2>1, <2>2, <2>4, <2>6 DEF TypeOK, Inv, Closed
  <2> QED
    BY <1>a, <2>1, <2>2, <2>4, <2>5, <2>7 DEF Inv, Sized, Opened, Listing, StaysInBlock
<1>2. ASSUME UNCHANGED map, pc # "none",
             value' \in [Block -> Byte],
             access' \in [Thread -> Access],
             \A t \in Thread : access'[t].mode # "closed" =>
                 access'[t].index < max_entries,
             pc' \in {"idle", "list", "reply", "freed", "corrupt"},
             items' \in Seq(Byte),
             touched' \subseteq Nat,
             pc' = "list" => Len(items') <= ListSize,
             pc' = "corrupt" => ~Fits
      PROVE  Inv'
  <2>1. TypeOK'
    BY <1>0, <1>2, MapKept DEF Inv, TypeOK, map
  <2>2. Sized' /\ Opened' /\ Listing' /\ StaysInBlock'
    BY <1>2, MapKept DEF Inv, Sized, Opened, Listing, StaysInBlock, map
  <2> QED
    BY <2>1, <2>2 DEF Inv
<1>3. ASSUME Served, NEW t \in Thread, NEW i \in Nat, NEW flags, Update(t, i, flags)
      PROVE  Inv'
  <2>1. UNCHANGED <<map, value, pc, items, touched>>
    BY <1>3 DEF Update, request
  <2>2. /\ access' \in [Thread -> Access]
        /\ \A u \in Thread : access'[u].mode # "closed" => access'[u].index < max_entries
    <3>1. CASE Has(i) /\ Admits(flags)
      <4>1. PICK v \in Values :
                access' = [access EXCEPT ![t] = [mode |-> "copy", index |-> i, todo |-> v]]
        BY <1>3, <3>1 DEF Update
      <4>2. v \in Partial
        BY DEF Values, Partial
      <4> QED
        BY <1>0, <1>3, <3>1, <4>1, <4>2 DEF Has, Inv, Opened
    <3>2. CASE ~(Has(i) /\ Admits(flags))
      BY <1>0, <1>3, <3>2 DEF Update, Inv, Opened
    <3> QED
      BY <3>1, <3>2
  <2> QED
    BY <1>2, <1>3, <2>1, <2>2 DEF Inv, TypeOK, Listing, Served
<1>4. ASSUME NEW t \in Thread, NEW j \in 0 .. value_size - 1, Copy(t, j)
      PROVE  Inv'
  <2>1. /\ Served /\ access[t].mode = "copy" /\ j \in DOMAIN access[t].todo
        /\ WriteAt(t, j, access[t].todo[j])
        /\ Touch(access[t].index)
        /\ UNCHANGED <<map, items>>
    BY <1>4 DEF Copy
  <2>2. PICK d \in SUBSET (0 .. value_size - 1) : access[t].todo \in [d -> Byte]
    <3>1. access[t].todo \in Partial
      BY <1>0
    <3> QED
      BY <3>1 DEF Partial
  <2>3. access[t].todo[j] \in Byte
    BY <2>1, <2>2
  <2>4. /\ value' \in [Block -> Byte]
        /\ pc' \in {pc, "corrupt"}
        /\ pc' = "corrupt" => ~Fits
    BY <2>1, <2>3, WriteKeeps DEF Served
  <2>5. Restrict(access[t].todo, d \ {j}) \in Partial
    <3>1. Restrict(access[t].todo, d \ {j}) \in [d \ {j} -> Byte]
      BY <2>2 DEF Restrict
    <3> QED
      BY <3>1 DEF Partial
  <2>6. /\ AfterByte(access[t], j) \in Access
        /\ AfterByte(access[t], j).mode # "closed" =>
               AfterByte(access[t], j).index = access[t].index
    <3>1. CASE DOMAIN access[t].todo = {j}
      BY <1>a, <3>1 DEF AfterByte
    <3>2. CASE DOMAIN access[t].todo # {j}
      <4>1. access[t] \in Access /\ DOMAIN access[t].todo = d
        BY <1>0, <2>2
      <4> QED
        BY <2>5, <3>2, <4>1 DEF AfterByte
    <3> QED
      BY <3>1, <3>2
  <2>a. access' = [access EXCEPT ![t] = AfterByte(access[t], j)]
    BY <1>4 DEF Copy
  <2>7. /\ access' \in [Thread -> Access]
        /\ \A u \in Thread : access'[u].mode # "closed" => access'[u].index < max_entries
    BY <1>0, <2>1, <2>6, <2>a DEF Inv, Opened
  <2>8. touched' \subseteq Nat
    BY <1>0, <2>1 DEF Touch, Inv, TypeOK
  <2> QED
    BY <1>2, <2>1, <2>4, <2>7, <2>8 DEF Inv, TypeOK, Listing, Served
<1>5. ASSUME NEW i \in Index, Lookup(i)
      PROVE  Inv'
  <2>1. Served /\ UNCHANGED <<map, value, pc, items, touched>>
    BY <1>5 DEF Lookup, request
  <2>2. /\ access' \in [Thread -> Access]
        /\ \A u \in Thread : access'[u].mode # "closed" => access'[u].index < max_entries
    <3>1. CASE Has(i)
      BY <1>0, <1>a, <1>5, <3>1 DEF Lookup, Has, Thread, Inv, Opened
    <3>2. CASE ~Has(i)
      BY <1>0, <1>5, <3>2 DEF Lookup, Inv, Opened
    <3> QED
      BY <3>1, <3>2
  <2> QED
    BY <1>2, <2>1, <2>2 DEF Inv, TypeOK, Listing, Served
<1>6. ASSUME NEW j \in 0 .. value_size - 1, NEW b \in Byte, Store(j, b)
      PROVE  Inv'
  <2>1. /\ Served /\ access["program"].mode = "pointer" /\ "program" \in Thread
        /\ WriteAt("program", j, b)
        /\ Touch(access["program"].index)
        /\ UNCHANGED <<map, access, items>>
    BY <1>6 DEF Store, Thread
  <2>2. /\ value' \in [Block -> Byte]
        /\ pc' \in {pc, "corrupt"}
        /\ pc' = "corrupt" => ~Fits
    BY <2>1, WriteKeeps DEF Served
  <2>3. touched' \subseteq Nat
    BY <1>0, <2>1 DEF Touch, Inv, TypeOK
  <2> QED
    BY <1>0, <1>2, <2>1, <2>2, <2>3 DEF Inv, TypeOK, Opened, Listing, Served
<1>7. CASE Return
  <2>1. /\ access' \in [Thread -> Access]
        /\ \A u \in Thread : access'[u].mode # "closed" => access'[u].index < max_entries
    BY <1>0, <1>a, <1>7 DEF Return, Inv, Opened
  <2> QED
    BY <1>2, <1>7, <2>1 DEF Return, Inv, TypeOK, Listing, Served, request
<1>8. ASSUME NEW i \in Index, Delete(i) \/ GetNextKey(i)
      PROVE  Inv'
  BY <1>0, <1>2, <1>8 DEF Delete, GetNextKey, Inv, TypeOK, Opened, Listing, Served, request
<1>9. ASSUME NEW i \in Index, EntryGet(i)
      PROVE  Inv'
  BY <1>0, <1>2, <1>9 DEF EntryGet, AgentIdle, Inv, TypeOK, Opened, Listing
<1>10. CASE ListStart
  <2>1. ListSize >= 0 /\ Width \div 2 \in Nat
    <3>1. max_entries * value_size \in Nat
      BY <1>0
    <3> QED
      BY <3>1, DivMod DEF ListSize
  <2>2. pc' = "corrupt" => ~Fits
    <3> SUFFICES ASSUME Fits
                 PROVE  ListSize < Width \div 2
      BY <1>10 DEF ListStart
    <3>1. pc # "none" /\ max_entries > 0 /\ value_size > 0
      BY <1>10 DEF ListStart, AgentIdle, Inv, Sized
    <3> QED
      BY <1>0, <2>1, <3>1, ListFits
  <2> QED
    BY <1>0, <1>2, <1>10, <2>1, <2>2 DEF ListStart, AgentIdle, Inv, TypeOK, Opened
<1>11. CASE ListCopy
  <2>1. /\ pc = "list" /\ Len(items) < ListSize
        /\ UNCHANGED <<map, value, access, touched>>
    BY <1>11 DEF ListCopy
  <2>2. ListSize \in Nat
    <3>1. max_entries * value_size \in Nat
      BY <1>0
    <3> QED
      BY <3>1, DivMod DEF ListSize
  <2>3. /\ pc' = "list" => items' \in Seq(Byte) /\ Len(items') = Len(items) + 1
        /\ items' \in Seq(Byte)
        /\ pc' \in {"list", "corrupt"}
    <3>1. value \in [Block -> Byte] /\ items \in Seq(Byte)
      BY DEF Inv, TypeOK
    <3> QED
      BY <1>11, <3>1 DEF ListCopy
  <2>4. pc' = "corrupt" => ~Fits
    <3> SUFFICES ASSUME Fits
                 PROVE  Address(0) + Len(items) \in DOMAIN value
      BY <1>11, <2>1 DEF ListCopy
    <3>1. max_entries > 0 /\ value_size > 0 /\ Len(items) \in Nat
      BY <2>1 DEF Inv, Sized, TypeOK
    <3>2. Address(0) + Len(items) \in Block
      BY <1>0, <2>1, <3>1, ListFits
    <3> QED
      BY <3>2 DEF Inv, TypeOK
  <2>5. pc' = "list" => Len(items') <= ListSize
    BY <2>1, <2>2, <2>3 DEF Inv, TypeOK
  <2> QED
    BY <1>0, <1>2, <2>1, <2>3, <2>4, <2>5 DEF Inv, TypeOK, Opened
<1>12. CASE ListCopied
  BY <1>0, <1>2, <1>12 DEF ListCopied, Inv, TypeOK, Opened
<1>13. CASE ListReply
  BY <1>0, <1>2, <1>13 DEF ListReply, Inv, TypeOK, Opened
<1>14. CASE UNCHANGED vars
  BY <1>14, MapKept DEF vars, map, request, Inv, TypeOK, Sized, Opened, Listing, StaysInBlock
<1> QED
  <2>1. CASE \E size \in Sizes : Alloc(size[1], size[2])
    BY <1>1, <2>1
  <2>2. CASE ProgramStep
    <3>1. "program" \in Thread /\ \A i \in Index : i \in Nat
      BY <1>0 DEF Thread
    <3> QED
      BY <1>3, <1>5, <1>6, <1>7, <1>8, <2>2, <3>1 DEF ProgramStep, Update
  <2>3. CASE AgentStep
    <3>1. "agent" \in Thread /\ \A i \in Index : i \in Nat
      BY <1>0 DEF Thread
    <3> QED
      BY <1>3, <1>8, <1>9, <1>10, <1>11, <1>12, <1>13, <2>3, <3>1
         DEF AgentStep, EntryInsert, EntryDelete, Update
  <2> QED
    BY <1>4, <1>14, <2>1, <2>2, <2>3 DEF Next

\* Every variable of the map holds what its C type and its use allow, whatever
\* the sizes, the indices and the flags it is used with.
THEOREM TypeCorrect == Spec => []TypeOK
<1>1. Init => Inv
  BY InitInv
<1>2. Inv /\ [Next]_vars => Inv'
  BY NextInv
<1>3. Inv => TypeOK
  BY DEF Inv
<1> QED
  BY <1>1, <1>2, <1>3, PTL DEF Spec

\* Where the sizes fit an int, no operation of the map or of the agent leaves
\* the block, for every alignment, header, width and use of the map.
THEOREM StaysInBlockHolds == Spec => []StaysInBlock
<1>1. Init => Inv
  BY InitInv
<1>2. Inv /\ [Next]_vars => Inv'
  BY NextInv
<1>3. Inv => StaysInBlock
  BY DEF Inv
<1> QED
  BY <1>1, <1>2, <1>3, PTL DEF Spec
-----------------------------------------------------------------------------
(* The list request                                                        *)

\* The sizes for which the list is a copy of the elements.
Plain == Fits /\ (value_size = elem_size \/ max_entries = 1)

\* What has been copied is in the map still, unless it was written since.
Copied ==
    Plain /\ pc \in {"list", "reply"} =>
        \A i \in 0 .. max_entries - 1 : i \notin touched =>
            \A j \in 0 .. value_size - 1 : i * value_size + j < Len(items) =>
                items[i * value_size + j + 1] = value[Address(i) + j]

Complete == pc = "reply" => Len(items) = ListSize

ListInv == Inv /\ Copied /\ Complete

\* With the map, what Copied says of it stays as it is.
LEMMA CopiedKept ==
    ASSUME UNCHANGED map,
           Plain /\ pc' \in {"list", "reply"} =>
               \A i \in 0 .. max_entries - 1 : i \notin touched' =>
                   \A j \in 0 .. value_size - 1 : i * value_size + j < Len(items') =>
                       items'[i * value_size + j + 1] = value'[Address(i) + j]
    PROVE  Copied'
<1>1. /\ max_entries' = max_entries /\ value_size' = value_size
      /\ \A i : Address(i)' = Address(i)
  BY MapKept DEF map
<1>2. Plain' = Plain
  <2>1. Fits' = Fits /\ elem_size' = elem_size
    BY MapKept
  <2> QED
    BY <1>1, <2>1 DEF Plain
<1> QED
  BY <1>1, <1>2 DEF Copied

\* Where the sizes are plain, the list takes each byte from where its element
\* has it.
LEMMA SamePlace ==
    ASSUME max_entries \in Nat, max_entries > 0,
           value_size \in Nat, value_size > 0, Plain,
           NEW i \in 0 .. max_entries - 1, NEW j \in 0 .. value_size - 1
    PROVE  Address(0) + (i * value_size + j) = Address(i) + j
<1>0. Fits /\ 0 \in 0 .. max_entries - 1
  BY DEF Plain
<1>1. /\ elem_size \in Nat
      /\ Address(0) = elem_size * 0
      /\ Address(i) = elem_size * i /\ Address(i) \in Nat
  BY <1>0, Layout
<1>2. elem_size * i = i * value_size
  <2>1. CASE value_size = elem_size
    BY <1>1, <2>1
  <2>2. CASE max_entries = 1
    <3>1. i = 0
      BY <2>2
    <3>2. elem_size * 0 = 0 /\ 0 * value_size = 0
      BY <1>1
    <3> QED
      BY <3>1, <3>2
  <2> QED
    BY <2>1, <2>2 DEF Plain
<1> QED
  BY <1>1, <1>2

\* A byte that a thread writes is not a byte of an element that nobody wrote
\* since the list request began.
LEMMA WriteKeepsCopied ==
    ASSUME ListInv, Served, NEW t \in Thread, access[t].mode # "closed",
           NEW j \in 0 .. value_size - 1, NEW b \in Byte, WriteAt(t, j, b),
           Touch(access[t].index), UNCHANGED map, UNCHANGED items
    PROVE  Copied'
<1> SUFFICES ASSUME Plain, pc' \in {"list", "reply"},
                    NEW i \in 0 .. max_entries - 1, i \notin touched',
                    NEW l \in 0 .. value_size - 1, i * value_size + l < Len(items)
             PROVE  items[i * value_size + l + 1] = value'[Address(i) + l]
  BY CopiedKept
<1> DEFINE a == access[t].index
<1>1. /\ value \in [Block -> Byte]
      /\ max_entries \in Nat /\ max_entries > 0
      /\ value_size \in Nat /\ value_size > 0
      /\ a \in 0 .. max_entries - 1
      /\ Fits
  BY DEF ListInv, Inv, TypeOK, Sized, Opened, Served, Plain
<1>2. /\ pc' = pc
      /\ value' = [value EXCEPT ![Address(a) + j] = b]
  BY <1>1, WriteKeeps DEF ListInv
<1>3. i \notin touched /\ i # a
  BY <1>2 DEF Touch
<1>4. items[i * value_size + l + 1] = value[Address(i) + l]
  BY <1>2, <1>3 DEF ListInv, Copied
<1>5. Address(i) + l # Address(a) + j
  BY <1>1, <1>3, Disjoint
<1>6. Address(i) + l \in Block
  BY <1>1, InBlock
<1> HIDE DEF a
<1> QED
  BY <1>1, <1>2, <1>4, <1>5, <1>6

\* Every step keeps the invariant of the list request.
LEMMA ListNext == ListInv /\ [Next]_vars => ListInv'
<1> SUFFICES ASSUME ListInv, [Next]_vars
             PROVE  Copied' /\ Complete'
  BY NextInv DEF ListInv
<1>0. Inv /\ Copied /\ Complete
  BY DEF ListInv
<1>1. ASSUME UNCHANGED <<map, value, items>>,
             pc' \in {"idle", "freed", "corrupt"} \/ (pc' = pc /\ touched \subseteq touched')
      PROVE  Copied' /\ Complete'
  <2>1. UNCHANGED map /\ ListSize' = ListSize
    BY <1>1, MapKept
  <2>2. Copied'
    BY <1>0, <1>1, <2>1, CopiedKept DEF Copied
  <2> QED
    BY <1>0, <1>1, <2>1, <2>2 DEF Complete
<1>2. ASSUME NEW size \in Sizes, Alloc(size[1], size[2])
      PROVE  Copied' /\ Complete'
  BY <1>2 DEF Alloc, Copied, Complete
<1>3. ASSUME NEW t \in Thread, NEW j \in 0 .. value_size - 1, Copy(t, j)
      PROVE  Copied' /\ Complete'
  <2>1. /\ Served /\ access[t].mode = "copy" /\ j \in DOMAIN access[t].todo
        /\ WriteAt(t, j, access[t].todo[j])
        /\ Touch(access[t].index)
        /\ UNCHANGED map /\ UNCHANGED items
    BY <1>3 DEF Copy
  <2>2. access[t].todo[j] \in Byte
    BY <1>0, <2>1 DEF Inv, TypeOK, Partial
  <2>3. Copied'
    BY <2>1, <2>2, WriteKeepsCopied
  <2>4. pc' \in {pc, "corrupt"}
    BY <2>1 DEF WriteAt
  <2> QED
    BY <1>0, <2>1, <2>3, <2>4, MapKept DEF Complete
<1>4. ASSUME NEW j \in 0 .. value_size - 1, NEW b \in Byte, Store(j, b)
      PROVE  Copied' /\ Complete'
  <2>1. /\ Served /\ access["program"].mode = "pointer" /\ "program" \in Thread
        /\ WriteAt("program", j, b)
        /\ Touch(access["program"].index)
        /\ UNCHANGED map /\ UNCHANGED items
    BY <1>4 DEF Store, Thread
  <2>2. Copied'
    BY <2>1, WriteKeepsCopied
  <2>3. pc' \in {pc, "corrupt"}
    BY <2>1 DEF WriteAt
  <2> QED
    BY <1>0, <2>1, <2>2, <2>3, MapKept DEF Complete
<1>5. CASE ListStart
  <2>1. UNCHANGED map /\ items' = << >> /\ pc' # "reply"
    BY <1>5 DEF ListStart
  <2>2. \A i \in 0 .. max_entries - 1 : \A j \in 0 .. value_size - 1 :
            ~(i * value_size + j < Len(items'))
    <3>1. max_entries \in Nat /\ value_size \in Nat
      BY <1>0 DEF Inv, TypeOK
    <3>2. ASSUME NEW i \in 0 .. max_entries - 1
          PROVE  i * value_size \in Nat
      BY <3>1
    <3> QED
      BY <2>1, <3>1, <3>2
  <2>3. Copied'
    BY <2>1, <2>2, CopiedKept
  <2> QED
    BY <2>1, <2>3 DEF Complete
<1>6. CASE ListCopy
  <2>1. /\ pc = "list" /\ Len(items) < ListSize
        /\ UNCHANGED <<map, value, touched>>
        /\ pc' \in {"list", "corrupt"}
    BY <1>6 DEF ListCopy
  <2>2. Complete'
    BY <2>1 DEF Complete
  <2>3. ASSUME Plain, pc' = "list",
               NEW i \in 0 .. max_entries - 1, i \notin touched,
               NEW j \in 0 .. value_size - 1, i * value_size + j < Len(items')
        PROVE  items'[i * value_size + j + 1] = value[Address(i) + j]
    <3>1. /\ items \in Seq(Byte) /\ value \in [Block -> Byte]
          /\ max_entries \in Nat /\ max_entries > 0
          /\ value_size \in Nat /\ value_size > 0
      BY <1>0, <2>1 DEF Inv, TypeOK, Sized
    <3>2. items' = Append(items, value[Address(0) + Len(items)])
      BY <1>6, <2>3 DEF ListCopy
    <3>3. Address(0) + Len(items) \in Block
      BY <2>1, <2>3, <3>1, ListFits DEF Plain
    <3>4. value[Address(0) + Len(items)] \in Byte
      BY <3>1, <3>3
    <3>5. i * value_size \in Nat
      BY <3>1
    <3>6. CASE i * value_size + j < Len(items)
      <4>1. items[i * value_size + j + 1] = value[Address(i) + j]
        BY <1>0, <2>1, <2>3, <3>6 DEF Copied
      <4> DEFINE k == i * value_size + j + 1
      <4>2. k \in 1 .. Len(items)
        BY <3>1, <3>5, <3>6
      <4> HIDE DEF k
      <4>3. items'[k] = items[k]
        BY <3>1, <3>2, <3>4, <4>2
      <4> QED
        BY <4>1, <4>3 DEF k
    <3>7. CASE i * value_size + j = Len(items)
      <4>1. Address(0) + Len(items) = Address(i) + j
        BY <2>3, <3>1, <3>7, SamePlace
      <4>2. items'[Len(items) + 1] = value[Address(0) + Len(items)]
        BY <3>1, <3>2, <3>4
      <4> QED
        BY <3>7, <4>1, <4>2
    <3>8. Len(items') = Len(items) + 1 /\ Len(items) \in Nat
      BY <3>1, <3>2, <3>4
    <3> QED
      BY <2>3, <3>1, <3>5, <3>6, <3>7, <3>8
  <2>4. Copied'
    <3>1. UNCHANGED map /\ UNCHANGED value /\ UNCHANGED touched
      BY <2>1
    <3> QED
      BY <2>1, <2>3, <3>1, CopiedKept
  <2> QED
    BY <2>2, <2>4
<1>7. CASE ListCopied
  <2>1. /\ UNCHANGED map /\ UNCHANGED value /\ UNCHANGED items /\ UNCHANGED touched
        /\ pc = "list" /\ pc' = "reply" /\ Len(items) = ListSize
    BY <1>7 DEF ListCopied
  <2>2. Copied'
    BY <1>0, <2>1, CopiedKept DEF Copied
  <2> QED
    BY <2>1, <2>2, MapKept DEF Complete
<1>8. CASE ListReply
  BY <1>8 DEF ListReply, Copied, Complete
<1>9. CASE UNCHANGED vars
  BY <1>1, <1>9 DEF vars, map, request
<1>10. ASSUME NEW t \in Thread, NEW i, NEW flags, Update(t, i, flags)
       PROVE  Copied' /\ Complete'
  BY <1>1, <1>10 DEF Update, request
<1>11. ASSUME NEW i, Lookup(i) \/ Delete(i) \/ GetNextKey(i) \/ EntryGet(i)
       PROVE  Copied' /\ Complete'
  <2>1. /\ UNCHANGED <<map, value, items, touched>>
        /\ pc' \in {pc, "idle", "freed"}
    BY <1>11 DEF Lookup, Delete, GetNextKey, EntryGet, request
  <2> QED
    BY <1>1, <2>1
<1>12. CASE Return
  BY <1>1, <1>12 DEF Return, request
<1> QED
  <2>0. "agent" \in Thread /\ "program" \in Thread
    BY DEF Thread
  <2>1. CASE \E size \in Sizes : Alloc(size[1], size[2])
    BY <1>2, <2>1
  <2>2. CASE ProgramStep
    BY <1>4, <1>10, <1>11, <1>12, <2>0, <2>2 DEF ProgramStep
  <2>3. CASE AgentStep
    BY <1>5, <1>6, <1>7, <1>8, <1>10, <1>11, <2>0, <2>3
       DEF AgentStep, EntryInsert, EntryDelete
  <2> QED
    BY <1>3, <1>9, <2>1, <2>2, <2>3 DEF Next

\* The reply to a list request holds the values of the map, as the CLI takes
\* them apart, for every element that nobody wrote meanwhile: for maps of any
\* size whose values fill their elements, or that have one element only.
THEOREM ListedExactHolds == Spec => []ListedExact
<1>1. Init => ListInv
  BY InitInv DEF ListInv, Init, Copied, Complete
<1>2. ListInv /\ [Next]_vars => ListInv'
  BY ListNext
<1>3. ListInv => ListedExact
  <2> SUFFICES ASSUME ListInv, pc = "reply", Plain
               PROVE  /\ Len(items) = max_entries * value_size
                      /\ \A i \in 0 .. max_entries - 1 : i \notin touched =>
                            \A j \in 0 .. value_size - 1 :
                                items[i * value_size + j + 1] = value[Address(i) + j]
    BY DEF ListedExact, Plain
  <2>1. /\ max_entries \in Nat /\ max_entries > 0
        /\ value_size \in Nat /\ value_size > 0
    BY DEF ListInv, Inv, TypeOK, Sized
  <2>2. Len(items) = max_entries * value_size
    BY <2>1, ListFits DEF ListInv, Complete, Plain
  <2>3. ASSUME NEW i \in 0 .. max_entries - 1, NEW j \in 0 .. value_size - 1
        PROVE  i * value_size + j < Len(items)
    <3>1. value_size * i + value_size <= max_entries * value_size
      BY <2>1, ProductGrows
    <3>2. value_size * i = i * value_size /\ i * value_size \in Nat
      BY <2>1
    <3> QED
      BY <2>1, <2>2, <3>1, <3>2
  <2> QED
    BY <2>2, <2>3 DEF ListInv, Copied
<1> QED
  BY <1>1, <1>2, <1>3, PTL DEF Spec
-----------------------------------------------------------------------------
(* The array map implements the abstract array                             *)

\* nothing was called before there is a map
Fresh == pc = "none" => last = Call("none", NONE, BPF_ANY, TRUE, NONE)

Shown == Inv /\ Fresh

LEMMA InitRefines == Init => Abstract!Init
BY DEF Init, Abstract!Init, Cells, Open, Last, Exists, Closed, Abstract!Call, Call, Abstract!BPF_ANY, BPF_ANY

LEMMA StutterRefines ==
    ASSUME UNCHANGED <<Cells, Open, Last>>
    PROVE  UNCHANGED Abstract!vars
BY DEF Abstract!vars

\* With the map, the elements and the last call unchanged the rest is not seen.
LEMMA SameSeen ==
    ASSUME UNCHANGED <<map, value>>, pc # "none", pc' # "none"
    PROVE  UNCHANGED <<Cells, Exists>>
BY DEF Cells, Exists, Fits, map, Address, elem_size, ElemSize, RoundUp

\* A map that exists has an element, and is indexed by the numbers below its size.
LEMMA Indices ==
    ASSUME Inv, Exists
    PROVE  /\ DOMAIN Cells = 0 .. max_entries - 1
           /\ 0 \in DOMAIN Cells
           /\ \A i \in Nat : i \in DOMAIN Cells <=> Has(i)
<1>1. max_entries \in Nat /\ max_entries > 0
  BY DEF Inv, TypeOK, Sized, Exists
<1> QED
  BY <1>1 DEF Cells, Has

\* A byte written to an element is a byte of that element and of no other.
LEMMA WriteSeen ==
    ASSUME Inv, Exists, Served, NEW t \in Thread, access[t].mode # "closed",
           NEW j \in 0 .. value_size - 1, NEW b \in Byte, WriteAt(t, j, b), UNCHANGED map
    PROVE  /\ pc' = pc /\ Exists'
           /\ Open[t] \in DOMAIN Cells
           /\ j \in DOMAIN Cells[Open[t]]
           /\ Cells' = [Cells EXCEPT ![Open[t]][j] = b]
<1> DEFINE a == access[t].index
<1>1. /\ max_entries \in Nat /\ max_entries > 0
      /\ value_size \in Nat /\ value_size > 0
      /\ a \in 0 .. max_entries - 1
      /\ value \in [Block -> Byte]
      /\ Fits
  BY DEF Inv, TypeOK, Sized, Opened, Exists
<1>2. /\ pc' = pc
      /\ value' = [value EXCEPT ![Address(a) + j] = b]
  BY <1>1, WriteKeeps
<1>3. Exists' /\ max_entries' = max_entries /\ value_size' = value_size
  BY <1>2 DEF Exists, Fits, map
<1>4. \A i : Address(i)' = Address(i)
  BY <1>3 DEF Address, elem_size
<1>5. Open[t] = a
  BY DEF Open
<1>6. ASSUME NEW i \in 0 .. max_entries - 1, NEW l \in 0 .. value_size - 1
      PROVE  value'[Address(i) + l] = IF i = a /\ l = j THEN b ELSE value[Address(i) + l]
  <2>1. Address(i) + l \in Block
    BY <1>1, InBlock
  <2>2. Address(i) + l = Address(a) + j => i = a /\ l = j
    BY <1>1, Disjoint
  <2> HIDE DEF a
  <2> QED
    BY <1>1, <1>2, <2>1, <2>2
<1> HIDE DEF a
<1>7. Cells = [i \in 0 .. max_entries - 1 |->
                  [l \in 0 .. value_size - 1 |-> value[Address(i) + l]]]
  BY DEF Cells
<1>8. Cells' = [i \in 0 .. max_entries - 1 |->
                   [l \in 0 .. value_size - 1 |-> value'[Address(i) + l]]]
  BY <1>3, <1>4 DEF Cells
<1> DEFINE New == [Cells EXCEPT ![a][j] = b]
<1>9. /\ New = [i \in 0 .. max_entries - 1 |-> New[i]]
      /\ \A i \in 0 .. max_entries - 1 :
            /\ New[i] = [l \in 0 .. value_size - 1 |-> New[i][l]]
            /\ \A l \in 0 .. value_size - 1 :
                  New[i][l] = IF i = a /\ l = j THEN b ELSE value[Address(i) + l]
  BY <1>1, <1>7
<1> HIDE DEF New
<1>10. ASSUME NEW i \in 0 .. max_entries - 1
       PROVE  New[i] = [l \in 0 .. value_size - 1 |-> value'[Address(i) + l]]
  BY <1>6, <1>9
<1>11. Cells' = New
  BY <1>8, <1>9, <1>10
<1> QED
  BY <1>1, <1>2, <1>3, <1>5, <1>7, <1>11 DEF New

\* The creation of a map, from the block that was allocated for it.
LEMMA AllocRefines ==
    ASSUME Shown, Inv', NEW size \in Sizes, Alloc(size[1], size[2])
    PROVE  Abstract!Create(size[1], size[2]) \/ UNCHANGED Abstract!vars
<1>1. /\ ~Exists /\ last = Call("none", NONE, BPF_ANY, TRUE, NONE)
      /\ \A t \in Thread : access[t].mode = "closed"
      /\ max_entries' = size[1] /\ value_size' = size[2]
      /\ UNCHANGED <<access, last>>
      /\ pc' # "none"
  BY DEF Shown, Inv, Fresh, Sized, Closed, Alloc, Exists
<1>2. UNCHANGED Open /\ UNCHANGED Last
  BY <1>1 DEF Open, Last
<1>3. CASE ~Fits'
  <2>1. UNCHANGED Cells
    BY <1>1, <1>3 DEF Cells, Exists
  <2> QED
    BY <1>2, <2>1, StutterRefines
<1>4. CASE Fits'
  <2>1. Exists' /\ pc' # "corrupt"
    BY <1>1, <1>4 DEF Exists, Inv, StaysInBlock
  <2>2. value' = [k \in Block' |-> Zero]
    BY <1>1, <2>1 DEF Alloc, Block, Product, ElemSize, RoundUp
  <2>3. ASSUME NEW i \in 0 .. size[1] - 1, NEW l \in 0 .. size[2] - 1
        PROVE  value'[Address(i)' + l] = Zero
    <3> DEFINE n == size[1]
    <3>1. /\ n \in Nat /\ n > 0
          /\ size[2] \in Nat /\ size[2] > 0
          /\ i < n /\ l < size[2]
      BY <1>1 DEF Inv, TypeOK, Sized
    <3> DEFINE e == RoundUp(size[2])
    <3>2. /\ ElemSize(size[2]) = e /\ Product(n, size[2]) = n * e
          /\ n * e \in Nat /\ n * e < Width /\ n * e >= 2
      BY <1>1, <1>4, <3>1, ProductFits DEF Fits
    <3>3. e \in Nat /\ e >= size[2]
      BY <3>1, RoundUpBounds
    <3>4. e * i \in Nat /\ e * i + e <= n * e
      <4>1. ASSUME NEW m \in Nat, i < m, NEW f \in Nat
            PROVE  f * i \in Nat /\ f * i + f <= m * f
        BY <3>1, <4>1, ProductGrows
      <4> HIDE DEF e, n
      <4> QED
        BY <3>1, <3>3, <4>1
    <3>5. Address(i)' = e * i
      <4>1. e * i < Width
        BY <3>1, <3>2, <3>3, <3>4
      <4>2. Address(i)' = (e * i) % Width
        BY <1>1, <3>2 DEF Address, elem_size
      <4> QED
        BY <3>4, <4>1, <4>2, ModSmall
    <3>6. n * e <= (n * e - 1) * HeaderSize /\ (n * e - 1) * HeaderSize \in Nat
      <4>1. ASSUME NEW p \in Nat, p >= 2, NEW h \in Nat, h >= 2
            PROVE  p <= (p - 1) * h /\ (p - 1) * h \in Nat
        BY <4>1, Z3
      <4> QED
        BY <3>2, <4>1
    <3>7. Block' = 0 .. (n * e - 1) * HeaderSize - 1
      BY <1>1, <3>2 DEF Block
    <3>8. e * i + l < n * e
      <4> HIDE DEF e, n
      <4> QED
        BY <3>1, <3>2, <3>3, <3>4
    <3>9. Address(i)' + l \in Block'
      <4> DEFINE top == (n * e - 1) * HeaderSize
                 at == e * i + l
      <4>1. at \in Nat /\ top \in Nat /\ at < top
        BY <3>1, <3>2, <3>4, <3>6, <3>8
      <4>2. Address(i)' + l = at /\ Block' = 0 .. top - 1
        BY <3>5, <3>7
      <4> HIDE DEF at, top
      <4> QED
        BY <4>1, <4>2
    <3> QED
      BY <2>2, <3>9
  <2>4. Cells' = [i \in 0 .. size[1] - 1 |-> [j \in 0 .. size[2] - 1 |-> Zero]]
    BY <1>1, <2>1, <2>3 DEF Cells
  <2>5. Cells = << >>
    BY <1>1 DEF Cells
  <2>6. Abstract!Create(size[1], size[2])
    BY <1>2, <2>4, <2>5 DEF Abstract!Create, Abstract!Created
  <2> QED
    BY <2>6
<1> QED
  BY <1>3, <1>4

\* An update, by either thread, is the update of the abstract array.
LEMMA UpdateRefines ==
    ASSUME Shown, Exists, NEW t \in Thread, NEW i \in Index, NEW flags \in Flags,
           Update(t, i, flags)
    PROVE  Abstract!Update(i, flags)
<1>1. i \in Nat /\ flags \in Nat
  BY ArrayAssumption
<1>2. /\ UNCHANGED <<map, value, pc>>
      /\ last' = Call("update", i, flags, Has(i) /\ Admits(flags), NONE)
      /\ pc # "none"
  BY DEF Update, request, Served
<1>3. UNCHANGED <<Cells, Exists>>
  BY <1>2, SameSeen
<1>4. i \in DOMAIN Cells <=> Has(i)
  BY <1>1, Indices DEF Shown
<1>5. Abstract!Has(i) <=> Has(i)
  BY <1>4 DEF Abstract!Has
<1>6. Abstract!Admits(flags) <=> Admits(flags)
  BY <1>1 DEF Abstract!Admits, Admits, BPF_ANY, BPF_NOEXIST, BPF_EXIST,
              Abstract!BPF_ANY, Abstract!BPF_NOEXIST, Abstract!BPF_EXIST
<1>7. IF Has(i) /\ Admits(flags)
      THEN Open' = [Open EXCEPT ![t] = i]
      ELSE UNCHANGED Open
  <2>1. CASE Has(i) /\ Admits(flags)
    <3>1. PICK v \in Values :
             access' = [access EXCEPT ![t] = [mode |-> "copy", index |-> i, todo |-> v]]
      BY <2>1 DEF Update
    <3>2. access \in [Thread -> [mode : {"closed", "copy", "pointer"},
                                 index : Nat, todo : Partial]]
      BY DEF Shown, Inv, TypeOK
    <3> QED
      BY <1>3, <2>1, <3>1, <3>2 DEF Open
  <2>2. CASE ~(Has(i) /\ Admits(flags))
    BY <1>3, <2>2 DEF Update, Open
  <2> QED
    BY <2>1, <2>2
<1>8. Abstract!Created
  BY Indices DEF Abstract!Created, Shown
<1>9. Last' = last'
  BY <1>3 DEF Last
<1> QED
  BY <1>2, <1>3, <1>5, <1>6, <1>7, <1>8, <1>9
     DEF Abstract!Update, Call, Abstract!Call

\* The bytes of a copy and those a program stores are writes to what is open.
LEMMA CopyRefines ==
    ASSUME Shown, Exists, NEW t \in Thread, NEW j \in 0 .. value_size - 1, Copy(t, j)
    PROVE  Abstract!Next
<1>1. /\ Served /\ access[t].mode = "copy" /\ j \in DOMAIN access[t].todo
      /\ WriteAt(t, j, access[t].todo[j])
      /\ UNCHANGED map /\ last' = last
      /\ access' = [access EXCEPT ![t] = AfterByte(access[t], j)]
  BY DEF Copy
<1>2. access \in [Thread -> [mode : {"closed", "copy", "pointer"},
                             index : Nat, todo : Partial]]
  BY DEF Shown, Inv, TypeOK
<1>3. access[t].todo[j] \in Byte
  BY <1>1, <1>2 DEF Partial
<1>4. /\ Exists' /\ Open[t] \in DOMAIN Cells /\ j \in DOMAIN Cells[Open[t]]
      /\ Cells' = [Cells EXCEPT ![Open[t]][j] = access[t].todo[j]]
  BY <1>1, <1>3, WriteSeen DEF Shown
<1>5. Open' = Open \/ Open' = [Open EXCEPT ![t] = NONE]
  <2>1. \/ AfterByte(access[t], j).mode = "closed"
        \/ /\ AfterByte(access[t], j).mode = access[t].mode
           /\ AfterByte(access[t], j).index = access[t].index
    BY <1>2 DEF AfterByte, Closed
  <2> QED
    BY <1>1, <1>2, <1>4, <2>1 DEF Open
<1>6. Open[t] # NONE
  BY <1>1, <1>2, ArrayAssumption DEF Open
<1>7. Abstract!Write(t, j, access[t].todo[j])
  BY <1>1, <1>4, <1>5 DEF Abstract!Write, Last
<1> QED
  BY <1>3, <1>4, <1>6, <1>7 DEF Abstract!Next

LEMMA StoreRefines ==
    ASSUME Shown, Exists, NEW j \in 0 .. value_size - 1, NEW b \in Byte, Store(j, b)
    PROVE  Abstract!Next
<1> DEFINE t == "program"
<1>1. /\ Served /\ t \in Thread /\ access[t].mode = "pointer" /\ WriteAt(t, j, b)
      /\ UNCHANGED <<map, access, last>>
  BY DEF Store, Thread
<1>2. access[t].index \in Nat
  BY <1>1 DEF Shown, Inv, TypeOK
<1>3. /\ Exists' /\ Open[t] \in DOMAIN Cells /\ j \in DOMAIN Cells[Open[t]]
      /\ Cells' = [Cells EXCEPT ![Open[t]][j] = b]
  BY <1>1, WriteSeen DEF Shown
<1>4. Open' = Open
  BY <1>1, <1>3 DEF Open
<1>5. Open[t] # NONE
  BY <1>1, <1>2, ArrayAssumption DEF Open
<1>6. Abstract!Write(t, j, b)
  BY <1>1, <1>3, <1>4 DEF Abstract!Write, Last
<1> QED
  BY <1>1, <1>3, <1>5, <1>6 DEF Abstract!Next

\* The calls that change no element.
LEMMA CallRefines ==
    ASSUME Shown, Exists, NEW i \in Index
    PROVE  /\ Lookup(i) \/ EntryGet(i) \/ (i = 0 /\ ListStart) => Abstract!Lookup(i)
           /\ Delete(i) => Abstract!Delete(i)
           /\ GetNextKey(i) => Abstract!GetNextKey(i)
<1>1. i \in Nat /\ i + 1 \in Nat
  BY ArrayAssumption
<1>2. /\ max_entries \in Nat
      /\ access \in [Thread -> [mode : {"closed", "copy", "pointer"},
                                index : Nat, todo : Partial]]
  BY DEF Shown, Inv, TypeOK
<1>3. /\ Abstract!Created
      /\ Abstract!Has(i) <=> Has(i)
      /\ Abstract!Has(i + 1) <=> Has(i + 1)
  BY <1>1, Indices DEF Abstract!Created, Abstract!Has, Shown
<1>4. ASSUME UNCHANGED <<map, value>>, pc' # "none"
      PROVE  Exists' /\ UNCHANGED Cells /\ Last' = last' /\ Last = last
  BY <1>4, SameSeen DEF Exists, Last
<1>5. ASSUME Lookup(i) \/ EntryGet(i) \/ (i = 0 /\ ListStart)
      PROVE  Abstract!Lookup(i)
  <2>1. /\ UNCHANGED <<map, value>> /\ pc' # "none"
        /\ last' = Call("lookup", i, BPF_ANY, Has(i), NONE)
    BY <1>5 DEF Lookup, EntryGet, ListStart, Served, request
  <2>2. \/ UNCHANGED Open
        \/ Has(i) /\ \E t \in Thread : Open' = [Open EXCEPT ![t] = i]
    <3>1. CASE UNCHANGED access
      BY <1>4, <2>1, <3>1 DEF Open
    <3>2. CASE Has(i) /\ access' = [access EXCEPT !["program"] =
                             [mode |-> "pointer", index |-> i, todo |-> Nothing]]
      <4>1. "program" \in Thread
        BY DEF Thread
      <4>2. Open' = [Open EXCEPT !["program"] = i]
        BY <1>2, <1>4, <2>1, <3>2, <4>1 DEF Open
      <4> QED
        BY <3>2, <4>1, <4>2
    <3> QED
      BY <1>5, <3>1, <3>2 DEF Lookup, EntryGet, ListStart
  <2>3. Last' = Abstract!Call("lookup", i, Abstract!BPF_ANY, Abstract!Has(i), NONE)
    <3>1. Abstract!Has(i) = Has(i)
      BY <1>3 DEF Has, Abstract!Has
    <3> QED
      BY <1>4, <2>1, <3>1 DEF Call, Abstract!Call, BPF_ANY, Abstract!BPF_ANY
  <2>4. UNCHANGED Cells
    BY <1>4, <2>1
  <2> QED
    BY <1>3, <2>2, <2>3, <2>4, Zenon DEF Abstract!Lookup
<1>6. ASSUME Delete(i) PROVE Abstract!Delete(i)
  <2>1. /\ UNCHANGED <<map, value, access>> /\ pc' # "none"
        /\ last' = Call("delete", i, BPF_ANY, FALSE, NONE)
    BY <1>6 DEF Delete, Served, request
  <2>2. UNCHANGED Open
    BY <1>4, <2>1 DEF Open
  <2> QED
    BY <1>3, <1>4, <2>1, <2>2
       DEF Abstract!Delete, Call, Abstract!Call, BPF_ANY, Abstract!BPF_ANY
<1>7. ASSUME GetNextKey(i) PROVE Abstract!GetNextKey(i)
  <2>1. /\ UNCHANGED <<map, value, access>> /\ pc' # "none"
        /\ last' = IF ~Has(i) THEN Call("next", i, BPF_ANY, TRUE, 0)
                   ELSE IF i = max_entries - 1 THEN Call("next", i, BPF_ANY, FALSE, NONE)
                   ELSE Call("next", i, BPF_ANY, TRUE, i + 1)
    BY <1>7 DEF GetNextKey, Served, request
  <2>2. UNCHANGED Open
    BY <1>4, <2>1 DEF Open
  <2>3. Has(i) => (Has(i + 1) <=> i # max_entries - 1)
    BY <1>1, <1>2 DEF Has
  <2>4. Has(i + 1) => Has(i)
    BY <1>1, <1>2 DEF Has
  <2> QED
    BY <1>3, <1>4, <2>1, <2>2, <2>3, <2>4
       DEF Abstract!GetNextKey, Call, Abstract!Call, BPF_ANY, Abstract!BPF_ANY
<1> QED
  BY <1>5, <1>6, <1>7

LEMMA FreshKept == Inv /\ Fresh /\ [Next]_vars => Fresh'
<1> SUFFICES ASSUME Inv, Fresh, [Next]_vars, pc' = "none"
             PROVE  UNCHANGED <<pc, last>>
  BY DEF Fresh, Call
<1>1. CASE pc # "none"
  <2>1. UNCHANGED vars \/ pc' # "none"
    BY <1>1 DEF Next, ProgramStep, AgentStep, Alloc, Update, Copy, WriteAt, Lookup, Store,
                Return, Delete, GetNextKey, EntryInsert, EntryDelete, EntryGet, ListStart,
                ListCopy, ListCopied, ListReply, AgentIdle, request, vars
  <2> QED
    BY <2>1 DEF vars, request
<1>2. CASE pc = "none"
  <2>1. UNCHANGED vars \/ pc' # "none"
    BY <1>2 DEF Next, ProgramStep, AgentStep, Alloc, Update, Copy, Lookup, Store, Served,
                Return, Delete, GetNextKey, EntryInsert, EntryDelete, EntryGet, ListStart,
                ListCopy, ListCopied, ListReply, AgentIdle
  <2> QED
    BY <2>1 DEF vars, request
<1> QED
  BY <1>1, <1>2

\* Every step is a step of the abstract array, or one it does not see.
LEMMA NextRefines ==
    ASSUME 0 \in Index, BPF_ANY \in Flags, Shown, Inv', [Next]_vars
    PROVE  [Abstract!Next]_(Abstract!vars)
<1>1. ASSUME UNCHANGED <<map, value, last>>, UNCHANGED access, pc # "none", pc' # "none"
      PROVE  UNCHANGED Abstract!vars
  BY <1>1, SameSeen, StutterRefines DEF Open, Last
<1>2. CASE UNCHANGED vars
  <2>1. UNCHANGED Cells /\ UNCHANGED Open /\ UNCHANGED Last
    BY <1>2 DEF vars, map, request, Cells, Open, Last, Exists, Fits, Address, elem_size
  <2> QED
    BY <2>1, StutterRefines
<1>3. ASSUME NEW size \in Sizes, Alloc(size[1], size[2])
      PROVE  [Abstract!Next]_(Abstract!vars)
  BY <1>3, AllocRefines DEF Abstract!Next
<1>4. CASE (ProgramStep \/ AgentStep \/ \E t \in Thread : \E j \in 0 .. value_size - 1 : Copy(t, j))
           /\ ~Exists
  <2>1. pc # "none" /\ UNCHANGED map
    BY <1>4 DEF ProgramStep, AgentStep, Update, Copy, Lookup, Store, Return, Delete,
                GetNextKey, EntryInsert, EntryDelete, EntryGet, ListStart, ListCopy,
                ListCopied, ListReply, AgentIdle, Served
  <2>2. ~Exists'
    BY <1>4, <2>1, MapKept DEF Exists
  <2>3. UNCHANGED Cells /\ UNCHANGED Open /\ UNCHANGED Last
    BY <1>4, <2>2 DEF Cells, Open, Last
  <2> QED
    BY <2>3, StutterRefines
<1>5. CASE ProgramStep /\ Exists
  <2>1. ASSUME NEW i \in Index, NEW flags \in Flags, Update("program", i, flags)
        PROVE  Abstract!Update(i, flags)
    BY <1>5, <2>1, UpdateRefines DEF Thread
  <2>2. ASSUME NEW i \in Index, Lookup(i) \/ Delete(i)
        PROVE  Abstract!Lookup(i) \/ Abstract!Delete(i)
    BY <1>5, <2>2, CallRefines
  <2>3. ASSUME NEW j \in 0 .. value_size - 1, NEW b \in Byte, Store(j, b)
        PROVE  Abstract!Next
    BY <1>5, <2>3, StoreRefines
  <2>4. CASE Return
    <3>1. /\ UNCHANGED <<map, value>> /\ pc # "none" /\ pc' # "none"
          /\ last' = last /\ "program" \in Thread
          /\ access' = [access EXCEPT !["program"] = Closed]
      BY <2>4 DEF Return, Served, request, Thread
    <3>2. UNCHANGED <<Cells, Exists>>
      BY <3>1, SameSeen
    <3>3. access \in [Thread -> [mode : {"closed", "copy", "pointer"},
                                 index : Nat, todo : Partial]]
      BY DEF Shown, Inv, TypeOK
    <3>4. Open' = [Open EXCEPT !["program"] = NONE]
      BY <3>1, <3>2, <3>3 DEF Open, Closed
    <3>5. Abstract!Close("program")
      BY <3>1, <3>2, <3>4 DEF Abstract!Close, Last
    <3> QED
      BY <3>1, <3>5 DEF Abstract!Next
  <2> QED
    BY <1>5, <2>1, <2>2, <2>3, <2>4 DEF ProgramStep, Abstract!Next
<1>6. CASE AgentStep /\ Exists
  <2>1. ASSUME NEW i \in Index, EntryInsert(i)
        PROVE  Abstract!Update(i, BPF_ANY)
    BY <1>6, <2>1, UpdateRefines DEF EntryInsert, Thread
  <2>2. ASSUME NEW i \in Index, EntryDelete(i) \/ EntryGet(i) \/ (AgentIdle /\ GetNextKey(i))
        PROVE  Abstract!Lookup(i) \/ Abstract!Delete(i) \/ Abstract!GetNextKey(i)
    BY <1>6, <2>2, CallRefines DEF EntryDelete
  <2>3. CASE ListStart
    BY <1>6, <2>3, CallRefines DEF Abstract!Next
  <2>4. CASE ListCopy \/ ListCopied \/ ListReply
    BY <1>1, <2>4 DEF ListCopy, ListCopied, ListReply
  <2> QED
    BY <1>6, <2>1, <2>2, <2>3, <2>4 DEF AgentStep, Abstract!Next
<1>7. ASSUME NEW t \in Thread, NEW j \in 0 .. value_size - 1, Copy(t, j), Exists
      PROVE  Abstract!Next
  BY <1>7, CopyRefines
<1> QED
  BY <1>2, <1>3, <1>4, <1>5, <1>6, <1>7 DEF Next

\* The map is the abstract array, for every size that fits and however the
\* copies of the two threads interleave: what one of them writes to an element
\* changes no byte of another one.  The first element and the flag BPF_ANY are
\* among the arguments, as the agent uses both.
THEOREM Implements ==
    ASSUME 0 \in Index, BPF_ANY \in Flags
    PROVE  Spec => ImplementsBpfArray
<1>1. Init => Shown /\ Abstract!Init
  BY InitInv, InitRefines DEF Shown, Fresh, Init
<1>2. Shown /\ [Next]_vars => Shown' /\ [Abstract!Next]_(Abstract!vars)
  <2> SUFFICES ASSUME Shown, [Next]_vars
               PROVE  Shown' /\ [Abstract!Next]_(Abstract!vars)
    OBVIOUS
  <2>1. Inv'
    BY NextInv DEF Shown
  <2>2. Fresh'
    BY FreshKept DEF Shown
  <2>3. [Abstract!Next]_(Abstract!vars)
    BY <2>1, NextRefines
  <2> QED
    BY <2>1, <2>2, <2>3 DEF Shown
<1> QED
  BY <1>1, <1>2, PTL DEF Spec, ImplementsBpfArray, Abstract!Spec
=============================================================================
