--------------------------- MODULE HashTabProofs ---------------------------
(***************************************************************************)
(* Proofs about HashTab for any keys, values, buckets, hash function and   *)
(* addresses: the two lists of the table always agree with the heap; and   *)
(* as long as nobody has written the map in a list request, the iterator   *)
(* kept between the calls is not stale and the reply is exact.             *)
(***************************************************************************)
EXTENDS HashTab, SequenceTheorems, TLAPS

-----------------------------------------------------------------------------
(* What the list operators of Lists do, for lists of any length            *)

\* IndexOf finds an element that is there.
LEMMA IndexOfFinds ==
    ASSUME NEW s, NEW x \in ToSet(s)
    PROVE  IndexOf(s, x) \in DOMAIN s /\ s[IndexOf(s, x)] = x
<1>1. \E i \in DOMAIN s : s[i] = x
  BY DEF ToSet
<1> QED
  BY <1>1 DEF IndexOf

\* Removing the entry at i keeps what is before it and moves the rest up.
LEMMA RemoveAtEntries ==
    ASSUME NEW S, NEW s \in Seq(S), NEW i \in 1 .. Len(s)
    PROVE  /\ RemoveAt(s, i) \in Seq(S)
           /\ Len(RemoveAt(s, i)) = Len(s) - 1
           /\ \A j \in 1 .. Len(s) - 1 :
                 RemoveAt(s, i)[j] = IF j < i THEN s[j] ELSE s[j + 1]
<1> DEFINE a == SubSeq(s, 1, i - 1)
           b == SubSeq(s, i + 1, Len(s))
<1>1. a \in Seq(S) /\ Len(a) = i - 1 /\ \A j \in 1 .. i - 1 : a[j] = s[j]
  BY SubSeqProperties
<1>2. b \in Seq(S) /\ Len(b) = Len(s) - i /\ \A j \in 1 .. Len(s) - i : b[j] = s[i + j]
  BY SubSeqProperties
<1> HIDE DEF a, b
<1>3. /\ a \o b \in Seq(S)
      /\ Len(a \o b) = Len(s) - 1
  <2>1. a \o b \in Seq(S) /\ Len(a \o b) = Len(a) + Len(b)
    BY <1>1, <1>2, ConcatProperties
  <2> QED
    BY <1>1, <1>2, <2>1
<1>4. ASSUME NEW j \in 1 .. Len(s) - 1
      PROVE  (a \o b)[j] = IF j < i THEN s[j] ELSE s[j + 1]
  <2>1. (a \o b)[j] = IF j <= Len(a) THEN a[j] ELSE b[j - Len(a)]
    BY <1>1, <1>2, ConcatProperties
  <2>2. CASE j < i
    BY <1>1, <2>1, <2>2
  <2>3. CASE ~(j < i)
    <3>1. j - Len(a) \in 1 .. Len(s) - i /\ i + (j - Len(a)) = j + 1
      BY <1>1, <2>3
    <3> QED
      BY <1>1, <1>2, <2>1, <2>3, <3>1
  <2> QED
    BY <2>2, <2>3
<1> QED
  BY <1>3, <1>4 DEF RemoveAt, a, b

\* Linking x out of a list without duplicates leaves the other elements, once
\* each, in their order.
LEMMA WithoutElement ==
    ASSUME NEW S, NEW s \in Seq(S), NEW x \in ToSet(s), NoDuplicates(s)
    PROVE  /\ Without(s, x) \in Seq(S)
           /\ ToSet(Without(s, x)) = ToSet(s) \ {x}
           /\ NoDuplicates(Without(s, x))
<1> DEFINE i == IndexOf(s, x)
           r == RemoveAt(s, i)
<1>1. i \in 1 .. Len(s) /\ s[i] = x
  BY IndexOfFinds
<1> HIDE DEF i
<1>2. /\ r \in Seq(S)
      /\ Len(r) = Len(s) - 1
      /\ \A j \in 1 .. Len(s) - 1 : r[j] = IF j < i THEN s[j] ELSE s[j + 1]
  BY <1>1, RemoveAtEntries
<1> HIDE DEF r
<1>3. DOMAIN r = 1 .. Len(s) - 1 /\ DOMAIN s = 1 .. Len(s) /\ Len(s) \in Nat
  BY <1>2
<1>4. NoDuplicates(r)
  BY <1>1, <1>2, <1>3 DEF NoDuplicates
<1>5. ASSUME NEW y \in ToSet(r)
      PROVE  y \in ToSet(s) \ {x}
  <2>1. PICK j \in 1 .. Len(s) - 1 : y = r[j]
    BY <1>3 DEF ToSet
  <2>2. PICK l \in 1 .. Len(s) : l # i /\ y = s[l]
    BY <1>1, <1>2, <1>3, <2>1
  <2> QED
    BY <1>1, <1>3, <2>2 DEF ToSet, NoDuplicates
<1>6. ASSUME NEW y \in ToSet(s) \ {x}
      PROVE  y \in ToSet(r)
  <2>1. PICK l \in 1 .. Len(s) : y = s[l]
    BY <1>3 DEF ToSet
  <2>2. l # i
    BY <1>1, <2>1
  <2>3. CASE l < i
    <3>1. l \in 1 .. Len(s) - 1 /\ r[l] = y
      BY <1>1, <1>2, <1>3, <2>1, <2>3
    <3> QED
      BY <1>3, <3>1 DEF ToSet
  <2>4. CASE l > i
    <3>1. l - 1 \in 1 .. Len(s) - 1 /\ r[l - 1] = y
      BY <1>1, <1>2, <1>3, <2>1, <2>4
    <3> QED
      BY <1>3, <3>1 DEF ToSet
  <2> QED
    BY <1>1, <1>3, <2>2, <2>3, <2>4
<1> QED
  BY <1>2, <1>4, <1>5, <1>6 DEF Without, r, i

\* Linking a new element in at the head, or at the tail.
LEMMA ConsElement ==
    ASSUME NEW S, NEW s \in Seq(S), NEW x \in S
    PROVE  /\ Cons(x, s) \in Seq(S)
           /\ ToSet(Cons(x, s)) = ToSet(s) \cup {x}
           /\ NoDuplicates(s) /\ x \notin ToSet(s) => NoDuplicates(Cons(x, s))
<1> DEFINE r == <<x>> \o s
<1>1. /\ r \in Seq(S)
      /\ Len(r) = Len(s) + 1
      /\ r[1] = x
      /\ \A j \in 1 .. Len(s) : r[j + 1] = s[j]
  BY ConcatProperties
<1> HIDE DEF r
<1>2. DOMAIN r = 1 .. Len(s) + 1 /\ DOMAIN s = 1 .. Len(s) /\ Len(s) \in Nat
  BY <1>1
<1>3. \A j \in 1 .. Len(s) + 1 : j = 1 \/ (j - 1 \in 1 .. Len(s) /\ r[j] = s[j - 1])
  BY <1>1, <1>2
<1>4. ToSet(r) = ToSet(s) \cup {x}
  <2>1. ASSUME NEW y \in ToSet(r)
        PROVE  y \in ToSet(s) \cup {x}
    <3>1. PICK j \in 1 .. Len(s) + 1 : y = r[j]
      BY <1>2 DEF ToSet
    <3>2. j = 1 \/ (j - 1 \in DOMAIN s /\ y = s[j - 1])
      BY <1>2, <1>3, <3>1
    <3> QED
      BY <1>1, <3>1, <3>2 DEF ToSet
  <2>2. ASSUME NEW y \in ToSet(s)
        PROVE  y \in ToSet(r)
    <3>1. PICK j \in 1 .. Len(s) : y = s[j]
      BY <1>2 DEF ToSet
    <3>2. j + 1 \in 1 .. Len(s) + 1 /\ r[j + 1] = y
      BY <1>1, <1>2, <3>1
    <3> QED
      BY <1>2, <3>2 DEF ToSet
  <2>3. x \in ToSet(r)
    BY <1>1, <1>2 DEF ToSet
  <2> QED
    BY <2>1, <2>2, <2>3
<1>5. ASSUME NoDuplicates(s), x \notin ToSet(s)
      PROVE  NoDuplicates(r)
  <2>1. \A j \in 1 .. Len(s) : s[j] # x
    BY <1>2, <1>5 DEF ToSet
  <2>2. \A i, j \in 1 .. Len(s) : s[i] = s[j] => i = j
    BY <1>2, <1>5 DEF NoDuplicates
  <2>3. ASSUME NEW i \in 1 .. Len(s) + 1, NEW j \in 1 .. Len(s) + 1, r[i] = r[j]
        PROVE  i = j
    <3>1. CASE i = 1
      BY <1>1, <1>3, <2>1, <2>3, <3>1
    <3>2. CASE j = 1
      BY <1>1, <1>3, <2>1, <2>3, <3>2
    <3>3. CASE i # 1 /\ j # 1
      <4>1. i - 1 = j - 1
        BY <1>3, <2>2, <2>3, <3>3
      <4> QED
        BY <4>1
    <3> QED
      BY <3>1, <3>2, <3>3
  <2> QED
    BY <1>2, <2>3 DEF NoDuplicates
<1> QED
  BY <1>1, <1>4, <1>5 DEF Cons, r

\* Append adds its element, and nothing else, at the end.
LEMMA AppendElement ==
    ASSUME NEW S, NEW s \in Seq(S), NEW x \in S
    PROVE  /\ Append(s, x) \in Seq(S)
           /\ ToSet(Append(s, x)) = ToSet(s) \cup {x}
           /\ NoDuplicates(s) /\ x \notin ToSet(s) => NoDuplicates(Append(s, x))
<1> DEFINE r == Append(s, x)
<1>1. /\ r \in Seq(S)
      /\ Len(r) = Len(s) + 1
      /\ r[Len(s) + 1] = x
      /\ \A j \in 1 .. Len(s) : r[j] = s[j]
  BY AppendProperties
<1> HIDE DEF r
<1>2. DOMAIN r = 1 .. Len(s) + 1 /\ DOMAIN s = 1 .. Len(s) /\ Len(s) \in Nat
  BY <1>1
<1>3. ToSet(r) = ToSet(s) \cup {x}
  <2>1. ToSet(r) \subseteq ToSet(s) \cup {x}
    BY <1>1, <1>2 DEF ToSet
  <2>2. ASSUME NEW y \in ToSet(s)
        PROVE  y \in ToSet(r)
    <3>1. PICK j \in 1 .. Len(s) : y = s[j]
      BY <1>2 DEF ToSet
    <3>2. j \in 1 .. Len(s) + 1 /\ r[j] = y
      BY <1>1, <1>2, <3>1
    <3> QED
      BY <1>2, <3>2 DEF ToSet
  <2>3. x \in ToSet(r)
    BY <1>1, <1>2 DEF ToSet
  <2> QED
    BY <2>1, <2>2, <2>3
<1>4. ASSUME NoDuplicates(s), x \notin ToSet(s)
      PROVE  NoDuplicates(r)
  BY <1>1, <1>2, <1>4 DEF NoDuplicates, ToSet
<1> QED
  BY <1>1, <1>3, <1>4 DEF r

\* Linking x out of a list, and f[x] out of the list of what f maps it to, is
\* the same where f tells the elements of the list apart.
LEMMA WithoutMapped ==
    ASSUME NEW S, NEW s \in Seq(S), NEW x \in ToSet(s), NEW f,
           \A i, j \in DOMAIN s : f[s[i]] = f[s[j]] => i = j
    PROVE  Without([i \in DOMAIN s |-> f[s[i]]], f[x])
               = [i \in DOMAIN Without(s, x) |-> f[Without(s, x)[i]]]
<1> DEFINE m == [i \in DOMAIN s |-> f[s[i]]]
           T == {f[s[i]] : i \in DOMAIN s}
           n == IndexOf(s, x)
           p == IndexOf(m, f[x])
<1>1. DOMAIN s = 1 .. Len(s) /\ Len(s) \in Nat
  OBVIOUS
<1>2. n \in 1 .. Len(s) /\ s[n] = x
  BY <1>1, IndexOfFinds
<1>3. m \in Seq(T) /\ Len(m) = Len(s) /\ \A i \in 1 .. Len(s) : m[i] = f[s[i]]
  BY <1>1
<1>4. p = n
  <2>1. f[x] \in ToSet(m)
    BY <1>1, <1>2, <1>3 DEF ToSet
  <2>2. p \in DOMAIN m /\ m[p] = f[x]
    BY <2>1, IndexOfFinds
  <2> QED
    BY <1>1, <1>2, <1>3, <2>2
<1> HIDE DEF m, T, n, p
<1>5. /\ RemoveAt(s, n) \in Seq(S)
      /\ Len(RemoveAt(s, n)) = Len(s) - 1
      /\ \A j \in 1 .. Len(s) - 1 : RemoveAt(s, n)[j] = IF j < n THEN s[j] ELSE s[j + 1]
  BY <1>2, RemoveAtEntries
<1>6. /\ RemoveAt(m, n) \in Seq(T)
      /\ Len(RemoveAt(m, n)) = Len(s) - 1
      /\ \A j \in 1 .. Len(s) - 1 : RemoveAt(m, n)[j] = IF j < n THEN m[j] ELSE m[j + 1]
  BY <1>2, <1>3, RemoveAtEntries
<1> DEFINE a == RemoveAt(s, n)
           b == RemoveAt(m, n)
<1> HIDE DEF a, b
<1>7. \A j \in 1 .. Len(s) - 1 : b[j] = f[a[j]]
  BY <1>1, <1>3, <1>5, <1>6 DEF a, b
<1>8. b \in Seq(T) /\ DOMAIN a = 1 .. Len(s) - 1 /\ DOMAIN b = 1 .. Len(s) - 1
  BY <1>1, <1>5, <1>6 DEF a, b
<1>9. b = [i \in DOMAIN a |-> f[a[i]]]
  <2>1. b = [i \in DOMAIN b |-> b[i]]
    BY <1>8
  <2> QED
    BY <1>7, <1>8, <2>1
<1>10. Without(s, x) = a /\ Without(m, f[x]) = b
  BY <1>4 DEF Without, a, b, n, p
<1> QED
  BY <1>9, <1>10 DEF m

\* Appending x to a list appends g[x] to the list of what g maps it to.
LEMMA AppendMapped ==
    ASSUME NEW S, NEW s \in Seq(S), NEW x \in S, NEW f, NEW g,
           \A i \in DOMAIN s : g[s[i]] = f[s[i]]
    PROVE  [i \in DOMAIN Append(s, x) |-> g[Append(s, x)[i]]]
               = Append([i \in DOMAIN s |-> f[s[i]]], g[x])
<1> DEFINE m == [i \in DOMAIN s |-> f[s[i]]]
           T == {f[s[i]] : i \in DOMAIN s} \cup {g[x]}
           n == Len(s)
           a == Append(s, x)
           b == Append(m, g[x])
<1>1. m \in Seq(T) /\ Len(m) = n /\ \A i \in 1 .. n : m[i] = g[s[i]]
  OBVIOUS
<1>2. /\ Len(a) = n + 1 /\ DOMAIN a = 1 .. n + 1 /\ n \in Nat
      /\ a[n + 1] = x /\ \A i \in 1 .. n : a[i] = s[i]
  BY AppendProperties
<1> HIDE DEF m, a
<1>3. /\ b \in Seq(T) /\ Len(b) = n + 1
      /\ b[n + 1] = g[x] /\ \A i \in 1 .. n : b[i] = m[i]
  BY <1>1, AppendProperties
<1> HIDE DEF b, n, T
<1>4. \A i \in 1 .. n + 1 : b[i] = g[a[i]]
  <2>1. \A i \in 1 .. n + 1 : i = n + 1 \/ i \in 1 .. n
    BY <1>2
  <2> QED
    BY <1>1, <1>2, <1>3, <2>1
<1>5. b = [i \in 1 .. n + 1 |-> b[i]]
  BY <1>3
<1>6. b = [i \in DOMAIN a |-> g[a[i]]]
  BY <1>2, <1>4, <1>5
<1> QED
  BY <1>6 DEF a, b, m

-----------------------------------------------------------------------------
USE HashTabAssumption

-----------------------------------------------------------------------------
(* Searching and unlinking                                                 *)

\* The entry the iterator will go on from, freed or not, has held a key.
IteratorReal == p_next # NULL => key[p_next] \in Key

Inv == TypeOK /\ Structure /\ IteratorReal

\* A search of the chain of its bucket finds the entry of a key exactly when
\* the table has one.
LEMMA SearchFinds ==
    ASSUME Inv, NEW k \in Key
    PROVE  /\ Stored(k) => /\ EntryFor(k) \in live
                           /\ key[EntryFor(k)] = k
                           /\ EntryFor(k) \in ToSet(Chain(k))
           /\ ~Stored(k) => \A a \in live : key[a] # k
<1>1. /\ Hash[k] \in Bucket
      /\ Chain(k) \in Seq(Addr)
      /\ ToSet(Chain(k)) = {a \in live : Hash[key[a]] = Hash[k]}
      /\ NoDuplicates(Chain(k))
  BY DEF Inv, TypeOK, Structure, ChainsExact, Chain
<1>2. \A i \in DOMAIN Chain(k) : Chain(k)[i] \in live
  BY <1>1 DEF ToSet
<1>3. ASSUME Stored(k)
      PROVE  /\ EntryFor(k) \in live
             /\ key[EntryFor(k)] = k
             /\ EntryFor(k) \in ToSet(Chain(k))
  <2>1. PICK i \in Matches(k) : TRUE
    BY <1>3 DEF Stored
  <2>2. i \in DOMAIN Chain(k) /\ key[Chain(k)[i]] = k /\ i \in Nat
    BY <1>1, <2>1 DEF Matches
  <2>3. \A j \in Matches(k) : j = i
    BY <1>1, <1>2, <2>2 DEF Matches, NoDuplicates, Inv, Structure, KeysUnique
  <2>4. \E m \in Matches(k) : \A j \in Matches(k) : m <= j
    <3>1. \A j \in Matches(k) : i <= j
      BY <2>2, <2>3
    <3> QED
      BY <2>1, <3>1
  <2>5. (CHOOSE m \in Matches(k) : \A j \in Matches(k) : m <= j) \in Matches(k)
    BY <2>4
  <2>6. EntryFor(k) = Chain(k)[i]
    BY <2>3, <2>5 DEF EntryFor
  <2> QED
    BY <1>2, <2>2, <2>6 DEF ToSet
<1>4. ASSUME ~Stored(k), NEW a \in live, key[a] = k
      PROVE  FALSE
  <2>1. PICK i \in DOMAIN Chain(k) : Chain(k)[i] = a
    BY <1>1, <1>4 DEF ToSet
  <2> QED
    BY <1>4, <2>1 DEF Stored, Matches
<1> QED
  BY <1>3, <1>4

\* What is left once the entry of k, if there is one, is out: both lists are
\* exact for the blocks that stay allocated, and none of these is k's.
LEMMA Unlinked ==
    ASSUME Inv, NEW k \in Key
    PROVE  /\ ChainsWithout(k) \in [Bucket -> Seq(Addr)]
           /\ AgeWithout(k) \in Seq(Addr)
           /\ LiveWithout(k) \subseteq live
           /\ ToSet(AgeWithout(k)) = LiveWithout(k)
           /\ NoDuplicates(AgeWithout(k))
           /\ \A b \in Bucket :
                 /\ ToSet(ChainsWithout(k)[b]) = {a \in LiveWithout(k) : Hash[key[a]] = b}
                 /\ NoDuplicates(ChainsWithout(k)[b])
           /\ \A a \in LiveWithout(k) : key[a] # k
<1>1. CASE ~Stored(k)
  BY <1>1, SearchFinds
     DEF Inv, TypeOK, Structure, AgeListExact, ChainsExact,
         ChainsWithout, AgeWithout, LiveWithout
<1>2. CASE Stored(k)
  <2> DEFINE e == EntryFor(k)
             h == Hash[k]
  <2>1. /\ e \in live
        /\ e \in Addr
        /\ key[e] = k
        /\ e \in ToSet(pp_entries[h])
        /\ e \in ToSet(age)
        /\ h \in Bucket
    BY <1>2, SearchFinds DEF Inv, TypeOK, Structure, AgeListExact, Chain
  <2>2. /\ ChainsWithout(k) = [pp_entries EXCEPT ![h] = Without(pp_entries[h], e)]
        /\ AgeWithout(k) = Without(age, e)
        /\ LiveWithout(k) = live \ {e}
    BY <1>2 DEF ChainsWithout, AgeWithout, LiveWithout
  <2> HIDE DEF e, h
  <2>3. /\ AgeWithout(k) \in Seq(Addr)
        /\ ToSet(AgeWithout(k)) = LiveWithout(k)
        /\ NoDuplicates(AgeWithout(k))
    BY <2>1, <2>2, WithoutElement DEF Inv, TypeOK, Structure, AgeListExact
  <2>4. /\ pp_entries \in [Bucket -> Seq(Addr)]
        /\ \A b \in Bucket : /\ ToSet(pp_entries[b]) = {a \in live : Hash[key[a]] = b}
                             /\ NoDuplicates(pp_entries[b])
    BY DEF Inv, TypeOK, Structure, ChainsExact
  <2>5. /\ Without(pp_entries[h], e) \in Seq(Addr)
        /\ ToSet(Without(pp_entries[h], e)) = ToSet(pp_entries[h]) \ {e}
        /\ NoDuplicates(Without(pp_entries[h], e))
    BY <2>1, <2>4, WithoutElement
  <2>6. ChainsWithout(k) \in [Bucket -> Seq(Addr)]
    <3>1. \A f \in [Bucket -> Seq(Addr)], x \in Seq(Addr) :
             [f EXCEPT ![h] = x] \in [Bucket -> Seq(Addr)]
      OBVIOUS
    <3>2. ChainsWithout(k) = [pp_entries EXCEPT ![h] = Without(pp_entries[h], e)]
      BY <2>2
    <3>3. pp_entries \in [Bucket -> Seq(Addr)] /\ Without(pp_entries[h], e) \in Seq(Addr)
      BY <2>4, <2>5
    <3>4. [pp_entries EXCEPT ![h] = Without(pp_entries[h], e)] \in [Bucket -> Seq(Addr)]
      BY <3>1, <3>3
    <3> QED
      BY <3>2, <3>4
  <2>7. ASSUME NEW b \in Bucket
        PROVE  /\ ToSet(ChainsWithout(k)[b]) = {a \in LiveWithout(k) : Hash[key[a]] = b}
               /\ NoDuplicates(ChainsWithout(k)[b])
    <3>1. CASE b = h
      <4>1. ChainsWithout(k)[b] = Without(pp_entries[h], e)
        BY <2>1, <2>2, <2>4, <3>1
      <4> QED
        BY <2>2, <2>4, <2>5, <3>1, <4>1
    <3>2. CASE b # h
      <4>1. ChainsWithout(k)[b] = pp_entries[b]
        BY <2>2, <2>4, <3>2
      <4>2. Hash[key[e]] # b
        BY <2>1, <3>2 DEF h
      <4> QED
        BY <2>2, <2>4, <4>1, <4>2
    <3> QED
      BY <3>1, <3>2
  <2>8. \A a \in LiveWithout(k) : key[a] # k
    BY <2>1, <2>2 DEF Inv, Structure, KeysUnique
  <2> QED
    BY <2>2, <2>3, <2>6, <2>7, <2>8
<1> QED
  BY <1>1, <1>2
-----------------------------------------------------------------------------
(* The structure of the table                                              *)

\* Taking the entry of k out, if there is one, keeps the structure.
LEMMA RemoveKeeps ==
    ASSUME Inv, NEW k \in Key,
           pp_entries' = ChainsWithout(k),
           age' = AgeWithout(k),
           live' = LiveWithout(k),
           UNCHANGED <<key, value>>
    PROVE  /\ Structure'
           /\ pp_entries' \in [Bucket -> Seq(Addr)]
           /\ age' \in Seq(Addr)
           /\ live' \subseteq Addr
<1>1. /\ pp_entries' \in [Bucket -> Seq(Addr)]
      /\ age' \in Seq(Addr)
      /\ live' \subseteq live
      /\ live \subseteq Addr
  BY Unlinked DEF Inv, TypeOK
<1>2. AgeListExact'
  BY Unlinked DEF AgeListExact
<1>3. ChainsExact'
  BY Unlinked DEF ChainsExact
<1>4. KeysUnique' /\ KeysReal'
  BY <1>1 DEF Inv, Structure, KeysUnique, KeysReal
<1> QED
  BY <1>1, <1>2, <1>3, <1>4 DEF Structure

\* Linking a newly allocated entry for k in, after taking the old one out,
\* keeps the structure.
LEMMA InsertKeeps ==
    ASSUME Inv, NEW k \in Key, NEW v \in Val, NEW a \in Addr \ LiveWithout(k),
           pp_entries' = ChainsWith(ChainsWithout(k), k, a),
           age' = AgeWith(AgeWithout(k), a),
           live' = LiveWithout(k) \cup {a},
           key' = [key EXCEPT ![a] = k],
           value' = [value EXCEPT ![a] = v]
    PROVE  /\ Structure'
           /\ pp_entries' \in [Bucket -> Seq(Addr)]
           /\ age' \in Seq(Addr)
           /\ live' \subseteq Addr
<1> DEFINE C == ChainsWithout(k)
           A == AgeWithout(k)
           L == LiveWithout(k)
           h == Hash[k]
<1>1. /\ C \in [Bucket -> Seq(Addr)]
      /\ A \in Seq(Addr)
      /\ L \subseteq live
      /\ ToSet(A) = L
      /\ NoDuplicates(A)
      /\ \A b \in Bucket : ToSet(C[b]) = {x \in L : Hash[key[x]] = b} /\ NoDuplicates(C[b])
      /\ \A x \in L : key[x] # k
  BY Unlinked
<1>2. a \in Addr /\ a \notin L /\ h \in Bucket
  OBVIOUS
<1>3. /\ live \subseteq Addr
      /\ key \in [Addr -> Key \cup {NULL}]
      /\ value \in [Addr -> Val \cup {NULL}]
  BY DEF Inv, TypeOK
<1>4. /\ pp_entries' = [C EXCEPT ![h] = Cons(a, C[h])]
      /\ age' = Append(A, a)
      /\ live' = L \cup {a}
      /\ key' = [key EXCEPT ![a] = k]
      /\ value' = [value EXCEPT ![a] = v]
  BY DEF ChainsWith, AgeWith
<1> HIDE DEF C, A, L, h
<1>5. /\ age' \in Seq(Addr)
      /\ AgeListExact'
  BY <1>1, <1>2, <1>4, AppendElement DEF AgeListExact
<1>6. /\ key'[a] = k
      /\ value'[a] = v
      /\ \A x \in L : key'[x] = key[x] /\ value'[x] = value[x]
  BY <1>1, <1>2, <1>3, <1>4
<1>7. /\ Cons(a, C[h]) \in Seq(Addr)
      /\ ToSet(Cons(a, C[h])) = ToSet(C[h]) \cup {a}
      /\ NoDuplicates(Cons(a, C[h]))
  <2>1. C[h] \in Seq(Addr) /\ NoDuplicates(C[h]) /\ a \notin ToSet(C[h])
    BY <1>1, <1>2
  <2> QED
    BY <1>2, <2>1, ConsElement
<1>8. pp_entries' \in [Bucket -> Seq(Addr)]
  <2>1. ASSUME NEW S, NEW f \in [Bucket -> S], NEW x \in S
        PROVE  [f EXCEPT ![h] = x] \in [Bucket -> S]
    OBVIOUS
  <2>2. C \in [Bucket -> Seq(Addr)]
    BY <1>1
  <2> QED
    BY <1>4, <1>7, <2>1, <2>2
<1>9. ChainsExact'
  <2> SUFFICES ASSUME NEW b \in Bucket
               PROVE  /\ ToSet(pp_entries'[b]) = {x \in live' : Hash[key'[x]] = b}
                      /\ NoDuplicates(pp_entries'[b])
    BY DEF ChainsExact
  <2>1. CASE b = h
    <3>1. pp_entries'[b] = Cons(a, C[h])
      BY <1>1, <1>2, <1>4, <2>1
    <3>2. Hash[key'[a]] = b
      BY <1>6, <2>1 DEF h
    <3> QED
      BY <1>1, <1>2, <1>4, <1>6, <1>7, <2>1, <3>1, <3>2
  <2>2. CASE b # h
    <3>1. pp_entries'[b] = C[b]
      BY <1>1, <1>4, <2>2
    <3>2. Hash[key'[a]] # b
      BY <1>6, <2>2 DEF h
    <3> QED
      BY <1>1, <1>2, <1>4, <1>6, <3>1, <3>2
  <2> QED
    BY <2>1, <2>2
<1>10. KeysUnique'
  BY <1>1, <1>2, <1>4, <1>6 DEF Inv, Structure, KeysUnique
<1>11. KeysReal'
  BY <1>1, <1>4, <1>6 DEF Inv, Structure, KeysReal
<1> QED
  BY <1>1, <1>2, <1>3, <1>4, <1>5, <1>8, <1>9, <1>10, <1>11 DEF Structure
-----------------------------------------------------------------------------
(* Type correctness and structure are inductive together                   *)

\* An empty table has no entry to be wrong about.
LEMMA InitInv == Init => Inv
<1> SUFFICES ASSUME Init
             PROVE  Inv
  OBVIOUS
<1> USE DEF Init
<1>1. TypeOK
  BY DEF TypeOK
<1>2. AgeListExact /\ ChainsExact /\ KeysUnique /\ KeysReal
  BY DEF AgeListExact, ChainsExact, KeysUnique, KeysReal, ToSet, NoDuplicates
<1>3. IteratorReal
  BY DEF IteratorReal
<1> QED
  BY <1>1, <1>2, <1>3 DEF Inv, Structure

\* Nothing that leaves the table alone disturbs its structure.
LEMMA TableKept ==
    ASSUME Inv, UNCHANGED table
    PROVE  Structure'
BY DEF Inv, table, Structure, AgeListExact, ChainsExact, KeysUnique, KeysReal

\* p_newer and p_oldest lead to allocated entries, or nowhere.
LEMMA NewerLive ==
    ASSUME Inv
    PROVE  /\ \A a : NewerOf(a) \in live \cup {NULL}
           /\ Oldest \in live \cup {NULL}
<1>1. age \in Seq(Addr) /\ \A i \in 1 .. Len(age) : age[i] \in live
  BY DEF Inv, TypeOK, Structure, AgeListExact, ToSet
<1>2. ASSUME NEW a
      PROVE  NewerOf(a) \in live \cup {NULL}
  <2>1. CASE a \in ToSet(age) /\ IndexOf(age, a) < Len(age)
    <3>1. IndexOf(age, a) \in DOMAIN age
      BY <2>1, IndexOfFinds
    <3>2. age[IndexOf(age, a) + 1] \in live
      BY <1>1, <2>1, <3>1
    <3> QED
      BY <2>1, <3>2 DEF NewerOf
  <2>2. CASE ~(a \in ToSet(age) /\ IndexOf(age, a) < Len(age))
    BY <2>2 DEF NewerOf
  <2> QED
    BY <2>1, <2>2
<1>3. Oldest \in live \cup {NULL}
  <2>1. CASE age = << >>
    BY <2>1 DEF Oldest
  <2>2. CASE age # << >>
    BY <1>1, <2>2 DEF Oldest
  <2> QED
    BY <2>1, <2>2
<1> QED
  BY <1>2, <1>3

\* The entry that get_next_key reaches is the iterator's or an allocated one.
LEMMA NextEntriesFrom ==
    ASSUME Inv, NEW k, NEW e \in NextEntries(k)
    PROVE  e \in live \cup {NULL, p_next}
BY NewerLive DEF NextEntries

\* What a search finds is an element with a value.
LEMMA LookupTyped ==
    ASSUME Inv, NEW k \in Key
    PROVE  Stored(k) => EntryFor(k) \in Addr /\ value[EntryFor(k)] \in Val
BY SearchFinds DEF Inv, TypeOK, Structure, KeysReal

\* Nothing makes a block forget that it has held a key.
LEMMA IteratorKept ==
    ASSUME Inv, UNCHANGED p_next,
           \/ UNCHANGED key
           \/ \E k \in Key, a \in Addr : key' = [key EXCEPT ![a] = k]
    PROVE  IteratorReal'
BY DEF Inv, TypeOK, IteratorReal

\* Every step keeps the types and the structure.
LEMMA NextInv == Inv /\ [Next]_vars => Inv'
<1> SUFFICES ASSUME Inv, [Next]_vars
             PROVE  Inv'
  OBVIOUS
<1>1. ASSUME NEW k \in UsedKey, NEW flags \in Flags, NEW v \in UsedVal[k], Update(k, v, flags)
      PROVE  Inv'
  <2>1. PICK a \in Addr \ LiveWithout(k) :
             /\ pp_entries' = ChainsWith(ChainsWithout(k), k, a)
             /\ age' = AgeWith(AgeWithout(k), a)
             /\ live' = LiveWithout(k) \cup {a}
             /\ key' = [key EXCEPT ![a] = k]
             /\ value' = [value EXCEPT ![a] = v]
    BY <1>1 DEF Update
  <2>2. k \in Key /\ v \in Val
    OBVIOUS
  <2>3. /\ Structure'
        /\ pp_entries' \in [Bucket -> Seq(Addr)]
        /\ age' \in Seq(Addr)
        /\ live' \subseteq Addr
    BY <2>1, <2>2, InsertKeeps
  <2>4. /\ key' \in [Addr -> Key \cup {NULL}]
        /\ value' \in [Addr -> Val \cup {NULL}]
        /\ touched' \subseteq Key
    BY <1>1, <2>1, <2>2 DEF Inv, TypeOK, Update, Touch
  <2> QED
    BY <1>1, <2>1, <2>2, <2>3, <2>4, IteratorKept DEF Inv, TypeOK, Update, iterator, program, request
<1>2. ASSUME NEW k \in UsedKey, NEW flags \in Flags, UpdateNoMemory(k, flags)
      PROVE  Inv'
  <2>1. /\ Structure'
        /\ pp_entries' \in [Bucket -> Seq(Addr)]
        /\ age' \in Seq(Addr)
        /\ live' \subseteq Addr
    BY <1>2, RemoveKeeps DEF UpdateNoMemory
  <2>2. touched' \subseteq Key
    BY <1>2 DEF Inv, TypeOK, UpdateNoMemory, Touch
  <2> QED
    BY <1>2, <2>1, <2>2, IteratorKept DEF Inv, TypeOK, UpdateNoMemory, iterator, program, request
<1>3. ASSUME NEW k \in Key, Delete(k)
      PROVE  Inv'
  <2>1. /\ Structure'
        /\ pp_entries' \in [Bucket -> Seq(Addr)]
        /\ age' \in Seq(Addr)
        /\ live' \subseteq Addr
    BY <1>3, RemoveKeeps DEF Delete
  <2>2. touched' \subseteq Key
    BY <1>3 DEF Inv, TypeOK, Delete, Touch
  <2> QED
    BY <1>3, <2>1, <2>2, IteratorKept DEF Inv, TypeOK, Delete, iterator, program, request
<1>4. ASSUME NEW k \in Key, Lookup(k)
      PROVE  Inv'
  <2>1. Structure'
    BY <1>4, TableKept DEF Lookup
  <2>2. held' \in Addr \cup {NULL} /\ heldKey' \in Key \cup {NULL}
    BY <1>4, LookupTyped DEF Lookup, program, Inv, TypeOK
  <2> QED
    BY <1>4, <2>1, <2>2, IteratorKept DEF Inv, TypeOK, Lookup, table, iterator, request
<1>5. CASE Return
  BY <1>5, TableKept, IteratorKept DEF Inv, TypeOK, Return, table, iterator, request
<1>6. CASE ListStart
  BY <1>6, TableKept, IteratorKept DEF Inv, TypeOK, ListStart, table, iterator, program
<1>7. CASE ListNext
  <2>1. Structure'
    BY <1>7, TableKept DEF ListNext
  <2>2. PICK e \in NextEntries(cursor) :
             /\ current' = e
             /\ p_next' = IF e = NULL THEN NULL ELSE NewerOf(e)
             /\ IF e = NULL THEN pc' = "reply" /\ UNCHANGED cursor
                            ELSE pc' = "copy" /\ cursor' = key[e]
    BY <1>7 DEF ListNext
  <2>3. e = NULL \/ (e \in Addr /\ key[e] \in Key)
    BY <2>2, NextEntriesFrom DEF Inv, TypeOK, Structure, KeysReal, IteratorReal
  <2>4. NewerOf(e) \in live \cup {NULL}
    BY NewerLive
  <2>5. /\ current' \in Addr \cup {NULL}
        /\ p_next' \in live \cup {NULL}
        /\ pc' \in {"reply", "copy"}
        /\ cursor' \in Key
    BY <2>2, <2>3, <2>4 DEF Inv, TypeOK
  <2>6. IteratorReal'
    BY <1>7, <2>5 DEF ListNext, table, Inv, Structure, KeysReal, IteratorReal
  <2> QED
    BY <1>7, <2>1, <2>5, <2>6 DEF Inv, TypeOK, ListNext, table, program
<1>8. CASE ListCopy
  <2>1. Structure'
    BY <1>8, TableKept DEF ListCopy
  <2>2. items' \in Seq(Key \X Val)
    <3>1. CASE ~Stored(cursor)
      BY <1>8, <3>1 DEF ListCopy, Inv, TypeOK
    <3>2. CASE Stored(cursor)
      <4>1. <<cursor, value[EntryFor(cursor)]>> \in Key \X Val
        BY <3>2, LookupTyped DEF Inv, TypeOK
      <4>2. items' = Append(items, <<cursor, value[EntryFor(cursor)]>>)
        BY <1>8, <3>2 DEF ListCopy
      <4> QED
        BY <4>1, <4>2, AppendProperties DEF Inv, TypeOK
    <3> QED
      BY <3>1, <3>2
  <2> QED
    BY <1>8, <2>1, <2>2, IteratorKept DEF Inv, TypeOK, ListCopy, table, iterator, program
<1>9. CASE ListReply
  BY <1>9, TableKept, IteratorKept DEF Inv, TypeOK, ListReply, table, iterator, program
<1>10. CASE UNCHANGED vars
  BY <1>10, TableKept, IteratorKept DEF Inv, TypeOK, vars, table, iterator, program, request
<1> QED
  BY <1>1, <1>2, <1>3, <1>4, <1>5, <1>6, <1>7, <1>8, <1>9, <1>10 DEF Next

\* Whatever is called on the map, and in whatever order, the variables hold what
\* their types allow: no call of hashtab.c leaves the heap of the model.
THEOREM TypeCorrect == Spec => []TypeOK
<1>1. Inv => TypeOK
  BY DEF Inv
<1> QED
  BY InitInv, NextInv, <1>1, PTL DEF Spec

\* After any sequence of updates, deletes and failed updates, from the agent
\* and from the program, interleaved with any list requests, both lists of the
\* table hold exactly the allocated entries, and no key has two.
THEOREM StructureHolds == Spec => []Structure
<1>1. Inv => Structure
  BY DEF Inv
<1> QED
  BY InitInv, NextInv, <1>1, PTL DEF Spec
-----------------------------------------------------------------------------
(* The iterator that hashtab.c keeps between the calls of a list request   *)

\* Until somebody writes the map, get_next_key answers from its key alone,
\* whether it goes on from the iterator or searches.
LEMMA NextEntry ==
    ASSUME Inv, IteratorFresh, touched = {}, NEW e \in NextEntries(cursor)
    PROVE  /\ e = IF Stored(cursor) THEN NewerOf(EntryFor(cursor)) ELSE Oldest
           /\ e \in live \cup {NULL}
<1>1. cursor \in Key
  BY DEF Inv, TypeOK
<1>2. CASE current = NULL
  BY <1>1, <1>2, NewerLive DEF NextEntries, MayContinue, MayRestart
<1>3. CASE current # NULL
  <2>1. current \in live /\ key[current] = cursor /\ p_next = NewerOf(current)
    BY <1>3 DEF IteratorFresh, IteratorAtCursor
  <2>2. Stored(cursor) /\ EntryFor(cursor) = current
    BY <1>1, <2>1, SearchFinds DEF Inv, Structure, KeysUnique
  <2>3. p_next \in live \cup {NULL}
    BY <2>1, NewerLive
  <2>4. e = p_next
    BY <1>3, <2>1, <2>3 DEF NextEntries, MayRestart
  <2> QED
    BY <2>1, <2>2, <2>3, <2>4
<1> QED
  BY <1>2, <1>3

\* Outside a request nothing is left of an earlier one; and a write during a
\* request is remembered.
LEMMA WriteKeepsFresh ==
    ASSUME IteratorFresh, NEW k, Touch(k), UNCHANGED <<iterator, request>>
    PROVE  IteratorFresh'
BY DEF IteratorFresh, IteratorAtCursor, Touch, iterator, request

\* A step that writes neither table nor iterator nor request.
LEMMA ReadKeepsFresh ==
    ASSUME IteratorFresh, UNCHANGED <<table, iterator, request, touched>>
    PROVE  IteratorFresh'
BY DEF IteratorFresh, IteratorAtCursor, NewerOf, table, iterator, request

\* Every step keeps the iterator fresh, or a write is remembered.
LEMMA NextFresh ==
    ASSUME Inv, IteratorFresh, [Next]_vars
    PROVE  IteratorFresh'
<1>1. ASSUME NEW k \in UsedKey, NEW flags \in Flags, NEW v \in UsedVal[k], Update(k, v, flags)
      PROVE  IteratorFresh'
  BY <1>1, WriteKeepsFresh DEF Update
<1>2. ASSUME NEW k \in UsedKey, NEW flags \in Flags, UpdateNoMemory(k, flags)
      PROVE  IteratorFresh'
  BY <1>2, WriteKeepsFresh DEF UpdateNoMemory
<1>3. ASSUME NEW k \in Key, Delete(k)
      PROVE  IteratorFresh'
  BY <1>3, WriteKeepsFresh DEF Delete
<1>4. ASSUME NEW k \in Key, Lookup(k)
      PROVE  IteratorFresh'
  BY <1>4, ReadKeepsFresh DEF Lookup
<1>5. CASE Return
  BY <1>5, ReadKeepsFresh DEF Return
<1>6. CASE ListStart
  BY <1>6 DEF ListStart, IteratorFresh, IteratorAtCursor, iterator
<1>7. CASE ListNext
  <2>1. PICK e \in NextEntries(cursor) :
             /\ current' = e
             /\ p_next' = IF e = NULL THEN NULL ELSE NewerOf(e)
             /\ IF e = NULL THEN pc' = "reply" /\ UNCHANGED cursor
                            ELSE pc' = "copy" /\ cursor' = key[e]
    BY <1>7 DEF ListNext
  <2>2. UNCHANGED <<age, live, key, touched>>
    BY <1>7 DEF ListNext, table
  <2>3. NewerOf(e)' = NewerOf(e)
    BY <2>1, <2>2 DEF NewerOf
  <2>4. ASSUME touched = {}
        PROVE  IteratorAtCursor'
    <3>1. e \in live \cup {NULL}
      BY <2>4, NextEntry
    <3> QED
      BY <2>1, <2>2, <2>3, <3>1 DEF IteratorAtCursor
  <2> QED
    BY <2>1, <2>2, <2>4 DEF IteratorFresh
<1>8. CASE ListCopy
  <2>1. /\ pc = "copy" /\ pc' \in {"next", "crashed"}
        /\ UNCHANGED <<age, live, key, touched, current, p_next, cursor>>
    BY <1>8 DEF ListCopy, table, iterator
  <2>2. NewerOf(current)' = NewerOf(current)
    BY <2>1 DEF NewerOf
  <2> QED
    BY <2>1, <2>2 DEF IteratorFresh, IteratorAtCursor
<1>9. CASE ListReply
  BY <1>9 DEF ListReply, IteratorFresh, IteratorAtCursor, iterator
<1>10. CASE UNCHANGED vars
  BY <1>10, ReadKeepsFresh DEF vars
<1> QED
  BY <1>1, <1>2, <1>3, <1>4, <1>5, <1>6, <1>7, <1>8, <1>9, <1>10 DEF Next

\* Before the first request there is nothing to go on from.
LEMMA InitFresh == Init => IteratorFresh
BY DEF Init, IteratorFresh, IteratorAtCursor

\* As long as nobody has written the map in a list request, the iterator that
\* hashtab.c keeps from one call to the next is not stale; and no iteration is
\* left over from one request to the next, whoever writes the map.
THEOREM IteratorFreshHolds == Spec => []IteratorFresh
<1>1. Inv /\ IteratorFresh /\ [Next]_vars => (Inv /\ IteratorFresh)'
  BY NextInv, NextFresh
<1> QED
  BY InitInv, InitFresh, <1>1, PTL DEF Spec
-----------------------------------------------------------------------------
(* List requests, up to the first write that interrupts them               *)

\* The items collected are the first entries of the age list, and the iterator
\* is at the last of them, or at the one to be copied.
Walk ==
    /\ pc \in {"next", "copy", "reply"} =>
          /\ Len(items) <= Len(age)
          /\ \A i \in 1 .. Len(items) : items[i] = <<key[age[i]], value[age[i]]>>
    /\ pc = "next" /\ items = << >> => cursor = ZeroKey
    /\ pc = "next" /\ items # << >> => current = age[Len(items)]
    /\ pc = "copy" => Len(items) < Len(age) /\ current = age[Len(items) + 1]
    /\ pc = "reply" => Len(items) = Len(age)
    /\ pc # "crashed"

ListInv ==
    /\ \A a \in live : key[a] \in UsedKey
    /\ touched = {} => Walk

\* The entry after the n-th of the age list is the next of it.
LEMMA NewerOfEntry ==
    ASSUME Inv, NEW n \in 1 .. Len(age)
    PROVE  NewerOf(age[n]) = IF n < Len(age) THEN age[n + 1] ELSE NULL
<1>1. age \in Seq(Addr) /\ NoDuplicates(age) /\ DOMAIN age = 1 .. Len(age)
  BY DEF Inv, TypeOK, Structure, AgeListExact
<1>2. age[n] \in ToSet(age)
  BY <1>1 DEF ToSet
<1>3. IndexOf(age, age[n]) = n
  BY <1>1, <1>2, IndexOfFinds DEF NoDuplicates
<1> QED
  BY <1>2, <1>3 DEF NewerOf

\* A write while the agent is idle meets no walk, and one during a request is
\* remembered.
LEMMA WriteKeeps ==
    ASSUME ListInv, NEW k, Touch(k), UNCHANGED <<iterator, request>>,
           \A a \in live' : key'[a] \in UsedKey
    PROVE  ListInv'
BY DEF ListInv, Walk, Touch, iterator, request

\* A step that writes neither table nor iterator nor request keeps ListInv.
LEMMA ReadKeeps ==
    ASSUME ListInv, UNCHANGED <<table, iterator, request, touched>>
    PROVE  ListInv'
BY DEF ListInv, Walk, table, iterator, request

\* get_next_key moves the iterator to the entry after the last one collected.
LEMMA ListNextKeeps ==
    ASSUME ZeroKey \notin UsedKey, Inv, IteratorFresh, ListInv, touched = {}, ListNext
    PROVE  Walk'
<1>1. PICK e \in NextEntries(cursor) :
           /\ current' = e
           /\ IF e = NULL THEN pc' = "reply" ELSE pc' = "copy"
  BY DEF ListNext
<1>2. /\ pc = "next"
      /\ items' = items
      /\ UNCHANGED <<age, key, value>>
  BY DEF ListNext, table
<1>3. /\ age \in Seq(Addr)
      /\ items \in Seq(Key \X Val)
      /\ cursor \in Key
      /\ \A i \in 1 .. Len(age) : age[i] \in live /\ age[i] # NULL
  BY DEF Inv, TypeOK, Structure, AgeListExact, ToSet
<1>4. Walk /\ e = IF Stored(cursor) THEN NewerOf(EntryFor(cursor)) ELSE Oldest
  BY NextEntry DEF ListInv
<1>5. e = IF Len(items) < Len(age) THEN age[Len(items) + 1] ELSE NULL
  <2>1. CASE items = << >>
    <3>1. ~Stored(cursor)
      BY <1>2, <1>3, <1>4, <2>1, SearchFinds DEF ListInv, Walk
    <3> QED
      BY <1>3, <1>4, <2>1, <3>1 DEF Oldest
  <2>2. CASE items # << >>
    <3>1. /\ Len(items) \in 1 .. Len(age)
          /\ current = age[Len(items)]
      BY <1>2, <1>3, <1>4, <2>2, EmptySeq DEF Walk
    <3>2. current \in live /\ key[current] = cursor
      BY <1>3, <3>1 DEF IteratorFresh, IteratorAtCursor
    <3>3. Stored(cursor) /\ EntryFor(cursor) = age[Len(items)]
      BY <1>3, <3>1, <3>2, SearchFinds DEF Inv, Structure, KeysUnique
    <3> QED
      BY <1>4, <3>1, <3>3, NewerOfEntry
  <2> QED
    BY <2>1, <2>2
<1>6. CASE Len(items) < Len(age)
  <2>1. e = age[Len(items) + 1] /\ e # NULL
    BY <1>3, <1>5, <1>6
  <2> QED
    BY <1>1, <1>2, <1>4, <1>6, <2>1 DEF Walk
<1>7. CASE ~(Len(items) < Len(age))
  <2>1. e = NULL /\ Len(items) = Len(age)
    BY <1>2, <1>3, <1>4, <1>5, <1>7 DEF Walk
  <2> QED
    BY <1>1, <1>2, <1>4, <2>1 DEF Walk
<1> QED
  BY <1>6, <1>7

\* The lookup of the body of the loop finds the entry the iterator is at.
LEMMA ListCopyKeeps ==
    ASSUME Inv, IteratorFresh, touched = {}, Walk, ListCopy
    PROVE  Walk'
<1> DEFINE n == Len(items)
<1>1. pc = "copy" /\ UNCHANGED <<age, live, key, value, current>>
  BY DEF ListCopy, table, iterator
<1>2. /\ age \in Seq(Addr)
      /\ items \in Seq(Key \X Val)
      /\ n \in Nat
      /\ n < Len(age)
      /\ current = age[n + 1]
      /\ current \in live
      /\ key[current] = cursor
      /\ cursor \in Key
  BY <1>1 DEF Inv, TypeOK, Structure, AgeListExact, ToSet, Walk, IteratorFresh, IteratorAtCursor
<1>3. Stored(cursor) /\ EntryFor(cursor) = current
  BY <1>2, SearchFinds DEF Inv, Structure, KeysUnique
<1>4. pc' = "next" /\ items' = Append(items, <<cursor, value[current]>>)
  BY <1>3 DEF ListCopy
<1>5. <<cursor, value[current]>> \in Key \X Val
  BY <1>2 DEF Inv, Structure, KeysReal
<1>6. /\ Len(items') = n + 1
      /\ items'[n + 1] = <<key[age[n + 1]], value[age[n + 1]]>>
      /\ \A i \in 1 .. n : items'[i] = items[i]
  BY <1>2, <1>4, <1>5, AppendProperties
<1>7. \A i \in 1 .. n + 1 : items'[i] = <<key'[age'[i]], value'[age'[i]]>>
  <2>1. \A i \in 1 .. n : items[i] = <<key[age[i]], value[age[i]]>>
    BY <1>1 DEF Walk
  <2>2. ASSUME NEW i \in 1 .. n + 1
        PROVE  items'[i] = <<key[age[i]], value[age[i]]>>
    <3>1. i \in 1 .. n \/ i = n + 1
      BY <1>2
    <3> QED
      BY <1>6, <2>1, <3>1
  <2> QED
    BY <1>1, <2>2
<1>8. items' # << >>
  BY <1>2, <1>6
<1> QED
  BY <1>1, <1>2, <1>4, <1>6, <1>7, <1>8 DEF Walk

\* Every step keeps ListInv, whoever writes the map.
LEMMA NextListInv ==
    ASSUME ZeroKey \notin UsedKey, Inv, IteratorFresh, ListInv, [Next]_vars
    PROVE  ListInv'
<1>1. ASSUME NEW k \in UsedKey, NEW flags \in Flags, NEW v \in UsedVal[k], Update(k, v, flags)
      PROVE  ListInv'
  <2>1. PICK a \in Addr \ LiveWithout(k) :
             /\ live' = LiveWithout(k) \cup {a}
             /\ key' = [key EXCEPT ![a] = k]
    BY <1>1 DEF Update
  <2>2. LiveWithout(k) \subseteq live
    BY Unlinked
  <2>3. \A b \in live' : key'[b] \in UsedKey
    BY <2>1, <2>2 DEF Inv, TypeOK, ListInv
  <2> QED
    BY <1>1, <2>3, WriteKeeps DEF Update
<1>2. ASSUME NEW k \in UsedKey, NEW flags \in Flags, UpdateNoMemory(k, flags)
      PROVE  ListInv'
  <2>1. live' \subseteq live
    BY <1>2, Unlinked DEF UpdateNoMemory
  <2> QED
    BY <1>2, <2>1, WriteKeeps DEF UpdateNoMemory, ListInv
<1>3. ASSUME NEW k \in Key, Delete(k)
      PROVE  ListInv'
  <2>1. live' \subseteq live
    BY <1>3, Unlinked DEF Delete
  <2> QED
    BY <1>3, <2>1, WriteKeeps DEF Delete, ListInv
<1>4. ASSUME NEW k \in Key, Lookup(k)
      PROVE  ListInv'
  BY <1>4, ReadKeeps DEF Lookup
<1>5. CASE Return
  BY <1>5, ReadKeeps DEF Return
<1>6. CASE ListStart
  <2>1. /\ pc' = "next" /\ cursor' = ZeroKey /\ items' = << >>
        /\ UNCHANGED <<age, live, key>>
    BY <1>6 DEF ListStart, table
  <2>2. Len(items') = 0 /\ Len(age') \in Nat
    BY <2>1 DEF Inv, TypeOK
  <2> QED
    BY <2>1, <2>2 DEF ListInv, Walk
<1>7. CASE ListNext
  <2>1. UNCHANGED <<live, key, touched>>
    BY <1>7 DEF ListNext, table
  <2> QED
    BY <1>7, <2>1, ListNextKeeps DEF ListInv
<1>8. CASE ListCopy
  <2>1. UNCHANGED <<live, key, touched>>
    BY <1>8 DEF ListCopy, table
  <2> QED
    BY <1>8, <2>1, ListCopyKeeps DEF ListInv
<1>9. CASE ListReply
  BY <1>9 DEF ListReply, ListInv, Walk, table
<1>10. CASE UNCHANGED vars
  BY <1>10, ReadKeeps DEF vars
<1> QED
  BY <1>1, <1>2, <1>3, <1>4, <1>5, <1>6, <1>7, <1>8, <1>9, <1>10 DEF Next

\* The reply to a list request that no write interrupted is exact, for tables
\* of any size.
THEOREM ListExactHolds ==
    ASSUME ZeroKey \notin UsedKey
    PROVE  Spec => []ListExact
<1>1. Init => Inv /\ IteratorFresh /\ ListInv
  BY InitInv, InitFresh DEF Init, ListInv, Walk
<1>2. Inv /\ IteratorFresh /\ ListInv /\ [Next]_vars => (Inv /\ IteratorFresh /\ ListInv)'
  BY NextInv, NextFresh, NextListInv
<1>3. Inv /\ ListInv => ListExact
  <2> SUFFICES ASSUME Inv, ListInv, pc = "reply", touched = {}
               PROVE  items = [i \in DOMAIN age |-> <<key[age[i]], value[age[i]]>>]
    BY DEF ListExact
  <2>1. /\ items \in Seq(Key \X Val)
        /\ age \in Seq(Addr)
        /\ Len(items) = Len(age)
        /\ \A i \in 1 .. Len(items) : items[i] = <<key[age[i]], value[age[i]]>>
    BY DEF Inv, TypeOK, ListInv, Walk
  <2>2. DOMAIN items = DOMAIN age /\ DOMAIN age = 1 .. Len(age)
    BY <2>1
  <2>3. items = [i \in DOMAIN items |-> items[i]]
    BY <2>1
  <2> QED
    BY <2>1, <2>2, <2>3
<1> QED
  BY <1>1, <1>2, <1>3, PTL DEF Spec
-----------------------------------------------------------------------------
(* List requests with a program that writes the map meanwhile              *)

HasEntry(k) == \E a \in live : key[a] = k

\* If the entry the iterator goes to next is freed, or the key about to be
\* looked up is gone, then that very key was written during the request.
CrashInv ==
    /\ pc \in {"idle", "reply"} => p_next = NULL
    /\ p_next # NULL => p_next \in live \/ key[p_next] \in touched
    /\ pc = "copy" => HasEntry(cursor) \/ cursor \in touched
    /\ CrashOnlyIfTouched

\* A write of k frees no other key's entry, and is remembered.
LEMMA WriteKeepsCrash ==
    ASSUME Inv, CrashInv, NEW k \in Key, Touch(k), UNCHANGED <<pc, cursor, p_next>>,
           \A a \in live : key[a] # k => a \in live' /\ key'[a] = key[a],
           \A a \in Addr : a \notin live' => key'[a] = key[a]
    PROVE  CrashInv'
<1>1. p_next \in Addr \cup {NULL}
  BY DEF Inv, TypeOK
<1>2. (pc \in {"idle", "reply"} => p_next = NULL)'
  BY DEF CrashInv
<1>3. (p_next # NULL => p_next \in live \/ key[p_next] \in touched)'
  BY <1>1 DEF CrashInv, Touch
<1>4. (pc = "copy" => HasEntry(cursor) \/ cursor \in touched)'
  <2> SUFFICES ASSUME pc = "copy"
               PROVE  HasEntry(cursor)' \/ cursor \in touched'
    OBVIOUS
  <2>1. CASE cursor \in touched \/ cursor = k
    BY <2>1 DEF Touch
  <2>2. CASE HasEntry(cursor) /\ cursor # k
    BY <2>2 DEF HasEntry
  <2> QED
    BY <2>1, <2>2 DEF CrashInv
<1>5. CrashOnlyIfTouched'
  BY DEF CrashInv, CrashOnlyIfTouched, Touch
<1> QED
  BY <1>2, <1>3, <1>4, <1>5 DEF CrashInv

\* A step that writes neither table nor iterator nor request keeps CrashInv.
LEMMA ReadKeepsCrash ==
    ASSUME CrashInv, UNCHANGED <<table, iterator, request, touched>>
    PROVE  CrashInv'
BY DEF CrashInv, HasEntry, CrashOnlyIfTouched, table, iterator, request

\* Every step keeps CrashInv, whoever writes the map.
LEMMA NextCrashInv ==
    ASSUME Inv, Inv', CrashInv, [Next]_vars
    PROVE  CrashInv'
<1>1. ASSUME NEW k \in UsedKey, NEW flags \in Flags, NEW v \in UsedVal[k], Update(k, v, flags)
      PROVE  CrashInv'
  <2>1. PICK a \in Addr \ LiveWithout(k) :
             /\ live' = LiveWithout(k) \cup {a}
             /\ key' = [key EXCEPT ![a] = k]
    BY <1>1 DEF Update
  <2>2. \A b \in live : key[b] # k => b \in LiveWithout(k)
    BY SearchFinds DEF LiveWithout
  <2>3. key \in [Addr -> Key \cup {NULL}] /\ live \subseteq Addr
    BY DEF Inv, TypeOK
  <2>4. \A b \in live : key[b] # k => b \in live' /\ key'[b] = key[b]
    BY <2>1, <2>2, <2>3
  <2>5. \A b \in Addr : b \notin live' => key'[b] = key[b]
    BY <2>1, <2>3
  <2> QED
    BY <1>1, <2>4, <2>5, WriteKeepsCrash DEF Update, iterator, request
<1>2. ASSUME NEW k \in UsedKey, NEW flags \in Flags, UpdateNoMemory(k, flags)
      PROVE  CrashInv'
  <2>1. \A b \in live : key[b] # k => b \in live'
    BY <1>2, SearchFinds DEF UpdateNoMemory, LiveWithout
  <2> QED
    BY <1>2, <2>1, WriteKeepsCrash DEF UpdateNoMemory, iterator, request
<1>3. ASSUME NEW k \in Key, Delete(k)
      PROVE  CrashInv'
  <2>1. \A b \in live : key[b] # k => b \in live'
    BY <1>3, SearchFinds DEF Delete, LiveWithout
  <2> QED
    BY <1>3, <2>1, WriteKeepsCrash DEF Delete, iterator, request
<1>4. ASSUME NEW k \in Key, Lookup(k)
      PROVE  CrashInv'
  BY <1>4, ReadKeepsCrash DEF Lookup
<1>5. CASE Return
  BY <1>5, ReadKeepsCrash DEF Return
<1>6. CASE ListStart
  BY <1>6 DEF ListStart, CrashInv, CrashOnlyIfTouched, iterator
<1>7. CASE ListNext
  <2>1. PICK e \in NextEntries(cursor) :
             /\ p_next' = IF e = NULL THEN NULL ELSE NewerOf(e)
             /\ IF e = NULL THEN pc' = "reply" /\ UNCHANGED cursor
                            ELSE pc' = "copy" /\ cursor' = key[e]
    BY <1>7 DEF ListNext
  <2>2. UNCHANGED <<live, key, touched>>
    BY <1>7 DEF ListNext, table
  <2>3. e = NULL \/ e \in live \/ key[e] \in touched
    BY NextEntriesFrom DEF CrashInv
  <2>4. p_next' = NULL \/ p_next' \in live'
    BY <2>1, <2>2, NewerLive
  <2>5. pc' = "copy" => HasEntry(cursor)' \/ cursor' \in touched'
    BY <2>1, <2>2, <2>3 DEF HasEntry
  <2>6. pc' # "idle" /\ pc' # "crashed" /\ (pc' = "reply" => p_next' = NULL)
    BY <2>1
  <2> QED
    BY <2>4, <2>5, <2>6 DEF CrashInv, CrashOnlyIfTouched
<1>8. CASE ListCopy
  <2>1. pc = "copy" /\ UNCHANGED <<live, key, p_next, cursor, touched>>
    BY <1>8 DEF ListCopy, table, iterator
  <2>2. CASE Stored(cursor)
    BY <1>8, <2>1, <2>2 DEF ListCopy, CrashInv, CrashOnlyIfTouched
  <2>3. CASE ~Stored(cursor)
    <3>1. ~HasEntry(cursor)
      BY <2>3, SearchFinds DEF HasEntry, Inv, TypeOK
    <3>2. cursor \in touched /\ pc' = "crashed"
      BY <1>8, <2>1, <2>3, <3>1 DEF ListCopy, CrashInv
    <3> QED
      BY <2>1, <3>2 DEF CrashInv, CrashOnlyIfTouched
  <2> QED
    BY <2>2, <2>3
<1>9. CASE ListReply
  BY <1>9 DEF ListReply, CrashInv, CrashOnlyIfTouched, iterator
<1>10. CASE UNCHANGED vars
  BY <1>10, ReadKeepsCrash DEF vars
<1> QED
  BY <1>1, <1>2, <1>3, <1>4, <1>5, <1>6, <1>7, <1>8, <1>9, <1>10 DEF Next

\* Whatever the program writes during a list request, and wherever the stale
\* iterator leads, the agent copies from NULL only at a key that was written.
THEOREM CrashOnlyIfTouchedHolds == Spec => []CrashOnlyIfTouched
<1>1. Init => Inv /\ CrashInv
  <2>1. Init => CrashInv
    BY DEF Init, CrashInv, CrashOnlyIfTouched
  <2> QED
    BY <2>1, InitInv
<1>2. Inv /\ CrashInv /\ [Next]_vars => (Inv /\ CrashInv)'
  BY NextInv, NextCrashInv
<1>3. Inv /\ CrashInv => CrashOnlyIfTouched
  BY DEF CrashInv
<1> QED
  BY <1>1, <1>2, <1>3, PTL DEF Spec
-----------------------------------------------------------------------------
(* Pointers that a program holds                                           *)

\* The action that HeldUntilWritten is about.
HeldStep ==
    held # NULL /\ held' = held /\ held \in live /\ key[held] = heldKey =>
        \/ held \in live' /\ key'[held] = heldKey
        \/ last'.op \in {"update", "delete"} /\ last'.key = heldKey

\* Every step leaves the element behind a pointer alone or writes its key.
LEMMA NextHeldStep == Inv /\ [Next]_vars => [HeldStep]_vars
<1> SUFFICES ASSUME Inv, [Next]_vars, held # NULL, held \in live, key[held] = heldKey
             PROVE  \/ held \in live' /\ key'[held] = heldKey
                    \/ last'.op \in {"update", "delete"} /\ last'.key = heldKey
  BY DEF HeldStep
<1>1. ASSUME NEW k \in UsedKey, NEW flags \in Flags, NEW v \in UsedVal[k], Update(k, v, flags)
      PROVE  \/ held \in live' /\ key'[held] = heldKey
             \/ last'.op \in {"update", "delete"} /\ last'.key = heldKey
  <2>1. PICK a \in Addr \ LiveWithout(k) :
             /\ live' = LiveWithout(k) \cup {a}
             /\ key' = [key EXCEPT ![a] = k]
    BY <1>1 DEF Update
  <2>2. CASE heldKey = k
    BY <1>1, <2>2 DEF Update, Call
  <2>3. CASE heldKey # k
    <3>1. held \in LiveWithout(k)
      BY <2>3, SearchFinds DEF LiveWithout
    <3> QED
      BY <2>1, <3>1 DEF Inv, TypeOK
  <2> QED
    BY <2>2, <2>3
<1>2. ASSUME NEW k \in UsedKey, NEW flags \in Flags, UpdateNoMemory(k, flags)
      PROVE  \/ held \in live' /\ key'[held] = heldKey
             \/ last'.op \in {"update", "delete"} /\ last'.key = heldKey
  <2>1. CASE heldKey = k
    BY <1>2, <2>1 DEF UpdateNoMemory, Call
  <2>2. CASE heldKey # k
    BY <1>2, <2>2, SearchFinds DEF UpdateNoMemory, LiveWithout
  <2> QED
    BY <2>1, <2>2
<1>3. ASSUME NEW k \in Key, Delete(k)
      PROVE  \/ held \in live' /\ key'[held] = heldKey
             \/ last'.op \in {"update", "delete"} /\ last'.key = heldKey
  <2>1. CASE heldKey = k
    BY <1>3, <2>1 DEF Delete, Call
  <2>2. CASE heldKey # k
    BY <1>3, <2>2, SearchFinds DEF Delete, LiveWithout
  <2> QED
    BY <2>1, <2>2
<1>4. ASSUME UNCHANGED <<live, key>>
      PROVE  held \in live' /\ key'[held] = heldKey
  BY <1>4
<1> QED
  BY <1>1, <1>2, <1>3, <1>4
     DEF Next, Lookup, Return, ListStart, ListNext, ListCopy, ListReply, vars, table

\* No operation on another key frees or moves the element that a program
\* points to, for tables of any size and any hash function.
THEOREM HeldUntilWrittenHolds == Spec => HeldUntilWritten
<1>1. Inv /\ [Next]_vars => [HeldStep]_vars
  BY NextHeldStep
<1> QED
  BY InitInv, NextInv, <1>1, PTL DEF Spec, HeldUntilWritten, HeldStep
-----------------------------------------------------------------------------
(* The table implements the dictionary of BpfMap                           *)

\* What Order and Dict are made of, entry by entry.
Shape ==
    /\ Dict = [k \in DOMAIN Dict |-> Dict[k]]
    /\ ToSet(Order) = {key[a] : a \in live}
    /\ DOMAIN Dict = {key[a] : a \in live}
    /\ \A a \in live : Dict[key[a]] = value[a]

LEMMA ShapeHolds == Inv => Shape
<1> SUFFICES ASSUME Inv
             PROVE  Shape
  OBVIOUS
<1>1. ToSet(age) = live
  BY DEF Inv, Structure, AgeListExact
<1>2. ToSet(Order) = {key[a] : a \in live}
  <2>1. DOMAIN Order = DOMAIN age /\ \A i \in DOMAIN age : Order[i] = key[age[i]]
    BY DEF Order
  <2> QED
    BY <1>1, <2>1 DEF ToSet
<1>3. ASSUME NEW a \in live
      PROVE  Dict[key[a]] = value[a]
  <2>1. key[a] \in Key /\ key[a] \in ToSet(Order)
    BY <1>2 DEF Inv, Structure, KeysReal
  <2>2. EntryFor(key[a]) = a
    BY <2>1, SearchFinds DEF Inv, Structure, KeysUnique
  <2> QED
    BY <2>1, <2>2 DEF Dict
<1> QED
  BY <1>2, <1>3 DEF Shape, Dict

LEMMA ShapePrime == Inv' => Shape'
BY ShapeHolds, PTL

\* A search finds a key exactly when the dictionary has it.
LEMMA StoredInDict ==
    ASSUME Inv, NEW k \in Key
    PROVE  /\ Stored(k) <=> k \in DOMAIN Dict
           /\ Stored(k) => Dict[k] = value[EntryFor(k)]
BY ShapeHolds, SearchFinds DEF Shape

\* The instance of Lists in BpfMap is the table's.
LEMMA MapWithout == \A s, x : Map!Without(s, x) = Without(s, x)
BY DEF Map!Without, Map!RemoveAt, Map!IndexOf, Without, RemoveAt, IndexOf

\* The walk order once the entry of k is out.
LEMMA OrderWithout ==
    ASSUME Inv, NEW k \in Key
    PROVE  Map!KeysWithout(k) = [i \in DOMAIN AgeWithout(k) |-> key[AgeWithout(k)[i]]]
<1>1. CASE ~Stored(k)
  BY <1>1, StoredInDict DEF Map!KeysWithout, AgeWithout, Order
<1>2. CASE Stored(k)
  <2>1. /\ age \in Seq(Addr)
        /\ EntryFor(k) \in ToSet(age)
        /\ key[EntryFor(k)] = k
        /\ \A i \in DOMAIN age : age[i] \in live
        /\ NoDuplicates(age)
    BY <1>2, SearchFinds DEF Inv, TypeOK, Structure, AgeListExact, ToSet
  <2>2. \A i, j \in DOMAIN age : key[age[i]] = key[age[j]] => i = j
    BY <2>1 DEF Inv, Structure, KeysUnique, NoDuplicates
  <2> DEFINE e == EntryFor(k)
  <2> HIDE DEF e
  <2>3. e \in ToSet(age) /\ key[e] = k
    BY <2>1 DEF e
  <2>4. Without([i \in DOMAIN age |-> key[age[i]]], key[e])
           = [i \in DOMAIN Without(age, e) |-> key[Without(age, e)[i]]]
    BY ONLY <2>1, <2>2, <2>3, WithoutMapped
  <2>5. AgeWithout(k) = Without(age, e)
    BY <1>2 DEF AgeWithout, e
  <2>6. Map!KeysWithout(k) = Without(Order, k)
    BY <1>2, StoredInDict, MapWithout DEF Map!KeysWithout
  <2>7. Map!KeysWithout(k) = Without([i \in DOMAIN age |-> key[age[i]]], key[e])
    BY <2>3, <2>6 DEF Order
  <2> QED
    BY <2>4, <2>5, <2>7
<1> QED
  BY <1>1, <1>2

\* A write that leaves an entry for k with value v, the newest, and the other
\* entries as they are.
LEMMA InsertMaps ==
    ASSUME Inv, Shape, Shape', NEW k \in Key, NEW v \in Val, NEW a \in Addr \ LiveWithout(k),
           age' = AgeWith(AgeWithout(k), a),
           live' = LiveWithout(k) \cup {a},
           key' = [key EXCEPT ![a] = k],
           value' = [value EXCEPT ![a] = v]
    PROVE  /\ Order' = Append(Map!KeysWithout(k), k)
           /\ Dict' = [x \in DOMAIN Dict \cup {k} |-> IF x = k THEN v ELSE Dict[x]]
<1>1. /\ key'[a] = k /\ value'[a] = v
      /\ \A b \in LiveWithout(k) : key'[b] = key[b] /\ value'[b] = value[b] /\ key[b] # k
      /\ LiveWithout(k) \subseteq live
  BY Unlinked DEF Inv, TypeOK
<1>2. \A b \in live : key[b] = k \/ b \in LiveWithout(k)
  BY SearchFinds DEF LiveWithout
<1>3. Order' = Append(Map!KeysWithout(k), k)
  <2> DEFINE A == AgeWithout(k)
  <2>1. A \in Seq(Addr) /\ \A i \in DOMAIN A : A[i] \in LiveWithout(k)
    BY Unlinked DEF ToSet
  <2>2. age' = Append(A, a)
    BY DEF AgeWith
  <2> HIDE DEF A
  <2>3. \A i \in DOMAIN A : key'[A[i]] = key[A[i]]
    BY <1>1, <2>1
  <2>4. [i \in DOMAIN Append(A, a) |-> key'[Append(A, a)[i]]]
            = Append([i \in DOMAIN A |-> key[A[i]]], key'[a])
    BY ONLY <2>1, <2>3, a \in Addr, AppendMapped
  <2>5. Order' = Append([i \in DOMAIN A |-> key[A[i]]], k)
    BY <1>1, <2>2, <2>4 DEF Order
  <2> QED
    BY <2>5, OrderWithout DEF A
<1>4. Dict' = [x \in DOMAIN Dict \cup {k} |-> IF x = k THEN v ELSE Dict[x]]
  <2> DEFINE D == Dict'
             g == [x \in DOMAIN Dict \cup {k} |-> IF x = k THEN v ELSE Dict[x]]
  <2>1. DOMAIN D = DOMAIN Dict \cup {k}
    BY <1>1, <1>2 DEF Shape
  <2>2. ASSUME NEW x \in DOMAIN D
        PROVE  D[x] = IF x = k THEN v ELSE Dict[x]
    <3>1. PICK b \in live' : x = key'[b]
      BY DEF Shape
    <3>2. D[x] = value'[b]
      BY <3>1 DEF Shape
    <3> QED
      BY <1>1, <3>1, <3>2 DEF Shape
  <2>3. D = [x \in DOMAIN D |-> D[x]]
    BY DEF Shape
  <2> HIDE DEF D
  <2> QED
    BY <2>1, <2>2, <2>3 DEF D
<1> QED
  BY <1>3, <1>4

\* A write that leaves no entry for k and the other entries as they are.
LEMMA RemoveMaps ==
    ASSUME Inv, Shape, Shape', NEW k \in Key,
           age' = AgeWithout(k),
           live' = LiveWithout(k),
           UNCHANGED <<key, value>>
    PROVE  /\ Order' = Map!KeysWithout(k)
           /\ Dict' = [x \in DOMAIN Dict \ {k} |-> Dict[x]]
<1>1. /\ \A b \in LiveWithout(k) : key[b] # k
      /\ LiveWithout(k) \subseteq live
      /\ \A b \in live : key[b] = k \/ b \in LiveWithout(k)
  BY Unlinked, SearchFinds DEF LiveWithout
<1>2. Order' = Map!KeysWithout(k)
  BY OrderWithout DEF Order
<1>3. Dict' = [x \in DOMAIN Dict \ {k} |-> Dict[x]]
  <2> DEFINE D == Dict'
  <2>1. DOMAIN D = DOMAIN Dict \ {k}
    BY <1>1 DEF Shape
  <2>2. ASSUME NEW x \in DOMAIN D
        PROVE  D[x] = Dict[x]
    <3>1. PICK b \in live' : x = key'[b]
      BY DEF Shape
    <3>2. D[x] = value'[b]
      BY <3>1 DEF Shape
    <3> QED
      BY <1>1, <3>1, <3>2 DEF Shape
  <2>3. D = [x \in DOMAIN D |-> D[x]]
    BY DEF Shape
  <2> HIDE DEF D
  <2> QED
    BY <2>1, <2>2, <2>3 DEF D
<1> QED
  BY <1>2, <1>3

\* What get_next_key reaches from a key is the next one of the walk order.
LEMMA NextMaps ==
    ASSUME Inv, NEW k \in Key, NEW e,
           e = IF Stored(k) THEN NewerOf(EntryFor(k)) ELSE Oldest
    PROVE  /\ Map!NextPosition(k) \in DOMAIN Order => e # NULL /\ key[e] = Order[Map!NextPosition(k)]
           /\ Map!NextPosition(k) \notin DOMAIN Order => e = NULL
<1>1. /\ age \in Seq(Addr)
      /\ DOMAIN age = 1 .. Len(age) /\ Len(age) \in Nat
      /\ NULL \notin Addr
      /\ DOMAIN Order = DOMAIN age
      /\ \A i \in DOMAIN age : Order[i] = key[age[i]] /\ age[i] \in live
  BY DEF Inv, TypeOK, Order, Structure, AgeListExact, ToSet
<1>2. CASE ~Stored(k)
  <2>1. Map!NextPosition(k) = 1 /\ e = Oldest
    BY <1>2, StoredInDict DEF Map!NextPosition
  <2>2. Oldest = IF Len(age) = 0 THEN NULL ELSE age[1]
    BY <1>1, EmptySeq DEF Oldest
  <2> QED
    BY <1>1, <2>1, <2>2
<1>3. CASE Stored(k)
  <2>1. EntryFor(k) \in live /\ key[EntryFor(k)] = k
    BY <1>3, SearchFinds
  <2>2. PICK n \in 1 .. Len(age) : age[n] = EntryFor(k)
    BY <1>1, <2>1 DEF Inv, Structure, AgeListExact, ToSet
  <2>3. \A i \in DOMAIN Order : Order[i] = k <=> i = n
    BY <1>1, <2>1, <2>2 DEF Inv, Structure, KeysUnique, AgeListExact, NoDuplicates
  <2>4. Map!IndexOf(Order, k) = n
    BY <1>1, <2>2, <2>3 DEF Map!IndexOf
  <2>5. Map!NextPosition(k) = n + 1
    BY <1>3, <2>4, StoredInDict DEF Map!NextPosition
  <2>6. e = IF n < Len(age) THEN age[n + 1] ELSE NULL
    BY <1>3, <2>2, NewerOfEntry
  <2> QED
    BY <1>1, <2>2, <2>5, <2>6
<1> QED
  BY <1>2, <1>3

\* The empty table is the empty dictionary.
LEMMA InitMaps == Init => Map!Init
<1> SUFFICES ASSUME Init
             PROVE  Map!Init
  OBVIOUS
<1>1. age = << >> /\ touched = {} /\ last = Map!Call("none", NULL, Map!BPF_ANY, TRUE, NULL)
  BY DEF Init, Call, BPF_ANY, Map!Call, Map!BPF_ANY
<1>2. Order = << >>
  BY <1>1 DEF Order
<1>3. Dict = [k \in {} |-> NULL]
  BY <1>2 DEF Dict, ToSet
<1> QED
  BY <1>1, <1>2, <1>3 DEF Map!Init, Disturbed

\* A write marks the walk that it interrupts.
LEMMA TouchDisturbs ==
    ASSUME NEW k, Touch(k)
    PROVE  Map!Disturb
BY DEF Touch, Map!Disturb, Disturbed

\* Every step of the table is one of the dictionary, or none.
LEMMA NextMapsToNext ==
    ASSUME Flags \subseteq {BPF_ANY}, Inv, Inv', IteratorFresh, [Next]_vars
    PROVE  [Map!Next]_Map!vars
<1>1. Shape /\ Shape'
  BY ShapeHolds, ShapePrime
<1>2. \A op, k, flags, ok, out : Call(op, k, flags, ok, out) = Map!Call(op, k, flags, ok, out)
  BY DEF Call, Map!Call
<1>3. ASSUME NEW k \in UsedKey, NEW flags \in Flags, NEW v \in UsedVal[k], Update(k, v, flags)
      PROVE  Map!Next
  <2>1. k \in Key /\ v \in Val
    OBVIOUS
  <2>2. PICK a \in Addr \ LiveWithout(k) :
             /\ age' = AgeWith(AgeWithout(k), a)
             /\ live' = LiveWithout(k) \cup {a}
             /\ key' = [key EXCEPT ![a] = k]
             /\ value' = [value EXCEPT ![a] = v]
    BY <1>3 DEF Update
  <2>3. /\ Order' = Append(Map!KeysWithout(k), k)
        /\ Dict' = [x \in DOMAIN Dict \cup {k} |-> IF x = k THEN v ELSE Dict[x]]
    BY <1>1, <2>1, <2>2, InsertMaps
  <2>4. Map!Disturb /\ last' = Map!Call("update", k, flags, TRUE, NULL)
    BY <1>2, <1>3, TouchDisturbs DEF Update
  <2>5. Map!Admits(k, flags)
    BY DEF Map!Admits, BPF_ANY, Map!BPF_NOEXIST, Map!BPF_EXIST
  <2>6. Map!Update(k, v, flags)
    BY <2>3, <2>4, <2>5 DEF Map!Update
  <2> QED
    BY <2>1, <2>6 DEF Map!Next
<1>4. ASSUME NEW k \in UsedKey, NEW flags \in Flags, UpdateNoMemory(k, flags)
      PROVE  Map!Next
  <2>1. /\ Order' = Map!KeysWithout(k)
        /\ Dict' = [x \in DOMAIN Dict \ {k} |-> Dict[x]]
    BY <1>1, <1>4, RemoveMaps DEF UpdateNoMemory
  <2>2. Map!Disturb /\ last' = Map!Call("update", k, flags, FALSE, NULL)
    BY <1>2, <1>4, TouchDisturbs DEF UpdateNoMemory
  <2>3. Map!FailUpdate(k, flags)
    BY <2>1, <2>2 DEF Map!FailUpdate
  <2> QED
    BY <2>3 DEF Map!Next
<1>5. ASSUME NEW k \in Key, Delete(k)
      PROVE  Map!Next
  <2>1. /\ Order' = Map!KeysWithout(k)
        /\ Dict' = [x \in DOMAIN Dict \ {k} |-> Dict[x]]
    BY <1>1, <1>5, RemoveMaps DEF Delete
  <2>2. Map!Disturb /\ last' = Call("delete", k, BPF_ANY, Stored(k), NULL)
    BY <1>5, TouchDisturbs DEF Delete
  <2>3. Stored(k) = (k \in DOMAIN Dict)
    BY StoredInDict DEF Stored
  <2>4. last' = Map!Call("delete", k, Map!BPF_ANY, k \in DOMAIN Dict, NULL)
    BY <1>2, <2>2, <2>3 DEF BPF_ANY, Map!BPF_ANY
  <2>5. Map!Delete(k)
    BY <2>1, <2>2, <2>4 DEF Map!Delete
  <2> QED
    BY <2>5 DEF Map!Next
<1>6. ASSUME UNCHANGED table
      PROVE  Order' = Order /\ Dict' = Dict
  <2>1. UNCHANGED <<pp_entries, age, live, key, value>>
    BY <1>6 DEF table
  <2>2. Order' = Order
    BY <2>1 DEF Order
  <2>3. \A k : EntryFor(k)' = EntryFor(k)
    BY <2>1 DEF EntryFor, Matches, Chain
  <2> QED
    BY <2>1, <2>2, <2>3 DEF Dict
<1>7. ASSUME NEW k \in Key, UNCHANGED table, UNCHANGED touched, last' = LookupResult(k)
      PROVE  Map!Next
  <2>1. UNCHANGED <<Order, Dict, Disturbed>>
    BY <1>6, <1>7 DEF Disturbed
  <2>2. last' = IF k \in DOMAIN Dict THEN Map!Call("lookup", k, Map!BPF_ANY, TRUE, Dict[k])
                                     ELSE Map!Call("lookup", k, Map!BPF_ANY, FALSE, NULL)
    BY <1>2, <1>7, StoredInDict DEF LookupResult, BPF_ANY, Map!BPF_ANY
  <2>3. Map!Lookup(k)
    BY <2>1, <2>2 DEF Map!Lookup
  <2> QED
    BY <2>3 DEF Map!Next
<1>8. ASSUME UNCHANGED table, UNCHANGED last, UNCHANGED touched
      PROVE  UNCHANGED Map!vars
  BY <1>6, <1>8 DEF Map!vars, Disturbed
<1>9. ASSUME UNCHANGED table, UNCHANGED last, touched' = {}
      PROVE  Map!Next
  BY <1>6, <1>9 DEF Map!Next, Map!NewWalk, Disturbed
<1>10. CASE ListNext
  <2>1. PICK e \in NextEntries(cursor) :
             last' = IF e = NULL THEN Call("next", cursor, BPF_ANY, FALSE, NULL)
                                 ELSE Call("next", cursor, BPF_ANY, TRUE, key[e])
    BY <1>10 DEF ListNext
  <2>2. UNCHANGED <<Order, Dict, Disturbed>>
    BY <1>6, <1>10 DEF ListNext, Disturbed
  <2>3. cursor \in Key
    BY DEF Inv, TypeOK
  <2>4. CASE touched = {}
    <3>1. e = IF Stored(cursor) THEN NewerOf(EntryFor(cursor)) ELSE Oldest
      BY <2>4, NextEntry
    <3>2. Map!GetNextKey(cursor)
      BY <1>2, <2>1, <2>2, <2>3, <2>4, <3>1, NextMaps
         DEF Map!GetNextKey, Disturbed, BPF_ANY, Map!BPF_ANY
    <3> QED
      BY <2>3, <3>2 DEF Map!Next
  <2>5. CASE touched # {}
    <3>1. e = NULL \/ key[e] \in Key
      BY NextEntriesFrom DEF Inv, Structure, KeysReal, IteratorReal
    <3>2. Map!GetSomeKey(cursor)
      BY <1>2, <2>1, <2>2, <2>5, <3>1 DEF Map!GetSomeKey, Disturbed, BPF_ANY, Map!BPF_ANY
    <3> QED
      BY <2>3, <3>2 DEF Map!Next
  <2> QED
    BY <2>4, <2>5
<1>11. CASE ListCopy
  BY <1>7, <1>11 DEF ListCopy, Inv, TypeOK
<1>12. CASE ListStart \/ ListReply
  BY <1>9, <1>12 DEF ListStart, ListReply
<1>13. CASE Return \/ UNCHANGED vars
  BY <1>8, <1>13 DEF Return, vars
<1>14. ASSUME NEW k \in Key, Lookup(k)
       PROVE  Map!Next
  BY <1>7, <1>14 DEF Lookup
<1> QED
  BY <1>3, <1>4, <1>5, <1>10, <1>11, <1>12, <1>13, <1>14 DEF Next

\* Where the flags are 0, as all that the agent and the helpers pass are, the
\* table is a dictionary to whoever calls it, for any keys, any hash function
\* and any run of colliding keys, failed allocations, and list requests that
\* the program's writes interrupt: every call answers as BpfMap does.
THEOREM Implements ==
    ASSUME Flags \subseteq {BPF_ANY}
    PROVE  Spec => ImplementsBpfMap
<1>1. Inv /\ IteratorFresh /\ [Next]_vars => (Inv /\ IteratorFresh)'
  BY NextInv, NextFresh
<1>2. Inv /\ IteratorFresh /\ [Next]_vars => [Map!Next]_Map!vars
  BY NextInv, NextMapsToNext
<1> QED
  BY InitInv, InitFresh, InitMaps, <1>1, <1>2, PTL DEF Spec, ImplementsBpfMap, Map!Spec
=============================================================================
