----------------------------- MODULE DpdkProofs -----------------------------
(***************************************************************************)
(* Proofs about Dpdk for any ports, lcores, ways to set them up, sizes of  *)
(* bursts and queues, and any buffers: what is sent is a buffer, no store  *)
(* leaves a burst, and where nothing is flooded and the agent has its own  *)
(* bursts, every buffer is in one place, is counted once, and packets stay *)
(* in order.                                                               *)
(***************************************************************************)
EXTENDS Dpdk, SequenceTheorems, FiniteSetTheorems, TLAPS

-----------------------------------------------------------------------------
(* Sets of numbers and sequences                                           *)

\* A finite set of numbers that is not empty has a least element.
LEMMA MinIs ==
    ASSUME NEW S, IsFiniteSet(S), S \subseteq Int, S # {}
    PROVE  Min(S) \in S /\ \A y \in S : Min(S) <= y
<1> DEFINE Below(x) == {y \in S : y < x}
           T == {Below(x) : x \in S}
<1>1. IsWellFoundedOn(StrictSubsetOrdering(S), SUBSET S)
  BY FS_StrictSubsetOrderingWellFounded, FS_FiniteSubsetsOfFinite
<1>2. T \subseteq SUBSET S /\ T # {}
  OBVIOUS
<1>3. PICK B \in T : \A C \in T : <<C, B>> \notin StrictSubsetOrdering(S)
  <2> HIDE DEF T
  <2> QED
    BY <1>1, <1>2, WFMin
<1>4. PICK x \in S : B = Below(x)
  OBVIOUS
<1>5. ASSUME NEW y \in S
      PROVE  x <= y
  <2>1. SUFFICES ASSUME y < x
                 PROVE  FALSE
    BY <1>4
  <2>2. Below(y) \in T /\ Below(y) \subseteq Below(x) /\ y \in Below(x) /\ y \notin Below(y)
    <3>1. Below(y) \in T
      OBVIOUS
    <3>2. \A z \in S : z < y => z < x
      BY <2>1
    <3>3. ~(y < y)
      OBVIOUS
    <3> QED
      BY <2>1, <3>1, <3>2, <3>3
  <2>3. <<Below(y), B>> \in StrictSubsetOrdering(S)
    BY <2>2, <1>4 DEF StrictSubsetOrdering
  <2> QED
    BY <1>3, <2>2, <2>3
<1> QED
  BY <1>5 DEF Min

LEMMA Sizes ==
    /\ NPorts \in Nat \ {0} /\ NLcores \in Nat \ {0}
    /\ MAX_PKT_BURST \in Nat \ {0} /\ NbTxd \in Nat \ {0}
    /\ RefWrap \in Nat \ {0} /\ NONE \notin Mbuf
BY DpdkAssumption

LEMMA Names ==
    /\ 0 \in Port /\ Port \subseteq Nat /\ IsFiniteSet(Port)
    /\ 0 \in Lcore /\ Lcore \subseteq Thread /\ Thread = Lcore \cup {ANY} /\ ANY \notin Lcore
<1>1. IsFiniteSet(Port)
  BY Sizes, FS_Interval DEF Port
<1> QED
  BY <1>1, Sizes DEF Port, Lcore, Thread, ANY

USE Sizes, Names

\* The next port of a round is one of its ports.
LEMMA NextPort ==
    ASSUME NEW S, S \subseteq Port, S # {}
    PROVE  Min(S) \in S /\ Min(S) \in Port
<1>2. IsFiniteSet(S)
  BY FS_Subset
<1>3. S \subseteq Int
  OBVIOUS
<1>4. Min(S) \in S
  BY <1>2, <1>3, MinIs
<1> QED
  BY <1>4

LEMMA MinOfTwo ==
    ASSUME NEW a \in Int, NEW b \in Int
    PROVE  Min({a, b}) = IF a <= b THEN a ELSE b
BY DEF Min

\* How often a buffer occurs in a sequence is a number.
LEMMA OccurrencesNat ==
    ASSUME NEW S, NEW s \in Seq(S), NEW b
    PROVE  Occurrences(s, b) \in Nat
<1>1. IsFiniteSet(DOMAIN s)
  <2>1. DOMAIN s = 1 .. Len(s) /\ Len(s) \in Int /\ 1 \in Int
    OBVIOUS
  <2> QED
    BY ONLY <2>1, FS_Interval
<1>2. IsFiniteSet({i \in DOMAIN s : s[i] = b})
  BY <1>1, FS_Subset
<1> QED
  BY <1>2, FS_CardinalityType DEF Occurrences

\* The filled part of a burst is a sequence of buffers.
LEMMA FilledPart ==
    ASSUME NEW table \in [1 .. MAX_PKT_BURST -> Mbuf \cup {NONE}],
           NEW n \in 0 .. MAX_PKT_BURST,
           \A i \in 1 .. n : table[i] \in Mbuf
    PROVE  /\ SubSeq(table, 1, n) \in Seq(Mbuf)
           /\ Len(SubSeq(table, 1, n)) = n
           /\ \A i \in 1 .. n : SubSeq(table, 1, n)[i] = table[i]
<1>1. table \in Seq(Mbuf \cup {NONE}) /\ Len(table) = MAX_PKT_BURST
  OBVIOUS
<1> DEFINE s == SubSeq(table, 1, n)
<1>2. s \in Seq(Mbuf \cup {NONE}) /\ Len(s) = n /\ \A i \in 1 .. n : s[i] = table[i]
  BY <1>1, SubSeqProperties
<1> HIDE DEF s
<1>3. s \in Seq(Mbuf)
  BY <1>2
<1> QED
  BY <1>2, <1>3 DEF s

\* What follows the first n of a sequence.
LEMMA TailPart ==
    ASSUME NEW S, NEW s \in Seq(S), NEW n \in 0 .. Len(s)
    PROVE  /\ SubSeq(s, n + 1, Len(s)) \in Seq(S)
           /\ Len(SubSeq(s, n + 1, Len(s))) = Len(s) - n
           /\ \A i \in 1 .. Len(s) - n : SubSeq(s, n + 1, Len(s))[i] = s[n + i]
<1>1. \A i \in n + 1 .. Len(s) : s[i] \in S
  OBVIOUS
<1> QED
  BY <1>1, SubSeqProperties

LEMMA HeadPart ==
    ASSUME NEW S, NEW s \in Seq(S), NEW n \in 0 .. Len(s)
    PROVE  /\ SubSeq(s, 1, n) \in Seq(S)
           /\ Len(SubSeq(s, 1, n)) = n
           /\ \A i \in 1 .. n : SubSeq(s, 1, n)[i] = s[i]
BY SubSeqProperties

-----------------------------------------------------------------------------
(* Types                                                                   *)

Working == {"flood", "release", "read", "put", "write"}

\* Where a thread can be, and what its locals hold there.
ThreadOK(t) ==
    /\ t \in Lcore \ Polling => pc[t] = "idle"
    /\ t = ANY => pc[t] \in Working \cup {"idle", "crash"}
    /\ pc[t] \in {"drain", "reset", "rx"} => rest[t] # {}
    /\ pc[t] \in Working => m[t] \in Mbuf
    /\ pc[t] \in {"put", "write"} => num[t] < MAX_PKT_BURST

Threads == \A t \in Thread : ThreadOK(t)

\* There is a buffer in every entry of a burst below its length, as the
\* variable or a thread in send_packet has it.
FilledTo(q, p, n) == \A i \in 1 .. n : m_table[q][p][i] \in Mbuf

Filled ==
    /\ \A q \in Lcore, p \in Port : FilledTo(q, p, len[q][p])
    /\ \A t \in Thread :
          pc[t] \in {"put", "write"} => FilledTo(Queue(t), port[t], num[t])

TypeInv == TypeOK /\ Threads /\ Filled

LEMMA SetupFacts ==
    ASSUME setup \in Setups
    PROVE  /\ setup.ports \subseteq Port /\ setup.ports # {}
           /\ setup.lcores \subseteq Lcore
           /\ setup.mbufs \subseteq Mbuf
           /\ setup.program \subseteq Verdict
           /\ setup.agent \subseteq Port \cup {FLOOD}
           /\ setup.agent \cap Port \subseteq setup.ports
           /\ setup.program \cap Port \subseteq setup.ports
BY DpdkAssumption DEF Setup

LEMMA PollingFacts ==
    ASSUME setup \in Setups
    PROVE  /\ Polling \subseteq Lcore
           /\ \A l \in Lcore : rx_port_list[l] \subseteq setup.ports
           /\ \A l \in Lcore : l \in Polling <=> rx_port_list[l] # {}
BY DEF Polling, rx_port_list

LEMMA QueueOf ==
    ASSUME NEW t \in Thread
    PROVE  Queue(t) \in Lcore
BY DEF Queue

\* What Free leaves of the buffers' state.
LEMMA FreeTypes ==
    ASSUME TypeOK, NEW s \in Seq(Mbuf), Free(s)
    PROVE  /\ pool' \subseteq Mbuf
           /\ refcnt' \in [Mbuf -> 0 .. RefWrap - 1]
           /\ in_port' \in [Mbuf -> Port]
           /\ age' \subseteq Mbuf \X Mbuf
<1>1. \A b \in Mbuf : Occurrences(s, b) \in Nat
  BY OccurrencesNat
<1>2. Range(s) \subseteq Mbuf
  BY DEF Range
<1>3. ASSUME NEW b \in Mbuf
      PROVE  (refcnt[b] + RefWrap - Occurrences(s, b)) % RefWrap \in 0 .. RefWrap - 1
  <2> DEFINE a == refcnt[b] + RefWrap - Occurrences(s, b)
  <2>1. a \in Int
    <3>1. refcnt[b] \in 0 .. RefWrap - 1
      BY DEF TypeOK
    <3> QED
      BY <1>1, <3>1
  <2> HIDE DEF a
  <2>2. a % RefWrap \in 0 .. RefWrap - 1
    BY <2>1
  <2> QED
    BY <2>2 DEF a
<1>4. refcnt' \in [Mbuf -> 0 .. RefWrap - 1]
  BY <1>3 DEF Free
<1>5. 0 \in Port
  OBVIOUS
<1> QED
  BY <1>2, <1>4, <1>5 DEF Free, TypeOK

\* l2fwd_send_burst: the first buffers go to the driver, the others are freed.
LEMMA SendBurstDoes ==
    ASSUME TypeOK, NEW p \in Port, NEW s \in Seq(Mbuf), SendBurst(p, s)
    PROVE  \E sent \in 0 .. Len(s) :
              /\ nic' \in [Port -> Seq(Mbuf)]
              /\ \A o \in Port \ {p} : nic'[o] = nic[o]
              /\ Len(nic'[p]) = Len(nic[p]) + sent
              /\ Len(nic'[p]) <= NbTxd
              /\ \A i \in 1 .. Len(nic[p]) : nic'[p][i] = nic[p][i]
              /\ \A i \in 1 .. sent : nic'[p][Len(nic[p]) + i] = s[i]
              /\ SubSeq(s, sent + 1, Len(s)) \in Seq(Mbuf)
              /\ Free(SubSeq(s, sent + 1, Len(s)))
<1> DEFINE sent == Min({Len(s), NbTxd - Len(nic[p])})
           old == nic[p]
           first == SubSeq(s, 1, sent)
<1>1. old \in Seq(Mbuf) /\ Len(old) <= NbTxd
  BY DEF TypeOK
<1>2. sent \in 0 .. Len(s) /\ sent <= NbTxd - Len(old)
  <2> DEFINE a == Len(s)
             b == NbTxd - Len(old)
  <2>1. a \in Nat /\ b \in Nat
    BY <1>1
  <2>2. sent = Min({a, b})
    OBVIOUS
  <2> HIDE DEF sent, a, b
  <2>3. sent = IF a <= b THEN a ELSE b
    BY <2>1, <2>2, MinOfTwo
  <2>4. sent \in 0 .. a /\ sent <= b
    BY <2>1, <2>3
  <2> QED
    BY <2>4 DEF a, b
<1>3. nic' = [nic EXCEPT ![p] = old \o first] /\ Free(SubSeq(s, sent + 1, Len(s)))
  BY DEF SendBurst
<1> HIDE DEF sent
<1>4. first \in Seq(Mbuf) /\ Len(first) = sent /\ \A i \in 1 .. sent : first[i] = s[i]
  BY <1>2, HeadPart
<1>5. SubSeq(s, sent + 1, Len(s)) \in Seq(Mbuf)
  BY <1>2, TailPart
<1> HIDE DEF first, old
<1>6. /\ old \o first \in Seq(Mbuf)
      /\ Len(old \o first) = Len(old) + sent
      /\ \A i \in 1 .. Len(old) : (old \o first)[i] = old[i]
      /\ \A i \in 1 .. sent : (old \o first)[Len(old) + i] = first[i]
  <2>1. /\ old \o first \in Seq(Mbuf)
        /\ Len(old \o first) = Len(old) + Len(first)
        /\ \A i \in 1 .. Len(old) + Len(first) :
              (old \o first)[i] = IF i <= Len(old) THEN old[i] ELSE first[i - Len(old)]
    BY ONLY <1>1, <1>4, ConcatProperties
  <2> DEFINE both == old \o first
  <2> HIDE DEF both
  <2>2. \A i \in 1 .. Len(old) : both[i] = old[i]
    BY <1>1, <1>2, <1>4, <2>1 DEF both
  <2>3. ASSUME NEW i \in 1 .. sent
        PROVE  both[Len(old) + i] = first[i]
    BY <1>1, <1>2, <1>4, <2>1 DEF both
  <2> QED
    BY <1>4, <2>1, <2>2, <2>3 DEF both
<1>7. nic \in [Port -> Seq(Mbuf)]
  BY DEF TypeOK
<1>8. nic'[p] = old \o first /\ nic' \in [Port -> Seq(Mbuf)] /\ \A o \in Port \ {p} : nic'[o] = nic[o]
  BY <1>3, <1>6, <1>7
<1>9. /\ Len(nic'[p]) = Len(old) + sent
      /\ Len(nic'[p]) <= NbTxd
      /\ \A i \in 1 .. Len(old) : nic'[p][i] = old[i]
      /\ \A i \in 1 .. sent : nic'[p][Len(old) + i] = s[i]
  BY <1>1, <1>2, <1>4, <1>6, <1>8
<1> QED
  BY <1>2, <1>3, <1>5, <1>8, <1>9 DEF old

LEMMA SetupKept ==
    ASSUME UNCHANGED setup
    PROVE  /\ Polling' = Polling
           /\ rx_port_list' = rx_port_list
           /\ Exclusive' = Exclusive
           /\ Floods' = Floods
BY DEF Polling, rx_port_list, Rank, Exclusive, Floods

\* Where the agent has its own bursts, no two threads use the same.
LEMMA Alone ==
    ASSUME Threads, Exclusive, NEW t \in Thread, NEW u \in Thread, t # u,
           pc[t] # "idle", pc[u] # "idle"
    PROVE  Queue(t) # Queue(u)
<1>1. 0 \notin Polling
  BY DEF Polling, Exclusive
<1>2. pc[0] = "idle"
  BY <1>1 DEF Threads, ThreadOK
<1> QED
  BY <1>2 DEF Queue

\* What Filled asks for is there after SetLen, too.
LEMMA SetLenFilled ==
    ASSUME TypeInv, NEW t \in Thread, NEW p \in Port, NEW n \in 0 .. MAX_PKT_BURST - 1,
           pc[t] # "idle", FilledTo(Queue(t), p, n), SetLen(Queue(t), p, n),
           UNCHANGED setup,
           \A u \in Thread : pc'[u] \in {"put", "write"} =>
               u # t /\ pc'[u] = pc[u] /\ num'[u] = num[u] /\ port'[u] = port[u]
    PROVE  /\ len' \in [Lcore -> [Port -> 0 .. MAX_PKT_BURST - 1]]
           /\ m_table' \in [Lcore -> [Port -> [1 .. MAX_PKT_BURST -> Mbuf \cup {NONE}]]]
           /\ Filled'
<1> DEFINE q == Queue(t)
<1>1. q \in Lcore
  BY QueueOf
<1>2. /\ len \in [Lcore -> [Port -> 0 .. MAX_PKT_BURST - 1]]
      /\ m_table \in [Lcore -> [Port -> [1 .. MAX_PKT_BURST -> Mbuf \cup {NONE}]]]
      /\ port \in [Thread -> Port] /\ num \in [Thread -> 0 .. MAX_PKT_BURST]
  BY DEF TypeInv, TypeOK
<1>3. len' = [len EXCEPT ![q][p] = n]
  BY DEF SetLen
<1> HIDE DEF q
<1>4. len' \in [Lcore -> [Port -> 0 .. MAX_PKT_BURST - 1]]
  BY <1>1, <1>2, <1>3
<1>5. CASE ~(Exclusive /\ n = 0)
  <2>1. m_table' = m_table
    BY <1>5 DEF SetLen
  <2>2. ASSUME NEW r \in Lcore, NEW o \in Port
        PROVE  FilledTo(r, o, len[r][o])'
    <3>1. len'[r][o] = IF r = q /\ o = p THEN n ELSE len[r][o]
      BY <1>1, <1>2, <1>3
    <3>2. FilledTo(r, o, len[r][o]) /\ FilledTo(q, p, n)
      BY DEF TypeInv, Filled, q
    <3> QED
      BY <2>1, <3>1, <3>2 DEF FilledTo
  <2>3. ASSUME NEW u \in Thread, pc'[u] \in {"put", "write"}
        PROVE  FilledTo(Queue(u), port[u], num[u])'
    <3>1. FilledTo(Queue(u), port[u], num[u]) /\ num'[u] = num[u] /\ port'[u] = port[u]
      BY <2>3 DEF TypeInv, Filled
    <3> QED
      BY <2>1, <3>1 DEF FilledTo, Queue
  <2>4. Filled'
    BY <2>2, <2>3 DEF Filled
  <2> QED
    BY <1>2, <1>4, <2>1, <2>4
<1>6. CASE Exclusive /\ n = 0
  <2>1. m_table' = [m_table EXCEPT ![q][p] = [i \in 1 .. MAX_PKT_BURST |-> NONE]]
    BY <1>6 DEF SetLen, q
  <2>2. m_table' \in [Lcore -> [Port -> [1 .. MAX_PKT_BURST -> Mbuf \cup {NONE}]]]
    BY <1>1, <1>2, <2>1
  <2>3. \A r \in Lcore, o \in Port : r # q \/ o # p => m_table'[r][o] = m_table[r][o]
    BY <1>1, <1>2, <2>1
  <2>4. ASSUME NEW r \in Lcore, NEW o \in Port
        PROVE  FilledTo(r, o, len[r][o])'
    <3>1. len'[r][o] = IF r = q /\ o = p THEN 0 ELSE len[r][o]
      BY <1>1, <1>2, <1>3, <1>6
    <3>2. FilledTo(r, o, len[r][o])
      BY DEF TypeInv, Filled
    <3> QED
      BY <2>3, <3>1, <3>2 DEF FilledTo
  <2>5. ASSUME NEW u \in Thread, pc'[u] \in {"put", "write"}
        PROVE  FilledTo(Queue(u), port[u], num[u])'
    <3>1. /\ FilledTo(Queue(u), port[u], num[u]) /\ u # t /\ pc[u] # "idle"
          /\ num'[u] = num[u] /\ port'[u] = port[u]
      BY <2>5 DEF TypeInv, Filled
    <3>2. Queue(u) # q
      BY <1>6, <3>1, Alone DEF TypeInv, q
    <3>3. Queue(u) \in Lcore /\ port[u] \in Port
      BY <1>2, QueueOf
    <3>4. m_table'[Queue(u)][port[u]] = m_table[Queue(u)][port[u]]
      BY <2>3, <3>2, <3>3
    <3> QED
      BY <3>1, <3>4 DEF FilledTo, Queue
  <2>6. Filled'
    BY <2>4, <2>5 DEF Filled
  <2> QED
    BY <1>4, <2>2, <2>6
<1> QED
  BY <1>5, <1>6

\* A step that leaves the bursts alone and starts no store keeps them filled.
LEMMA FilledKept ==
    ASSUME Filled, UNCHANGED <<len, m_table>>,
           \A t \in Thread : pc'[t] \in {"put", "write"} =>
                pc[t] \in {"put", "write"} /\ port'[t] = port[t] /\ num'[t] = num[t]
    PROVE  Filled'
<1>1. ASSUME NEW q \in Lcore, NEW p \in Port
      PROVE  FilledTo(q, p, len[q][p])'
  BY DEF Filled, FilledTo
<1>2. ASSUME NEW t \in Thread, pc'[t] \in {"put", "write"}
      PROVE  FilledTo(Queue(t), port[t], num[t])'
  BY <1>2 DEF Filled, FilledTo, Queue
<1> QED
  BY <1>1, <1>2 DEF Filled

Label == {"idle", "crash", "loop", "drain", "reset", "rx", "pkts"} \cup Working

LEMMA GotoDoes ==
    ASSUME TypeOK, NEW t \in Thread, NEW l \in Label, Goto(t, l)
    PROVE  /\ pc' \in [Thread -> Label]
           /\ pc'[t] = l
           /\ \A u \in Thread \ {t} : pc'[u] = pc[u]
<1>1. pc \in [Thread -> Label]
  BY DEF TypeOK, Label, Working
<1> QED
  BY <1>1 DEF Goto

\* Threads after a step of thread t alone.
LEMMA ThreadsKept ==
    ASSUME Threads, UNCHANGED setup, NEW t \in Thread,
           \A u \in Thread \ {t} :
               pc'[u] = pc[u] /\ rest'[u] = rest[u] /\ m'[u] = m[u] /\ num'[u] = num[u],
           ThreadOK(t)'
    PROVE  Threads'
<1>1. Polling' = Polling
  BY SetupKept
<1>2. ASSUME NEW u \in Thread \ {t}
      PROVE  ThreadOK(u)'
  BY <1>1 DEF Threads, ThreadOK
<1> QED
  BY <1>2 DEF Threads

LEMMA ReadTypes ==
    ASSUME TypeInv, NEW t \in Thread, Read(t)
    PROVE  TypeInv'
<1> DEFINE n == len[Queue(t)][port[t]]
<1>1. /\ UNCHANGED <<setup, pool, refcnt, in_port, age, len, m_table, nic>>
      /\ UNCHANGED <<due, rest, pkts, m, port, flood>>
      /\ num' = [num EXCEPT ![t] = n] /\ pc[t] = "read"
  BY DEF Read, bufs, queues, loop
<1>2. /\ num \in [Thread -> 0 .. MAX_PKT_BURST] /\ n \in 0 .. MAX_PKT_BURST - 1
      /\ port[t] \in Port
  <2>1. /\ num \in [Thread -> 0 .. MAX_PKT_BURST] /\ port \in [Thread -> Port]
        /\ len \in [Lcore -> [Port -> 0 .. MAX_PKT_BURST - 1]]
    BY DEF TypeInv, TypeOK
  <2>2. n \in 0 .. MAX_PKT_BURST - 1 /\ port[t] \in Port
    BY ONLY <2>1, QueueOf, t \in Thread
  <2> QED
    BY <2>1, <2>2
<1> HIDE DEF n
<1>3. /\ num' \in [Thread -> 0 .. MAX_PKT_BURST]
      /\ num'[t] = n /\ \A u \in Thread \ {t} : num'[u] = num[u]
  BY <1>1, <1>2
<1>4. pc' \in [Thread -> Label] /\ pc'[t] = "put" /\ \A u \in Thread \ {t} : pc'[u] = pc[u]
  BY GotoDoes DEF Read, TypeInv, Label, Working
<1>5. TypeOK'
  <2>1. num' \in [Thread -> 0 .. MAX_PKT_BURST] /\ pc' \in [Thread -> Label]
    BY <1>3, <1>4
  <2> QED
    BY ONLY TypeInv, <1>1, <2>1 DEF TypeInv, TypeOK, Label, Working
<1>6. ThreadOK(t)'
  <2>1. ThreadOK(t)
    BY DEF TypeInv, Threads
  <2>2. Polling' = Polling
    BY <1>1, SetupKept
  <2> QED
    BY <1>1, <1>2, <1>3, <1>4, <2>1, <2>2 DEF ThreadOK, Working
<1>7. Threads'
  BY <1>1, <1>3, <1>4, <1>6, ThreadsKept DEF TypeInv
<1>8. FilledTo(Queue(t), port[t], num[t])'
  BY <1>1, <1>2, <1>3, QueueOf DEF TypeInv, Filled, FilledTo, Queue, n
<1>9. Filled'
  BY <1>1, <1>3, <1>4, <1>8 DEF TypeInv, Filled, FilledTo, Queue
<1> QED
  BY <1>5, <1>7, <1>9 DEF TypeInv

\* send_packet has stored a buffer as the n-th of a burst, which table then is.
PutStep(t, q, p, n, table) ==
    /\ pc[t] = "put" /\ q = Queue(t) /\ p = port[t] /\ n = num[t] + 1 /\ m[t] \in Mbuf
    /\ \A i \in 1 .. n : table[i] \in Mbuf
    /\ table[n] = m[t]
    /\ \A i \in 1 .. MAX_PKT_BURST : i # n => table[i] = m_table[q][p][i]
    /\ m_table' = [m_table EXCEPT ![q][p] = table]
    /\ IF n = MAX_PKT_BURST THEN SendBurst(p, table)
       ELSE UNCHANGED <<pool, refcnt, in_port, age, nic>>
    /\ num' = [num EXCEPT ![t] = IF n = MAX_PKT_BURST THEN 0 ELSE n]
    /\ Goto(t, "write")
    /\ UNCHANGED <<setup, len, due, rest, pkts, m, port, flood>>

LEMMA PutDoes ==
    ASSUME TypeInv, NEW t \in Thread, Put(t)
    PROVE  \E q \in Lcore, p \in Port, n \in 1 .. MAX_PKT_BURST,
              table \in [1 .. MAX_PKT_BURST -> Mbuf \cup {NONE}] :
                 PutStep(t, q, p, n, table)
<1> DEFINE q == Queue(t)
           p == port[t]
           n == num[t] + 1
           table == [m_table[q][p] EXCEPT ![n] = m[t]]
<1>0. /\ pc[t] = "put"
      /\ m_table' = [m_table EXCEPT ![q][p] = table]
      /\ IF Full(n)
         THEN SendBurst(p, table) /\ num' = [num EXCEPT ![t] = 0]
         ELSE num' = [num EXCEPT ![t] = n] /\ UNCHANGED <<pool, refcnt, in_port, age, nic>>
      /\ Goto(t, "write")
      /\ UNCHANGED <<setup, len, due, rest, pkts, m, port, flood>>
  BY DEF Put, bufs, loop
<1>6. /\ m_table \in [Lcore -> [Port -> [1 .. MAX_PKT_BURST -> Mbuf \cup {NONE}]]]
      /\ len \in [Lcore -> [Port -> 0 .. MAX_PKT_BURST - 1]]
      /\ num \in [Thread -> 0 .. MAX_PKT_BURST] /\ port \in [Thread -> Port]
  BY DEF TypeInv, TypeOK
<1>1. /\ q \in Lcore /\ p \in Port /\ n \in 1 .. MAX_PKT_BURST /\ m[t] \in Mbuf
      /\ m_table[q][p] \in [1 .. MAX_PKT_BURST -> Mbuf \cup {NONE}]
      /\ FilledTo(q, p, num[t])
  <2>1. ThreadOK(t) /\ FilledTo(q, p, num[t])
    BY <1>0 DEF TypeInv, Threads, Filled
  <2>2. m[t] \in Mbuf /\ num[t] < MAX_PKT_BURST
    BY <1>0, <2>1 DEF ThreadOK, Working
  <2>3. q \in Lcore /\ p \in Port /\ num[t] \in 0 .. MAX_PKT_BURST
    BY <1>6, QueueOf
  <2>4. m_table[q][p] \in [1 .. MAX_PKT_BURST -> Mbuf \cup {NONE}]
    BY ONLY <1>6, <2>3
  <2>5. n \in 1 .. MAX_PKT_BURST
    BY <2>2, <2>3
  <2> QED
    BY <2>1, <2>2, <2>3, <2>4, <2>5
<1> HIDE DEF q, p
<1>2. /\ table \in [1 .. MAX_PKT_BURST -> Mbuf \cup {NONE}]
      /\ \A i \in 1 .. n : table[i] \in Mbuf
      /\ table[n] = m[t]
      /\ \A i \in 1 .. MAX_PKT_BURST : i # n => table[i] = m_table[q][p][i]
  <2> DEFINE old == m_table[q][p]
  <2>1. /\ old \in [1 .. MAX_PKT_BURST -> Mbuf \cup {NONE}]
        /\ \A i \in 1 .. n - 1 : old[i] \in Mbuf
        /\ n \in Nat
    <3>1. num[t] \in Int
      BY <1>6
    <3>2. n - 1 = num[t] /\ n \in Nat
      BY <1>1, <3>1
    <3>3. \A i \in 1 .. num[t] : old[i] \in Mbuf
      BY <1>1 DEF FilledTo
    <3> HIDE DEF n
    <3> QED
      BY <1>1, <3>2, <3>3
  <2>2. table = [old EXCEPT ![n] = m[t]]
    OBVIOUS
  <2> HIDE DEF old, n, table
  <2>3. /\ table \in [1 .. MAX_PKT_BURST -> Mbuf \cup {NONE}]
        /\ table[n] = m[t]
        /\ \A i \in 1 .. MAX_PKT_BURST : i # n => table[i] = old[i]
    BY <1>1, <2>1, <2>2
  <2>4. \A i \in 1 .. n : table[i] \in Mbuf
    BY <1>1, <2>1, <2>3
  <2> QED
    BY <2>3, <2>4 DEF old
<1>3. pc[t] = "put" /\ q = Queue(t) /\ p = port[t] /\ n = num[t] + 1
  BY <1>0 DEF q, p
<1>4. /\ m_table' = [m_table EXCEPT ![q][p] = table]
      /\ IF n = MAX_PKT_BURST THEN SendBurst(p, table)
         ELSE UNCHANGED <<pool, refcnt, in_port, age, nic>>
      /\ num' = [num EXCEPT ![t] = IF n = MAX_PKT_BURST THEN 0 ELSE n]
  BY <1>0 DEF Full
<1> HIDE DEF table, n
<1>5. PICK r \in Lcore, o \in Port, k \in 1 .. MAX_PKT_BURST,
           a \in [1 .. MAX_PKT_BURST -> Mbuf \cup {NONE}] : r = q /\ o = p /\ k = n /\ a = table
  BY <1>1, <1>2
<1>7. PutStep(t, r, o, k, a)
  BY <1>0, <1>1, <1>2, <1>3, <1>4, <1>5 DEF PutStep
<1> QED
  BY <1>7

LEMMA FullTable ==
    ASSUME NEW table \in [1 .. MAX_PKT_BURST -> Mbuf \cup {NONE}],
           \A i \in 1 .. MAX_PKT_BURST : table[i] \in Mbuf
    PROVE  table \in Seq(Mbuf) /\ Len(table) = MAX_PKT_BURST
<1>1. table \in [1 .. MAX_PKT_BURST -> Mbuf]
  OBVIOUS
<1> QED
  BY <1>1

LEMMA PutTypes ==
    ASSUME TypeInv, NEW t \in Thread, Put(t)
    PROVE  TypeInv'
<1>0. PICK q \in Lcore, p \in Port, n \in 1 .. MAX_PKT_BURST,
           table \in [1 .. MAX_PKT_BURST -> Mbuf \cup {NONE}] : PutStep(t, q, p, n, table)
  BY PutDoes
<1>1. /\ pc[t] = "put" /\ q = Queue(t) /\ p = port[t] /\ n = num[t] + 1 /\ m[t] \in Mbuf
      /\ \A i \in 1 .. n : table[i] \in Mbuf
      /\ IF n = MAX_PKT_BURST THEN SendBurst(p, table)
         ELSE UNCHANGED <<pool, refcnt, in_port, age, nic>>
      /\ Goto(t, "write")
      /\ UNCHANGED <<setup, len, due, rest, pkts, m, port, flood>>
  BY <1>0 DEF PutStep
<1>2. /\ table[n] = m[t]
      /\ \A i \in 1 .. MAX_PKT_BURST : i # n => table[i] = m_table[q][p][i]
      /\ m_table' = [m_table EXCEPT ![q][p] = table]
  BY <1>0 DEF PutStep
<1>3. num' = [num EXCEPT ![t] = IF n = MAX_PKT_BURST THEN 0 ELSE n]
  BY <1>0 DEF PutStep
<1>6. /\ m_table \in [Lcore -> [Port -> [1 .. MAX_PKT_BURST -> Mbuf \cup {NONE}]]]
      /\ len \in [Lcore -> [Port -> 0 .. MAX_PKT_BURST - 1]]
      /\ num \in [Thread -> 0 .. MAX_PKT_BURST] /\ port \in [Thread -> Port]
  BY DEF TypeInv, TypeOK
<1>4. /\ UNCHANGED <<setup, len, due, rest, pkts, m, port, flood>>
      /\ pc' \in [Thread -> Label] /\ pc'[t] = "write"
      /\ \A u \in Thread \ {t} : pc'[u] = pc[u]
  BY <1>1, GotoDoes DEF TypeInv, Label, Working
<1>5. /\ pool' \subseteq Mbuf
      /\ refcnt' \in [Mbuf -> 0 .. RefWrap - 1]
      /\ in_port' \in [Mbuf -> Port]
      /\ age' \subseteq Mbuf \X Mbuf
      /\ nic' \in [Port -> Seq(Mbuf)]
      /\ \A o \in Port : Len(nic'[o]) <= NbTxd
  <2>1. CASE n = MAX_PKT_BURST
    <3>1. table \in Seq(Mbuf) /\ SendBurst(p, table)
      BY <1>1, <2>1, FullTable
    <3>2. PICK sent \in 0 .. Len(table) :
              /\ nic' \in [Port -> Seq(Mbuf)]
              /\ \A o \in Port \ {p} : nic'[o] = nic[o]
              /\ Len(nic'[p]) <= NbTxd
              /\ SubSeq(table, sent + 1, Len(table)) \in Seq(Mbuf)
              /\ Free(SubSeq(table, sent + 1, Len(table)))
      BY <3>1, SendBurstDoes DEF TypeInv
    <3>3. \A o \in Port : Len(nic'[o]) <= NbTxd
      BY <3>2 DEF TypeInv, TypeOK
    <3> QED
      BY <3>2, <3>3, FreeTypes DEF TypeInv
  <2>2. CASE n # MAX_PKT_BURST
    BY <1>1, <2>2 DEF TypeInv, TypeOK
  <2> QED
    BY <2>1, <2>2
<1>7. /\ m_table' \in [Lcore -> [Port -> [1 .. MAX_PKT_BURST -> Mbuf \cup {NONE}]]]
      /\ m_table'[q][p] = table
      /\ \A r \in Lcore, o \in Port : r # q \/ o # p => m_table'[r][o] = m_table[r][o]
  BY <1>1, <1>2, <1>6
<1>8. /\ num' \in [Thread -> 0 .. MAX_PKT_BURST]
      /\ num'[t] = (IF n = MAX_PKT_BURST THEN 0 ELSE n)
      /\ \A u \in Thread \ {t} : num'[u] = num[u]
  BY ONLY <1>1, <1>3, <1>6, MAX_PKT_BURST \in Nat, n \in 1 .. MAX_PKT_BURST, t \in Thread
<1>9. TypeOK'
  BY <1>4, <1>5, <1>7, <1>8 DEF TypeInv, TypeOK, Label, Working
<1>10. Threads'
  <2>1. ThreadOK(t)'
    <3>1. ThreadOK(t) /\ Polling' = Polling
      BY <1>4, SetupKept DEF TypeInv, Threads
    <3> QED
      BY <1>1, <1>4, <1>8, <3>1 DEF ThreadOK, Working
  <2> QED
    BY <1>4, <1>8, <2>1, ThreadsKept DEF TypeInv
\* A store of a buffer leaves filled what was.
<1>11. ASSUME NEW r \in Lcore, NEW o \in Port, NEW k, FilledTo(r, o, k), k \in 0 .. MAX_PKT_BURST
       PROVE  FilledTo(r, o, k)'
  <2>1. \A i \in 1 .. k : m_table[r][o][i] \in Mbuf
    BY <1>11 DEF FilledTo
  <2>2. ASSUME NEW i \in 1 .. k
        PROVE  m_table'[r][o][i] \in Mbuf
    <3>1. CASE r # q \/ o # p
      BY <1>7, <2>1, <3>1
    <3>2. CASE r = q /\ o = p
      <4>1. i \in 1 .. MAX_PKT_BURST
        BY <1>11
      <4>2. table[i] = m[t] \/ table[i] = m_table[q][p][i]
        BY <1>2, <4>1
      <4>3. m_table'[r][o][i] = table[i]
        BY <1>7, <3>2
      <4> QED
        BY <1>1, <2>1, <3>2, <4>2, <4>3
    <3> QED
      BY <3>1, <3>2
  <2> QED
    BY <2>2 DEF FilledTo
<1>12. Filled'
  <2>1. ASSUME NEW r \in Lcore, NEW o \in Port
        PROVE  FilledTo(r, o, len[r][o])'
    <3>0. len[r][o] \in 0 .. MAX_PKT_BURST - 1
      BY <1>6
    <3>1. FilledTo(r, o, len[r][o]) /\ len[r][o] \in 0 .. MAX_PKT_BURST
      <4>1. FilledTo(r, o, len[r][o])
        BY DEF TypeInv, Filled
      <4>2. len[r][o] \in 0 .. MAX_PKT_BURST
        BY <3>0
      <4> QED
        BY <4>1, <4>2
    <3>2. \A i \in 1 .. len[r][o] : m_table'[r][o][i] \in Mbuf
      BY <1>11, <3>1 DEF FilledTo
    <3> QED
      BY <1>4, <3>2 DEF FilledTo
  <2>2. ASSUME NEW u \in Thread, pc'[u] \in {"put", "write"}
        PROVE  FilledTo(Queue(u), port[u], num[u])'
    <3>1. CASE u = t
      <4>1. num'[u] = 0 \/ num'[u] = n
        BY <1>8, <3>1
      <4>2. Queue(u)' = q /\ port'[u] = p
        BY <1>1, <1>4, <3>1 DEF Queue
      <4> QED
        BY <1>1, <1>2, <1>7, <4>1, <4>2 DEF FilledTo
    <3>2. CASE u # t
      <4>1. pc'[u] = pc[u] /\ num'[u] = num[u] /\ port'[u] = port[u]
        BY <1>4, <1>8, <3>2
      <4>2. FilledTo(Queue(u), port[u], num[u])
        BY <2>2, <4>1 DEF TypeInv, Filled
      <4>3. FilledTo(Queue(u), port[u], num[u])' <=> \A i \in 1 .. num[u] : m_table'[Queue(u)][port[u]][i] \in Mbuf
        BY <4>1 DEF FilledTo, Queue
      <4>4. Queue(u) \in Lcore /\ port[u] \in Port /\ num[u] \in 0 .. MAX_PKT_BURST
        BY <1>6, QueueOf
      <4> QED
        BY <1>11, <4>2, <4>3, <4>4 DEF FilledTo
    <3> QED
      BY <3>1, <3>2
  <2> QED
    BY <2>1, <2>2 DEF Filled
<1> QED
  BY <1>9, <1>10, <1>12 DEF TypeInv

\* Back from pkt_transmit a thread holds nothing any more.
LEMMA ReturnDoes ==
    ASSUME TypeInv, NEW t \in Thread, pc[t] \in Working, Return(t), UNCHANGED <<setup, rest>>
    PROVE  /\ pc' \in [Thread -> Label]
           /\ pc'[t] \notin {"put", "write"}
           /\ m' \in [Thread -> Mbuf \cup {NONE}]
           /\ port' \in [Thread -> Port]
           /\ num' \in [Thread -> 0 .. MAX_PKT_BURST]
           /\ flood' = flood
           /\ \A u \in Thread \ {t} :
                 pc'[u] = pc[u] /\ m'[u] = m[u] /\ num'[u] = num[u] /\ port'[u] = port[u]
           /\ Threads'
<1> DEFINE l == IF t = ANY THEN "idle" ELSE AfterPacket(t, pkts[t])
<1>1. l \in {"idle", "pkts", "rx", "loop"} /\ (l = "rx" => rest[t] # {}) /\ (t = ANY => l = "idle")
  BY DEF AfterPacket
<1>2. Goto(t, l)
  BY DEF Return
<1> HIDE DEF l
<1>3. pc' \in [Thread -> Label] /\ pc'[t] = l /\ \A u \in Thread \ {t} : pc'[u] = pc[u]
  BY <1>1, <1>2, GotoDoes DEF TypeInv, Label
<1>4. /\ m \in [Thread -> Mbuf \cup {NONE}] /\ port \in [Thread -> Port]
      /\ num \in [Thread -> 0 .. MAX_PKT_BURST]
  BY DEF TypeInv, TypeOK
<1>5. /\ m' = [m EXCEPT ![t] = NONE] /\ port' = [port EXCEPT ![t] = 0]
      /\ num' = [num EXCEPT ![t] = 0] /\ flood' = flood
  BY DEF Return
<1>6. /\ m' \in [Thread -> Mbuf \cup {NONE}] /\ port' \in [Thread -> Port]
      /\ num' \in [Thread -> 0 .. MAX_PKT_BURST]
      /\ \A u \in Thread \ {t} : m'[u] = m[u] /\ num'[u] = num[u] /\ port'[u] = port[u]
  BY <1>4, <1>5
<1>7. ThreadOK(t)'
  <2>1. ThreadOK(t) /\ Polling' = Polling
    BY SetupKept DEF TypeInv, Threads
  <2> QED
    BY <1>1, <1>3, <2>1 DEF ThreadOK, Working
<1>8. Threads'
  BY <1>3, <1>6, <1>7, ThreadsKept DEF TypeInv
<1> QED
  BY <1>1, <1>3, <1>5, <1>6, <1>8

LEMMA WriteTypes ==
    ASSUME TypeInv, NEW t \in Thread, Write(t)
    PROVE  TypeInv'
<1>1. /\ pc[t] = "write" /\ SetLen(Queue(t), port[t], num[t])
      /\ IF flood[t] = {} THEN Return(t) ELSE Goto(t, "release") /\ UNCHANGED <<m, port, num, flood>>
      /\ UNCHANGED <<setup, pool, refcnt, in_port, age, nic, due, rest, pkts>>
  BY DEF Write, bufs, loop, call
<1>2. /\ pc' \in [Thread -> Label]
      /\ pc'[t] \notin {"put", "write"}
      /\ m' \in [Thread -> Mbuf \cup {NONE}]
      /\ port' \in [Thread -> Port]
      /\ num' \in [Thread -> 0 .. MAX_PKT_BURST]
      /\ flood' = flood
      /\ \A u \in Thread \ {t} :
            pc'[u] = pc[u] /\ m'[u] = m[u] /\ num'[u] = num[u] /\ port'[u] = port[u]
      /\ Threads'
  <2>1. CASE flood[t] = {}
    <3>1. pc[t] \in Working /\ Return(t) /\ UNCHANGED <<setup, rest>>
      BY <1>1, <2>1 DEF Working
    <3> QED
      BY <3>1, ReturnDoes
  <2>2. CASE flood[t] # {}
    <3>1. pc' \in [Thread -> Label] /\ pc'[t] = "release" /\ \A u \in Thread \ {t} : pc'[u] = pc[u]
      BY <1>1, <2>2, GotoDoes DEF TypeInv, Label, Working
    <3>2. UNCHANGED <<m, port, num, flood, rest, setup>>
      BY <1>1, <2>2
    <3>3. ThreadOK(t)'
      <4>1. ThreadOK(t) /\ Polling' = Polling
        BY <3>2, SetupKept DEF TypeInv, Threads
      <4> QED
        BY <1>1, <3>1, <3>2, <4>1 DEF ThreadOK, Working
    <3>4. Threads'
      BY <3>1, <3>2, <3>3, ThreadsKept DEF TypeInv
    <3> QED
      BY <3>1, <3>2, <3>4 DEF TypeInv, TypeOK
  <2> QED
    BY <2>1, <2>2
<1>3. port[t] \in Port /\ num[t] \in 0 .. MAX_PKT_BURST - 1 /\ FilledTo(Queue(t), port[t], num[t])
  <2>1. port \in [Thread -> Port] /\ num \in [Thread -> 0 .. MAX_PKT_BURST]
    BY DEF TypeInv, TypeOK
  <2>2. ThreadOK(t) /\ FilledTo(Queue(t), port[t], num[t])
    BY <1>1 DEF TypeInv, Threads, Filled
  <2>3. num[t] < MAX_PKT_BURST
    BY <1>1, <2>2 DEF ThreadOK
  <2>4. port[t] \in Port /\ num[t] \in 0 .. MAX_PKT_BURST
    BY <2>1
  <2> QED
    BY <2>2, <2>3, <2>4
<1>4. /\ len' \in [Lcore -> [Port -> 0 .. MAX_PKT_BURST - 1]]
      /\ m_table' \in [Lcore -> [Port -> [1 .. MAX_PKT_BURST -> Mbuf \cup {NONE}]]]
      /\ Filled'
  <2>1. pc[t] # "idle"
    BY <1>1
  <2>2. \A u \in Thread : pc'[u] \in {"put", "write"} =>
           u # t /\ pc'[u] = pc[u] /\ num'[u] = num[u] /\ port'[u] = port[u]
    BY <1>2
  <2> QED
    BY <1>1, <1>3, <2>1, <2>2, SetLenFilled
<1>5. TypeOK'
  BY <1>1, <1>2, <1>4 DEF TypeInv, TypeOK, Label, Working
<1> QED
  BY <1>2, <1>4, <1>5 DEF TypeInv

LEMMA FloodTypes ==
    ASSUME TypeInv, NEW t \in Thread, Flood(t)
    PROVE  TypeInv'
<1> DEFINE p == Min(flood[t])
<1>1. /\ pc[t] = "flood" /\ flood[t] # {}
      /\ IF p # in_port[m[t]]
         THEN /\ refcnt' = [refcnt EXCEPT ![m[t]] = (@ + 1) % RefWrap]
              /\ port' = [port EXCEPT ![t] = p]
              /\ Goto(t, "read")
         ELSE Goto(t, "release") /\ UNCHANGED <<refcnt, port>>
      /\ UNCHANGED <<setup, pool, age, in_port, len, m_table, nic, due, rest, pkts, m, num, flood>>
  BY DEF Flood, queues, loop
<1>2. p \in Port
  <2>1. flood[t] \subseteq Port
    BY DEF TypeInv, TypeOK
  <2> QED
    BY <1>1, <2>1, NextPort
<1> HIDE DEF p
<1>3. /\ pc' \in [Thread -> Label] /\ pc'[t] \in {"read", "release"}
      /\ \A u \in Thread \ {t} : pc'[u] = pc[u]
  <2>1. Goto(t, "read") \/ Goto(t, "release")
    BY <1>1
  <2> QED
    BY <2>1, GotoDoes DEF TypeInv, Label, Working
<1>4. /\ port' \in [Thread -> Port] /\ \A u \in Thread \ {t} : port'[u] = port[u]
  <2>1. port \in [Thread -> Port]
    BY DEF TypeInv, TypeOK
  <2> QED
    BY <1>1, <1>2, <2>1
<1>5. refcnt' \in [Mbuf -> 0 .. RefWrap - 1]
  <2>1. refcnt \in [Mbuf -> 0 .. RefWrap - 1]
    BY DEF TypeInv, TypeOK
  <2>2. \A c \in 0 .. RefWrap - 1 : (c + 1) % RefWrap \in 0 .. RefWrap - 1
    OBVIOUS
  <2> QED
    BY <1>1, <2>1, <2>2
<1>6. TypeOK'
  BY <1>1, <1>3, <1>4, <1>5 DEF TypeInv, TypeOK, Label, Working
<1>7. ThreadOK(t)'
  <2>1. ThreadOK(t) /\ Polling' = Polling
    BY <1>1, SetupKept DEF TypeInv, Threads
  <2> QED
    BY <1>1, <1>3, <2>1 DEF ThreadOK, Working
<1>8. Threads'
  BY <1>1, <1>3, <1>7, ThreadsKept DEF TypeInv
<1>9. Filled'
  BY <1>1, <1>3, <1>4, FilledKept DEF TypeInv
<1> QED
  BY <1>6, <1>8, <1>9 DEF TypeInv

LEMMA ReleaseTypes ==
    ASSUME TypeInv, NEW t \in Thread, Release(t)
    PROVE  TypeInv'
<1>1. /\ pc[t] = "release"
      /\ refcnt' = [refcnt EXCEPT ![m[t]] = (@ + RefWrap - 1) % RefWrap]
      /\ flood' = [flood EXCEPT ![t] = @ \ {Min(@)}]
      /\ UNCHANGED <<setup, pool, age, in_port, len, m_table, nic, due, rest, pkts, m, port, num>>
  BY DEF Release, queues, loop
<1>2. pc' \in [Thread -> Label] /\ pc'[t] = "flood" /\ \A u \in Thread \ {t} : pc'[u] = pc[u]
  BY GotoDoes DEF Release, TypeInv, Label, Working
<1>3. refcnt' \in [Mbuf -> 0 .. RefWrap - 1]
  <2>1. refcnt \in [Mbuf -> 0 .. RefWrap - 1]
    BY DEF TypeInv, TypeOK
  <2>2. \A c \in 0 .. RefWrap - 1 : (c + RefWrap - 1) % RefWrap \in 0 .. RefWrap - 1
    OBVIOUS
  <2> QED
    BY <1>1, <2>1, <2>2
<1>4. TypeOK'
  BY <1>1, <1>2, <1>3 DEF TypeInv, TypeOK, Label, Working
<1>5. ThreadOK(t)'
  <2>1. ThreadOK(t) /\ Polling' = Polling
    BY <1>1, SetupKept DEF TypeInv, Threads
  <2> QED
    BY <1>1, <1>2, <2>1 DEF ThreadOK, Working
<1>6. Threads'
  BY <1>1, <1>2, <1>5, ThreadsKept DEF TypeInv
<1>7. Filled'
  BY <1>1, <1>2, FilledKept DEF TypeInv
<1> QED
  BY <1>4, <1>6, <1>7 DEF TypeInv

LEMMA FloodDoneTypes ==
    ASSUME TypeInv, NEW t \in Thread, FloodDone(t)
    PROVE  TypeInv'
<1>1. /\ pc[t] \in Working /\ Return(t)
      /\ UNCHANGED <<setup, pool, refcnt, in_port, age, len, m_table, nic, due, rest, pkts>>
  BY DEF FloodDone, bufs, queues, loop, Working
<1>2. /\ pc' \in [Thread -> Label]
      /\ pc'[t] \notin {"put", "write"}
      /\ m' \in [Thread -> Mbuf \cup {NONE}]
      /\ port' \in [Thread -> Port]
      /\ num' \in [Thread -> 0 .. MAX_PKT_BURST]
      /\ flood' = flood
      /\ \A u \in Thread \ {t} :
            pc'[u] = pc[u] /\ m'[u] = m[u] /\ num'[u] = num[u] /\ port'[u] = port[u]
      /\ Threads'
  BY <1>1, ReturnDoes
<1>3. TypeOK'
  BY <1>1, <1>2 DEF TypeInv, TypeOK, Label, Working
<1>4. Filled'
  BY <1>1, <1>2, FilledKept DEF TypeInv
<1> QED
  BY <1>2, <1>3, <1>4 DEF TypeInv

LEMMA TickTypes ==
    ASSUME TypeInv, NEW t \in Lcore, Tick(t)
    PROVE  TypeInv'
<1>1. /\ due' = [due EXCEPT ![t] = TRUE]
      /\ UNCHANGED <<setup, pool, refcnt, in_port, age, len, m_table, nic, pc, rest, pkts>>
      /\ UNCHANGED <<m, port, num, flood>>
  BY DEF Tick, bufs, queues, call
<1>2. TypeOK'
  BY <1>1 DEF TypeInv, TypeOK
<1>3. Threads'
  BY <1>1, SetupKept DEF TypeInv, Threads, ThreadOK
<1>4. Filled'
  BY <1>1, FilledKept DEF TypeInv
<1> QED
  BY <1>2, <1>3, <1>4 DEF TypeInv

\* A thread that is in its loop is a lcore that polls a port.
LEMMA InLoop ==
    ASSUME TypeInv, NEW t \in Lcore, pc[t] # "idle"
    PROVE  /\ rx_port_list[t] # {} /\ rx_port_list[t] \subseteq Port
           /\ setup.ports # {} /\ setup.ports \subseteq Port
           /\ t # ANY
<1>1. setup \in Setups /\ ThreadOK(t)
  BY DEF TypeInv, TypeOK, Threads
<1>2. t \in Polling
  BY <1>1 DEF ThreadOK
<1> QED
  BY <1>1, <1>2, SetupFacts, PollingFacts

\* A step of the loop that goes to l with the ports S to visit.
LEMMA LoopStep ==
    ASSUME TypeInv, NEW t \in Lcore, pc[t] # "idle",
           NEW l \in {"loop", "drain", "reset", "rx", "pkts"}, Goto(t, l),
           NEW S \in SUBSET Port, l \in {"drain", "reset", "rx"} => S # {},
           rest' = [rest EXCEPT ![t] = S],
           UNCHANGED <<setup, m, port, num, flood>>
    PROVE  /\ pc' \in [Thread -> Label] /\ rest' \in [Thread -> SUBSET Port]
           /\ pc'[t] = l /\ rest'[t] = S
           /\ \A u \in Thread \ {t} : pc'[u] = pc[u] /\ rest'[u] = rest[u]
           /\ Threads'
<1>1. /\ pc' \in [Thread -> Label] /\ pc'[t] = l /\ \A u \in Thread \ {t} : pc'[u] = pc[u]
  BY GotoDoes DEF TypeInv, Label
<1>2. rest \in [Thread -> SUBSET Port]
  BY DEF TypeInv, TypeOK
<1>3. rest' \in [Thread -> SUBSET Port] /\ rest'[t] = S /\ \A u \in Thread \ {t} : rest'[u] = rest[u]
  BY <1>2
<1>4. ThreadOK(t)'
  <2>1. ThreadOK(t) /\ Polling' = Polling
    BY SetupKept DEF TypeInv, Threads
  <2> QED
    BY <1>1, <1>3, <2>1 DEF ThreadOK, Working
<1>5. Threads'
  BY <1>1, <1>3, <1>4, ThreadsKept DEF TypeInv
<1> QED
  BY <1>1, <1>3, <1>5

LEMMA TopTypes ==
    ASSUME TypeInv, NEW t \in Lcore, Top(t)
    PROVE  TypeInv'
<1>1. /\ pc[t] = "loop"
      /\ due' = [due EXCEPT ![t] = FALSE]
      /\ UNCHANGED <<setup, pool, refcnt, in_port, age, len, m_table, nic, pkts, m, port, num, flood>>
  BY DEF Top, bufs, queues, call
<1>2. \E l \in {"drain", "rx"}, S \in (SUBSET Port) \ {{}} :
         Goto(t, l) /\ rest' = [rest EXCEPT ![t] = S]
  BY <1>1, InLoop DEF Top
<1>3. /\ pc' \in [Thread -> Label] /\ pc'[t] \in {"drain", "rx"}
      /\ rest' \in [Thread -> SUBSET Port]
      /\ \A u \in Thread \ {t} : pc'[u] = pc[u]
      /\ Threads'
  <2>1. PICK S \in (SUBSET Port) \ {{}} :
           (Goto(t, "drain") \/ Goto(t, "rx")) /\ rest' = [rest EXCEPT ![t] = S]
    BY <1>2
  <2>2. /\ pc[t] # "idle" /\ UNCHANGED <<setup, m, port, num, flood>>
        /\ S \in SUBSET Port /\ S # {}
    BY <1>1
  <2>3. CASE Goto(t, "drain")
    BY <2>1, <2>2, <2>3, LoopStep
  <2>4. CASE Goto(t, "rx")
    BY <2>1, <2>2, <2>4, LoopStep
  <2> QED
    BY <2>1, <2>3, <2>4
<1>4. TypeOK'
  BY <1>1, <1>3 DEF TypeInv, TypeOK, Label, Working
<1>5. Filled'
  BY <1>1, <1>3, FilledKept DEF TypeInv
<1> QED
  BY <1>3, <1>4, <1>5 DEF TypeInv

LEMMA DrainNextDoes ==
    ASSUME TypeInv, NEW t \in Lcore, pc[t] \in {"drain", "reset"}, DrainNext(t),
           UNCHANGED <<setup, m, port, num, flood>>
    PROVE  /\ pc' \in [Thread -> Label] /\ pc'[t] \in {"drain", "rx"}
           /\ rest' \in [Thread -> SUBSET Port]
           /\ \A u \in Thread \ {t} : pc'[u] = pc[u] /\ rest'[u] = rest[u]
           /\ Threads'
<1>1. rest[t] \subseteq Port /\ rest[t] # {} /\ pc[t] # "idle"
  BY DEF TypeInv, TypeOK, Threads, ThreadOK
<1>2. Min(rest[t]) \in rest[t]
  BY <1>1, NextPort
<1>3. \E l \in {"drain", "rx"}, S \in (SUBSET Port) \ {{}} :
         Goto(t, l) /\ rest' = [rest EXCEPT ![t] = S]
  BY <1>1, <1>2, InLoop DEF DrainNext
<1>4. PICK S \in (SUBSET Port) \ {{}} :
         (Goto(t, "drain") \/ Goto(t, "rx")) /\ rest' = [rest EXCEPT ![t] = S]
  BY <1>3
<1>5. S \in SUBSET Port /\ S # {}
  OBVIOUS
<1>6. CASE Goto(t, "drain")
  BY <1>1, <1>4, <1>5, <1>6, LoopStep
<1>7. CASE Goto(t, "rx")
  BY <1>1, <1>4, <1>5, <1>7, LoopStep
<1> QED
  BY <1>4, <1>6, <1>7

LEMMA DrainSkipTypes ==
    ASSUME TypeInv, NEW t \in Lcore, DrainSkip(t)
    PROVE  TypeInv'
<1>1. /\ pc[t] = "drain" /\ DrainNext(t)
      /\ UNCHANGED <<setup, pool, refcnt, in_port, age, len, m_table, nic, due, pkts>>
      /\ UNCHANGED <<m, port, num, flood>>
  BY DEF DrainSkip, bufs, queues, call
<1>2. /\ pc' \in [Thread -> Label] /\ pc'[t] \in {"drain", "rx"}
      /\ rest' \in [Thread -> SUBSET Port]
      /\ \A u \in Thread \ {t} : pc'[u] = pc[u]
      /\ Threads'
  BY <1>1, DrainNextDoes
<1>3. TypeOK'
  BY <1>1, <1>2 DEF TypeInv, TypeOK, Label, Working
<1>4. Filled'
  BY <1>1, <1>2, FilledKept DEF TypeInv
<1> QED
  BY <1>2, <1>3, <1>4 DEF TypeInv

LEMMA DrainSendTypes ==
    ASSUME TypeInv, NEW t \in Lcore, DrainSend(t)
    PROVE  TypeInv'
<1> DEFINE p == Min(rest[t])
           s == SubSeq(m_table[t][p], 1, len[t][p])
<1>1. /\ pc[t] = "drain" /\ SendBurst(p, s) /\ Goto(t, "reset")
      /\ UNCHANGED <<setup, len, m_table, due, rest, pkts, m, port, num, flood>>
  BY DEF DrainSend, queues, loop, call
<1>2. rest[t] \subseteq Port /\ rest[t] # {} /\ pc[t] # "idle"
  BY <1>1 DEF TypeInv, TypeOK, Threads, ThreadOK
<1>3. p \in Port
  BY <1>2, NextPort
<1> HIDE DEF p
<1>4. s \in Seq(Mbuf)
  <2>1. /\ m_table \in [Lcore -> [Port -> [1 .. MAX_PKT_BURST -> Mbuf \cup {NONE}]]]
        /\ len \in [Lcore -> [Port -> 0 .. MAX_PKT_BURST - 1]]
    BY DEF TypeInv, TypeOK
  <2>2. m_table[t][p] \in [1 .. MAX_PKT_BURST -> Mbuf \cup {NONE}] /\ len[t][p] \in 0 .. MAX_PKT_BURST - 1
    BY ONLY <1>3, <2>1, t \in Lcore
  <2>3. len[t][p] \in 0 .. MAX_PKT_BURST
    BY <2>2
  <2>4. \A i \in 1 .. len[t][p] : m_table[t][p][i] \in Mbuf
    BY <1>3 DEF TypeInv, Filled, FilledTo
  <2> QED
    BY <2>2, <2>3, <2>4, FilledPart
<1> HIDE DEF s
<1>5. PICK sent \in 0 .. Len(s) :
              /\ nic' \in [Port -> Seq(Mbuf)]
              /\ \A o \in Port \ {p} : nic'[o] = nic[o]
              /\ Len(nic'[p]) <= NbTxd
              /\ SubSeq(s, sent + 1, Len(s)) \in Seq(Mbuf)
              /\ Free(SubSeq(s, sent + 1, Len(s)))
  BY <1>1, <1>3, <1>4, SendBurstDoes DEF TypeInv
<1>6. /\ pool' \subseteq Mbuf
      /\ refcnt' \in [Mbuf -> 0 .. RefWrap - 1]
      /\ in_port' \in [Mbuf -> Port]
      /\ age' \subseteq Mbuf \X Mbuf
  BY <1>5, FreeTypes DEF TypeInv
<1>7. \A o \in Port : Len(nic'[o]) <= NbTxd
  BY <1>5 DEF TypeInv, TypeOK
<1>8. rest' = [rest EXCEPT ![t] = rest[t]]
  BY <1>1 DEF TypeInv, TypeOK
<1>9. /\ pc' \in [Thread -> Label] /\ pc'[t] = "reset"
      /\ \A u \in Thread \ {t} : pc'[u] = pc[u]
      /\ Threads'
  <2> DEFINE S == rest[t]
  <2>1. /\ pc[t] # "idle" /\ UNCHANGED <<setup, m, port, num, flood>>
        /\ rest' = [rest EXCEPT ![t] = S] /\ Goto(t, "reset")
        /\ S \in SUBSET Port /\ S # {}
    BY <1>1, <1>2, <1>8
  <2> HIDE DEF S
  <2> QED
    BY <2>1, LoopStep
<1>10. TypeOK'
  BY <1>1, <1>5, <1>6, <1>7, <1>9 DEF TypeInv, TypeOK, Label, Working
<1>11. Filled'
  BY <1>1, <1>9, FilledKept DEF TypeInv
<1> QED
  BY <1>9, <1>10, <1>11 DEF TypeInv

LEMMA DrainResetTypes ==
    ASSUME TypeInv, NEW t \in Lcore, DrainReset(t)
    PROVE  TypeInv'
<1> DEFINE p == Min(rest[t])
<1>1. /\ pc[t] = "reset" /\ SetLen(t, p, 0) /\ DrainNext(t)
      /\ UNCHANGED <<setup, pool, refcnt, in_port, age, nic, due, pkts, m, port, num, flood>>
  BY DEF DrainReset, bufs, call
<1>2. rest[t] \subseteq Port /\ rest[t] # {}
  BY <1>1 DEF TypeInv, TypeOK, Threads, ThreadOK
<1>3. p \in Port
  BY <1>2, NextPort
<1> HIDE DEF p
<1>4. /\ pc' \in [Thread -> Label] /\ pc'[t] \in {"drain", "rx"}
      /\ rest' \in [Thread -> SUBSET Port]
      /\ \A u \in Thread \ {t} : pc'[u] = pc[u]
      /\ Threads'
  BY <1>1, DrainNextDoes
<1>5. /\ len' \in [Lcore -> [Port -> 0 .. MAX_PKT_BURST - 1]]
      /\ m_table' \in [Lcore -> [Port -> [1 .. MAX_PKT_BURST -> Mbuf \cup {NONE}]]]
      /\ Filled'
  <2>1. Queue(t) = t /\ 0 \in 0 .. MAX_PKT_BURST - 1 /\ pc[t] # "idle" /\ t \in Thread
    BY <1>1 DEF Queue
  <2>2. FilledTo(Queue(t), p, 0) /\ SetLen(Queue(t), p, 0)
    BY <1>1, <2>1 DEF FilledTo
  <2>3. \A u \in Thread : pc'[u] \in {"put", "write"} =>
           u # t /\ pc'[u] = pc[u] /\ num'[u] = num[u] /\ port'[u] = port[u]
    BY <1>1, <1>4
  <2> QED
    BY <1>1, <1>3, <2>1, <2>2, <2>3, SetLenFilled
<1>6. TypeOK'
  BY <1>1, <1>4, <1>5 DEF TypeInv, TypeOK, Label, Working
<1> QED
  BY <1>4, <1>5, <1>6 DEF TypeInv

LEMMA RxBurstTypes ==
    ASSUME TypeInv, NEW t \in Lcore, RxBurst(t)
    PROVE  TypeInv'
<1> DEFINE p == Min(rest[t])
           S == rest[t] \ {p}
<1>1. /\ pc[t] = "rx"
      /\ UNCHANGED <<setup, age, len, m_table, nic, due, m, port, num, flood>>
  BY DEF RxBurst, queues, call
<1>2. rest[t] \subseteq Port /\ rest[t] # {} /\ rest \in [Thread -> SUBSET Port]
  BY <1>1 DEF TypeInv, TypeOK, Threads, ThreadOK
<1>3. p \in Port
  BY <1>2, NextPort
<1>4. PICK batch \in SUBSET pool :
         /\ pkts' = [pkts EXCEPT ![t] = batch]
         /\ pool' = pool \ batch
         /\ refcnt' = [b \in Mbuf |-> IF b \in batch THEN 1 ELSE refcnt[b]]
         /\ in_port' = [b \in Mbuf |-> IF b \in batch THEN p ELSE in_port[b]]
         /\ rest' = [rest EXCEPT ![t] = S]
         /\ Goto(t, IF batch # {} THEN "pkts" ELSE IF rest'[t] # {} THEN "rx" ELSE "loop")
  BY DEF RxBurst
<1> HIDE DEF p
<1>5. pool \subseteq Mbuf /\ pkts \in [Thread -> SUBSET Mbuf]
      /\ refcnt \in [Mbuf -> 0 .. RefWrap - 1] /\ in_port \in [Mbuf -> Port]
  BY DEF TypeInv, TypeOK
<1>6. /\ pkts' \in [Thread -> SUBSET Mbuf] /\ pool' \subseteq Mbuf
      /\ in_port' \in [Mbuf -> Port]
  BY <1>3, <1>4, <1>5
<1>7. refcnt' \in [Mbuf -> 0 .. RefWrap - 1]
  <2>1. 1 \in 0 .. RefWrap - 1
    BY DpdkAssumption
  <2> QED
    BY <1>4, <1>5, <2>1
<1>8. rest'[t] = S /\ S \in SUBSET Port
  BY <1>2, <1>4
<1> HIDE DEF S
<1>9. /\ pc' \in [Thread -> Label] /\ pc'[t] \notin {"put", "write"}
      /\ rest' \in [Thread -> SUBSET Port]
      /\ \A u \in Thread \ {t} : pc'[u] = pc[u]
      /\ Threads'
  <2>1. /\ pc[t] # "idle" /\ UNCHANGED <<setup, m, port, num, flood>>
        /\ rest' = [rest EXCEPT ![t] = S]
    BY <1>1, <1>4
  <2>2. CASE Goto(t, "pkts")
    BY <1>8, <2>1, <2>2, LoopStep
  <2>3. CASE Goto(t, "rx") /\ S # {}
    BY <1>8, <2>1, <2>3, LoopStep
  <2>4. CASE Goto(t, "loop")
    BY <1>8, <2>1, <2>4, LoopStep
  <2> QED
    BY <1>4, <1>8, <2>2, <2>3, <2>4
<1>10. TypeOK'
  BY <1>1, <1>6, <1>7, <1>9 DEF TypeInv, TypeOK, Label, Working
<1>11. Filled'
  BY <1>1, <1>9, FilledKept DEF TypeInv
<1> QED
  BY <1>9, <1>10, <1>11 DEF TypeInv

\* pkt_transmit begins with a buffer for a port or for all.
LEMMA DispatchDoes ==
    ASSUME TypeInv, NEW t \in Thread, NEW b \in Mbuf, NEW v \in Port \cup {FLOOD}, Dispatch(t, b, v),
           t \in Lcore => pc[t] # "idle",
           UNCHANGED <<setup, rest, num>>
    PROVE  /\ pc' \in [Thread -> Label] /\ pc'[t] \in {"flood", "read"}
           /\ m' \in [Thread -> Mbuf \cup {NONE}] /\ m'[t] = b
           /\ port' \in [Thread -> Port] /\ flood' \in [Thread -> SUBSET Port]
           /\ \A u \in Thread \ {t} :
                 /\ pc'[u] = pc[u] /\ m'[u] = m[u] /\ port'[u] = port[u]
           /\ Threads'
<1>1. /\ m' = [m EXCEPT ![t] = b]
      /\ IF v = FLOOD
         THEN flood' = [flood EXCEPT ![t] = setup.ports] /\ Goto(t, "flood") /\ UNCHANGED port
         ELSE port' = [port EXCEPT ![t] = v] /\ Goto(t, "read") /\ UNCHANGED flood
  BY DEF Dispatch
<1>2. /\ m \in [Thread -> Mbuf \cup {NONE}] /\ port \in [Thread -> Port]
      /\ flood \in [Thread -> SUBSET Port] /\ setup \in Setups
  BY DEF TypeInv, TypeOK
<1>3. setup.ports \subseteq Port
  BY <1>2, SetupFacts
<1>4. /\ pc' \in [Thread -> Label] /\ pc'[t] \in {"flood", "read"}
      /\ \A u \in Thread \ {t} : pc'[u] = pc[u]
  <2>1. Goto(t, "flood") \/ Goto(t, "read")
    BY <1>1
  <2> QED
    BY <2>1, GotoDoes DEF TypeInv, Label, Working
<1>5. /\ m' \in [Thread -> Mbuf \cup {NONE}] /\ m'[t] = b
      /\ \A u \in Thread \ {t} : m'[u] = m[u]
  BY <1>1, <1>2
<1>6. /\ port' \in [Thread -> Port] /\ \A u \in Thread \ {t} : port'[u] = port[u]
  BY <1>1, <1>2
<1>7. flood' \in [Thread -> SUBSET Port]
  BY <1>1, <1>2, <1>3
<1>8. ThreadOK(t)'
  <2>1. ThreadOK(t) /\ Polling' = Polling
    BY SetupKept DEF TypeInv, Threads
  <2> QED
    BY <1>4, <1>5, <2>1 DEF ThreadOK, Working
<1>9. Threads'
  BY <1>4, <1>5, <1>8, ThreadsKept DEF TypeInv
<1> QED
  BY <1>4, <1>5, <1>6, <1>7, <1>9

LEMMA ForwardTypes ==
    ASSUME TypeInv, NEW t \in Lcore, NEW b \in Mbuf, Forward(t, b)
    PROVE  TypeInv'
<1>1. /\ pc[t] = "pkts"
      /\ pkts' = [pkts EXCEPT ![t] = @ \ {b}]
      /\ age' = IF Exclusive THEN age \cup {<<c, b>> : c \in Forwarded \cup {b}} ELSE age
      /\ UNCHANGED <<setup, pool, refcnt, in_port, len, m_table, nic, due, rest, num>>
  BY DEF Forward, queues
<1>2. PICK v \in setup.program \ {CONTROLLER, DROP} : Dispatch(t, b, v)
  BY DEF Forward
<1>3. v \in Port \cup {FLOOD}
  <2>1. setup \in Setups
    BY DEF TypeInv, TypeOK
  <2> QED
    BY <2>1, SetupFacts DEF Verdict
<1>4. /\ pc' \in [Thread -> Label] /\ pc'[t] \in {"flood", "read"}
      /\ m' \in [Thread -> Mbuf \cup {NONE}]
      /\ port' \in [Thread -> Port] /\ flood' \in [Thread -> SUBSET Port]
      /\ \A u \in Thread \ {t} : pc'[u] = pc[u] /\ m'[u] = m[u] /\ port'[u] = port[u]
      /\ Threads'
  <2>1. t \in Thread /\ pc[t] # "idle" /\ UNCHANGED <<setup, rest, num>>
    BY <1>1
  <2> QED
    BY <1>2, <1>3, <2>1, DispatchDoes
<1>5. pkts' \in [Thread -> SUBSET Mbuf]
  BY <1>1 DEF TypeInv, TypeOK
<1>6. age' \subseteq Mbuf \X Mbuf
  <2>1. age \subseteq Mbuf \X Mbuf /\ Forwarded \cup {b} \subseteq Mbuf
    BY DEF TypeInv, TypeOK, Forwarded
  <2>2. \A c \in Forwarded \cup {b} : <<c, b>> \in Mbuf \X Mbuf
    BY <2>1
  <2> QED
    BY <1>1, <2>1, <2>2
<1>7. TypeOK'
  BY <1>1, <1>4, <1>5, <1>6 DEF TypeInv, TypeOK, Label, Working
<1>8. Filled'
  BY <1>1, <1>4, FilledKept DEF TypeInv
<1> QED
  BY <1>4, <1>7, <1>8 DEF TypeInv

LEMMA ConsumeTypes ==
    ASSUME TypeInv, NEW t \in Lcore, NEW b \in Mbuf, Consume(t, b)
    PROVE  TypeInv'
<1> DEFINE l == AfterPacket(t, pkts'[t])
           s == <<b>>
<1>1. /\ pc[t] = "pkts"
      /\ pkts' = [pkts EXCEPT ![t] = @ \ {b}]
      /\ Free(s)
      /\ Goto(t, l)
      /\ UNCHANGED <<setup, len, m_table, nic, due, rest, m, port, num, flood>>
  BY DEF Consume, queues, call
<1>2. /\ pool' \subseteq Mbuf
      /\ refcnt' \in [Mbuf -> 0 .. RefWrap - 1]
      /\ in_port' \in [Mbuf -> Port]
      /\ age' \subseteq Mbuf \X Mbuf
  <2>1. s \in Seq(Mbuf)
    OBVIOUS
  <2> HIDE DEF s
  <2> QED
    BY <1>1, <2>1, FreeTypes DEF TypeInv
<1>3. pkts' \in [Thread -> SUBSET Mbuf]
  BY <1>1 DEF TypeInv, TypeOK
<1>4. /\ pc' \in [Thread -> Label] /\ pc'[t] \notin {"put", "write"}
      /\ \A u \in Thread \ {t} : pc'[u] = pc[u]
      /\ Threads'
  <2>1. l \in {"pkts", "rx", "loop"} /\ (l = "rx" => rest[t] # {})
    BY DEF AfterPacket
  <2> HIDE DEF l
  <2>2. pc' \in [Thread -> Label] /\ pc'[t] = l /\ \A u \in Thread \ {t} : pc'[u] = pc[u]
    BY <1>1, <2>1, GotoDoes DEF TypeInv, Label
  <2>3. ThreadOK(t)'
    <3>1. ThreadOK(t) /\ Polling' = Polling
      BY <1>1, SetupKept DEF TypeInv, Threads
    <3> QED
      BY <1>1, <2>1, <2>2, <3>1 DEF ThreadOK, Working
  <2>4. Threads'
    BY <1>1, <2>2, <2>3, ThreadsKept DEF TypeInv
  <2> QED
    BY <2>1, <2>2, <2>4
<1>5. TypeOK'
  BY <1>1, <1>2, <1>3, <1>4 DEF TypeInv, TypeOK, Label, Working
<1>6. Filled'
  BY <1>1, <1>4, FilledKept DEF TypeInv
<1> QED
  BY <1>4, <1>5, <1>6 DEF TypeInv

LEMMA PacketOutTypes ==
    ASSUME TypeInv, PacketOut
    PROVE  TypeInv'
<1>1. /\ pc[ANY] = "idle"
      /\ UNCHANGED <<setup, age, len, m_table, nic, due, rest, pkts, num>>
  BY DEF PacketOut, queues, loop
<1>2. PICK b \in pool, i \in setup.ports, v \in setup.agent :
          /\ pool' = pool \ {b}
          /\ refcnt' = [refcnt EXCEPT ![b] = 1]
          /\ in_port' = [in_port EXCEPT ![b] = i]
          /\ Dispatch(ANY, b, v)
  BY DEF PacketOut
<1>3. /\ setup \in Setups /\ pool \subseteq Mbuf
      /\ refcnt \in [Mbuf -> 0 .. RefWrap - 1] /\ in_port \in [Mbuf -> Port]
  BY DEF TypeInv, TypeOK
<1>4. b \in Mbuf /\ i \in Port /\ v \in Port \cup {FLOOD}
  BY <1>3, SetupFacts
<1>5. /\ pc' \in [Thread -> Label] /\ pc'[ANY] \in {"flood", "read"}
      /\ m' \in [Thread -> Mbuf \cup {NONE}]
      /\ port' \in [Thread -> Port] /\ flood' \in [Thread -> SUBSET Port]
      /\ \A u \in Thread \ {ANY} : pc'[u] = pc[u] /\ m'[u] = m[u] /\ port'[u] = port[u]
      /\ Threads'
  <2>1. ANY \in Thread /\ ANY \notin Lcore /\ UNCHANGED <<setup, rest, num>>
    BY <1>1
  <2> QED
    BY <1>2, <1>4, <2>1, DispatchDoes
<1>6. pool' \subseteq Mbuf /\ in_port' \in [Mbuf -> Port]
  BY <1>2, <1>3, <1>4
<1>7. refcnt' \in [Mbuf -> 0 .. RefWrap - 1]
  <2>1. 1 \in 0 .. RefWrap - 1
    BY DpdkAssumption
  <2> QED
    BY <1>2, <1>3, <2>1
<1>8. TypeOK'
  BY <1>1, <1>5, <1>6, <1>7 DEF TypeInv, TypeOK, Label, Working
<1>9. Filled'
  BY <1>1, <1>5, FilledKept DEF TypeInv
<1> QED
  BY <1>5, <1>8, <1>9 DEF TypeInv

LEMMA PacketOutNoBufferTypes ==
    ASSUME TypeInv, PacketOutNoBuffer
    PROVE  TypeInv'
<1>1. /\ pc[ANY] = "idle" /\ Goto(ANY, "crash")
      /\ UNCHANGED <<setup, pool, refcnt, in_port, age, len, m_table, nic, due, rest, pkts>>
      /\ UNCHANGED <<m, port, num, flood>>
  BY DEF PacketOutNoBuffer, bufs, queues, loop, call
<1>2. pc' \in [Thread -> Label] /\ pc'[ANY] = "crash" /\ \A u \in Thread \ {ANY} : pc'[u] = pc[u]
  BY <1>1, GotoDoes DEF TypeInv, Label
<1>3. TypeOK'
  BY <1>1, <1>2 DEF TypeInv, TypeOK, Label, Working
<1>4. ThreadOK(ANY)'
  BY <1>2 DEF ThreadOK, Working
<1>5. Threads'
  BY <1>1, <1>2, <1>4, ThreadsKept DEF TypeInv
<1>6. Filled'
  BY <1>1, <1>2, FilledKept DEF TypeInv
<1> QED
  BY <1>3, <1>5, <1>6 DEF TypeInv

\* The driver is done with the first buffer of its ring.
LEMMA NicDoneDoes ==
    ASSUME TypeOK, NEW p \in Port, NicDone(p)
    PROVE  /\ nic[p] # << >> /\ nic[p][1] \in Mbuf
           /\ nic' \in [Port -> Seq(Mbuf)]
           /\ \A o \in Port \ {p} : nic'[o] = nic[o]
           /\ Len(nic'[p]) = Len(nic[p]) - 1
           /\ \A i \in 1 .. Len(nic[p]) - 1 : nic'[p][i] = nic[p][i + 1]
           /\ Free(<<nic[p][1]>>)
<1> DEFINE s == nic[p]
<1>1. nic \in [Port -> Seq(Mbuf)]
  BY DEF TypeOK
<1>2. /\ s # << >> /\ nic' = [nic EXCEPT ![p] = Tail(s)] /\ Free(<<Head(s)>>)
      /\ s \in Seq(Mbuf)
  BY <1>1 DEF NicDone
<1> HIDE DEF s
<1>3. /\ Head(s) = s[1] /\ s[1] \in Mbuf
      /\ Tail(s) \in Seq(Mbuf) /\ Len(Tail(s)) = Len(s) - 1
      /\ \A i \in 1 .. Len(s) - 1 : Tail(s)[i] = s[i + 1]
  BY <1>2
<1>4. /\ nic' \in [Port -> Seq(Mbuf)] /\ nic'[p] = Tail(s)
      /\ \A o \in Port \ {p} : nic'[o] = nic[o]
  BY <1>1, <1>2, <1>3
<1> QED
  BY <1>2, <1>3, <1>4 DEF s

LEMMA NicDoneTypes ==
    ASSUME TypeInv, NEW p \in Port, NicDone(p)
    PROVE  TypeInv'
<1>1. UNCHANGED <<setup, len, m_table, pc, due, rest, pkts, m, port, num, flood>>
  BY DEF NicDone, queues, loop, call
<1>2. /\ nic[p] # << >> /\ nic[p][1] \in Mbuf
      /\ nic' \in [Port -> Seq(Mbuf)]
      /\ \A o \in Port \ {p} : nic'[o] = nic[o]
      /\ Len(nic'[p]) = Len(nic[p]) - 1
      /\ Free(<<nic[p][1]>>)
  BY NicDoneDoes DEF TypeInv
<1>3. /\ pool' \subseteq Mbuf
      /\ refcnt' \in [Mbuf -> 0 .. RefWrap - 1]
      /\ in_port' \in [Mbuf -> Port]
      /\ age' \subseteq Mbuf \X Mbuf
  <2> DEFINE s == <<nic[p][1]>>
  <2>1. s \in Seq(Mbuf) /\ Free(s)
    BY <1>2
  <2> HIDE DEF s
  <2> QED
    BY <2>1, FreeTypes DEF TypeInv
<1>4. \A o \in Port : Len(nic'[o]) <= NbTxd
  <2>1. nic \in [Port -> Seq(Mbuf)] /\ \A o \in Port : Len(nic[o]) <= NbTxd
    BY DEF TypeInv, TypeOK
  <2>2. \A o \in Port : Len(nic[o]) \in Nat
    BY <2>1
  <2> QED
    BY <1>2, <2>1, <2>2
<1>5. TypeOK'
  BY <1>1, <1>2, <1>3, <1>4 DEF TypeInv, TypeOK
<1>6. Threads'
  BY <1>1, SetupKept DEF TypeInv, Threads, ThreadOK
<1>7. Filled'
  BY <1>1, FilledKept DEF TypeInv
<1> QED
  BY <1>5, <1>6, <1>7 DEF TypeInv

LEMMA InitTypes ==
    ASSUME Init
    PROVE  TypeInv
<1>1. setup \in Setups /\ setup.mbufs \subseteq Mbuf
  BY SetupFacts DEF Init
<1>2. TypeOK
  <2>1. << >> \in Seq(Mbuf) /\ Len(<< >>) <= NbTxd
    OBVIOUS
  <2>2. 0 \in 0 .. RefWrap - 1 /\ 0 \in 0 .. MAX_PKT_BURST - 1 /\ 0 \in 0 .. MAX_PKT_BURST
    OBVIOUS
  <2> QED
    BY <1>1, <2>1, <2>2 DEF Init, TypeOK
<1>3. Threads
  <2>1. Polling \subseteq Lcore
    BY DEF Polling
  <2> QED
    BY <2>1 DEF Init, Threads, ThreadOK, Working
<1>4. Filled
  BY DEF Init, Filled, FilledTo
<1> QED
  BY <1>2, <1>3, <1>4 DEF TypeInv

LEMMA NextTypes ==
    ASSUME TypeInv, [Next]_vars
    PROVE  TypeInv'
<1>1. CASE UNCHANGED vars
  <2>1. /\ UNCHANGED <<setup, pool, refcnt, in_port, age, len, m_table, nic, pc, due, rest, pkts>>
        /\ UNCHANGED <<m, port, num, flood>>
    BY <1>1 DEF vars, bufs, queues, loop, call
  <2>2. TypeOK'
    BY <2>1 DEF TypeInv, TypeOK
  <2>3. Threads'
    BY <2>1, SetupKept DEF TypeInv, Threads, ThreadOK
  <2>4. Filled'
    BY <2>1, FilledKept DEF TypeInv
  <2> QED
    BY <2>2, <2>3, <2>4 DEF TypeInv
<1>2. ASSUME NEW t \in Thread, Transmit(t)
      PROVE  TypeInv'
  BY <1>2, ReadTypes, PutTypes, WriteTypes, FloodTypes, ReleaseTypes, FloodDoneTypes DEF Transmit
<1>3. ASSUME NEW t \in Lcore, Core(t)
      PROVE  TypeInv'
  <2>1. t \in Thread
    OBVIOUS
  <2> QED
    BY <1>2, <1>3, <2>1, TopTypes, DrainSkipTypes, DrainSendTypes, DrainResetTypes, RxBurstTypes,
       ForwardTypes, ConsumeTypes DEF Core
<1> QED
  BY <1>1, <1>2, <1>3, TickTypes, PacketOutTypes, PacketOutNoBufferTypes, NicDoneTypes DEF Next

\* Every variable of the DPDK switch holds what its C type and its use allow;
\* no NONE is ever sent as a buffer.
THEOREM TypeCorrect == Spec => []TypeOK
<1>1. Init => TypeInv
  BY InitTypes
<1>2. TypeInv /\ [Next]_vars => TypeInv'
  BY NextTypes
<1>3. TypeInv => TypeOK
  BY DEF TypeInv
<1> QED
  BY <1>1, <1>2, <1>3, PTL DEF Spec

\* No store leaves m_table, also where the agent and lcore 0 share the bursts.
THEOREM StoreInTableHolds == Spec => []StoreInTable
<1>1. Init => TypeInv
  BY InitTypes
<1>2. TypeInv /\ [Next]_vars => TypeInv'
  BY NextTypes
<1>3. TypeInv => StoreInTable
  BY DEF TypeInv, Threads, ThreadOK, StoreInTable
<1> QED
  BY <1>1, <1>2, <1>3, PTL DEF Spec

-----------------------------------------------------------------------------
(* Each buffer is in one place                                             *)

\* Nothing is flooded, and the agent's thread has the bursts of lcore 0.
Simple == Exclusive /\ ~Floods

\* How far the burst of lcore q for port p is filled with what is not sent yet.
WaitLen(q, p) == IF \E t \in Thread : Sent(t, q, p) THEN 0 ELSE len[q][p]

\* t has a buffer that it has not stored in a burst yet, or whose store the
\* length of the burst does not show yet.
Hand(t) == pc[t] \in {"read", "put"} \/ (pc[t] = "write" /\ num[t] # 0)

InNic(b, p, i) == p \in Port /\ i \in 1 .. Len(nic[p]) /\ nic[p][i] = b
InBurst(b, q, p, i) ==
    q \in Lcore /\ p \in Port /\ i \in 1 .. WaitLen(q, p) /\ m_table[q][p][i] = b
Received(b, t) == t \in Thread /\ b \in pkts[t]
Handled(b, t) == t \in Thread /\ Hand(t) /\ m[t] = b

\* Buffer b is in a place of kind k.
At(b, k, q, p, i) ==
    \/ k = "pool" /\ q = 0 /\ p = 0 /\ i = 0 /\ b \in pool
    \/ k = "nic" /\ q = 0 /\ InNic(b, p, i)
    \/ k = "burst" /\ InBurst(b, q, p, i)
    \/ k = "pkts" /\ p = 0 /\ i = 0 /\ Received(b, q)
    \/ k = "hand" /\ p = 0 /\ i = 0 /\ Handled(b, q)

Placed(b) ==
    \E k, q, p, i : \A k2, q2, p2, i2 :
        At(b, k2, q2, p2, i2) <=> k2 = k /\ q2 = q /\ p2 = p /\ i2 = i

Nowhere(b) == \A k, q, p, i : ~At(b, k, q, p, i)

\* Every buffer of the pool is in exactly one place, and its count is 1 unless
\* that is the pool itself.
PlaceInv ==
    \A b \in Mbuf :
        IF b \in setup.mbufs
        THEN Placed(b) /\ refcnt[b] = IF b \in pool THEN 0 ELSE 1
        ELSE Nowhere(b)

\* What a thread in send_packet has read and stored is what the burst holds;
\* when it receives, it has dealt with what it received before.
CallOK(t) ==
    /\ flood[t] = {}
    /\ pc[t] \in {"loop", "drain", "reset", "rx"} => pkts[t] = {}
    /\ pc[t] \notin {"flood", "release"}
    /\ pc[t] = "put" => num[t] = len[Queue(t)][port[t]]
    /\ pc[t] = "write" /\ num[t] # 0 =>
          /\ num[t] = len[Queue(t)][port[t]] + 1
          /\ m_table[Queue(t)][port[t]][num[t]] = m[t]

CallInv == \A t \in Thread : CallOK(t)

SimpleInv == TypeInv /\ Simple /\ CallInv /\ PlaceInv

\* Nobody else uses the bursts that t uses.
LEMMA NobodyElse ==
    ASSUME Threads, Exclusive, NEW t \in Thread, t = ANY \/ pc[t] # "idle",
           NEW u \in Thread \ {t}, Queue(u) = Queue(t)
    PROVE  pc[u] = "idle"
<1>1. pc[0] = "idle"
  BY DEF Threads, ThreadOK, Polling, Exclusive
<1> QED
  BY <1>1 DEF Queue

\* What a step of t alone changes in the bursts that wait.
LEMMA WaitChanges ==
    ASSUME TypeInv, Exclusive, NEW t \in Thread, t = ANY \/ pc[t] # "idle",
           \A u \in Thread \ {t} :
               pc'[u] = pc[u] /\ port'[u] = port[u] /\ num'[u] = num[u] /\ rest'[u] = rest[u],
           \A r \in Lcore \ {Queue(t)} : len'[r] = len[r]
    PROVE  \A o \in Port :
              /\ WaitLen(Queue(t), o)
                   = IF Sent(t, Queue(t), o) THEN 0 ELSE len[Queue(t)][o]
              /\ WaitLen(Queue(t), o)'
                   = IF Sent(t, Queue(t), o)' THEN 0 ELSE len'[Queue(t)][o]
              /\ \A r \in Lcore \ {Queue(t)} : WaitLen(r, o)' = WaitLen(r, o)
<1> DEFINE q == Queue(t)
<1>1. \A u \in Thread \ {t} : Queue(u) = q => pc[u] = "idle"
  BY NobodyElse DEF TypeInv
<1>2. \A u \in Thread \ {t}, r \in Lcore, o \in Port : Sent(u, r, o)' <=> Sent(u, r, o)
  BY DEF Sent, Queue
<1>3. \A u \in Thread \ {t}, o \in Port : ~Sent(u, q, o)
  BY <1>1 DEF Sent
<1>4. \A r \in Lcore \ {q}, o \in Port : ~Sent(t, r, o) /\ ~Sent(t, r, o)'
  BY DEF Sent, Queue
<1>5. q \in Lcore
  BY QueueOf
<1>6. q' = q
  BY DEF Queue
<1> HIDE DEF q
<1>7. ASSUME NEW o \in Port
      PROVE  /\ WaitLen(q, o) = IF Sent(t, q, o) THEN 0 ELSE len[q][o]
             /\ WaitLen(q, o)' = IF Sent(t, q, o)' THEN 0 ELSE len'[q][o]
             /\ \A r \in Lcore \ {q} : WaitLen(r, o)' = WaitLen(r, o)
  <2>1. (\E u \in Thread : Sent(u, q, o)) <=> Sent(t, q, o)
    BY <1>3
  <2>2. (\E u \in Thread : Sent(u, q, o)') <=> Sent(t, q, o)'
    BY <1>2, <1>3, <1>5
  <2>3. ASSUME NEW r \in Lcore \ {q}
        PROVE  WaitLen(r, o)' = WaitLen(r, o)
    <3>1. (\E u \in Thread : Sent(u, r, o)') <=> (\E u \in Thread : Sent(u, r, o))
      BY <1>2, <1>4
    <3>2. len'[r] = len[r]
      BY DEF q
    <3> QED
      BY <3>1, <3>2 DEF WaitLen
  <2> QED
    BY <1>6, <2>1, <2>2, <2>3 DEF WaitLen
<1> QED
  BY <1>6, <1>7 DEF q

\* A buffer that stays or goes to one new place is in one place again.
Stays(b) == \A k, q, p, i : At(b, k, q, p, i)' <=> At(b, k, q, p, i)
Moves(b) == ~Nowhere(b) /\ Placed(b)'

LEMMA PlacedAgain ==
    ASSUME NEW b, Stays(b) \/ Moves(b)
    PROVE  (Placed(b) => Placed(b)') /\ (Nowhere(b) => Nowhere(b)')
<1>1. CASE Stays(b)
  BY <1>1 DEF Stays, Placed, Nowhere
<1>2. CASE Moves(b)
  BY <1>2 DEF Moves
<1> QED
  BY <1>1, <1>2

\* Free, of buffers that are counted once.
Frees(B) ==
    /\ pool' = pool \cup B
    /\ refcnt' = [b \in Mbuf |-> IF b \in B THEN 0 ELSE refcnt[b]]
    /\ in_port' = [b \in Mbuf |-> IF b \in B THEN 0 ELSE in_port[b]]
    /\ age' = {r \in age : r[1] \notin B /\ r[2] \notin B}

LEMMA FreeOnce ==
    ASSUME TypeOK, NEW s \in Seq(Mbuf), Free(s),
           \A i, j \in 1 .. Len(s) : s[i] = s[j] => i = j,
           \A i \in 1 .. Len(s) : refcnt[s[i]] = 1
    PROVE  Frees(Range(s))
<1>1. Range(s) \subseteq Mbuf /\ refcnt \in [Mbuf -> 0 .. RefWrap - 1]
  BY DEF Range, TypeOK
<1>2. ASSUME NEW b \in Range(s)
      PROVE  Occurrences(s, b) = 1 /\ refcnt[b] = 1
  <2>1. PICK i \in 1 .. Len(s) : s[i] = b
    BY DEF Range
  <2>2. {j \in DOMAIN s : s[j] = b} = {i}
    BY <2>1
  <2> QED
    BY <2>1, <2>2, FS_Singleton DEF Occurrences
<1>3. ASSUME NEW b \in Mbuf \ Range(s)
      PROVE  Occurrences(s, b) = 0
  <2>1. {j \in DOMAIN s : s[j] = b} = {}
    BY DEF Range
  <2> QED
    BY <2>1, FS_EmptySet DEF Occurrences
<1>4. {b \in Range(s) : refcnt[b] \in 1 .. Occurrences(s, b)} = Range(s)
  BY <1>2
<1>5. ASSUME NEW b \in Mbuf
      PROVE  (refcnt[b] + RefWrap - Occurrences(s, b)) % RefWrap
               = IF b \in Range(s) THEN 0 ELSE refcnt[b]
  <2>1. CASE b \in Range(s)
    <3>1. (1 + RefWrap - 1) % RefWrap = 0
      OBVIOUS
    <3> QED
      BY <1>2, <2>1, <3>1
  <2>2. CASE b \notin Range(s)
    <3>1. \A c \in 0 .. RefWrap - 1 : (c + RefWrap - 0) % RefWrap = c
      BY SMTT(30)
    <3> QED
      BY <1>1, <1>3, <2>2, <3>1
  <2> QED
    BY <2>1, <2>2
<1>6. refcnt' = [b \in Mbuf |-> (refcnt[b] + RefWrap - Occurrences(s, b)) % RefWrap]
  BY DEF Free
<1>7. refcnt' = [b \in Mbuf |-> IF b \in Range(s) THEN 0 ELSE refcnt[b]]
  BY <1>5, <1>6
<1> QED
  BY <1>4, <1>7 DEF Free, Frees

\* A step that moves no buffer.
NothingMoves ==
    /\ UNCHANGED <<setup, pool, refcnt, in_port, age>>
    /\ \A b, p, i : InNic(b, p, i)' <=> InNic(b, p, i)
    /\ \A b, q, p, i : InBurst(b, q, p, i)' <=> InBurst(b, q, p, i)
    /\ \A b, t : (Received(b, t)' <=> Received(b, t)) /\ (Handled(b, t)' <=> Handled(b, t))

LEMMA Quiet ==
    ASSUME UNCHANGED <<setup, pool, refcnt, in_port, age, nic, pkts>>,
           \A q \in Lcore, p \in Port :
               /\ WaitLen(q, p)' = WaitLen(q, p)
               /\ \A i \in 1 .. WaitLen(q, p) : m_table'[q][p][i] = m_table[q][p][i],
           \A t \in Thread : (Hand(t)' <=> Hand(t)) /\ (Hand(t) => m'[t] = m[t])
    PROVE  NothingMoves
<1>1. \A b, p, i : InNic(b, p, i)' <=> InNic(b, p, i)
  BY DEF InNic
<1>2. \A b, q, p, i : InBurst(b, q, p, i)' <=> InBurst(b, q, p, i)
  <2>1. ASSUME NEW q \in Lcore, NEW p \in Port, NEW b, NEW i
        PROVE  InBurst(b, q, p, i)' <=> InBurst(b, q, p, i)
    <3>1. WaitLen(q, p)' = WaitLen(q, p)
      OBVIOUS
    <3>2. i \in 1 .. WaitLen(q, p) => m_table'[q][p][i] = m_table[q][p][i]
      OBVIOUS
    <3> QED
      BY <3>1, <3>2 DEF InBurst
  <2>2. \A b, q, p, i : InBurst(b, q, p, i) => q \in Lcore /\ p \in Port
    BY DEF InBurst
  <2>3. \A b, q, p, i : InBurst(b, q, p, i)' => q \in Lcore /\ p \in Port
    BY DEF InBurst
  <2> QED
    BY ONLY <2>1, <2>2, <2>3
<1>3. \A b, t : Received(b, t)' <=> Received(b, t)
  BY DEF Received
<1>4. \A b, t : Handled(b, t)' <=> Handled(b, t)
  BY DEF Handled
<1> QED
  BY <1>1, <1>2, <1>3, <1>4 DEF NothingMoves

LEMMA QuietPlaces ==
    ASSUME SimpleInv, NothingMoves
    PROVE  PlaceInv'
<1>1. ASSUME NEW b \in Mbuf
      PROVE  Stays(b)
  BY DEF NothingMoves, Stays, At
<1>2. UNCHANGED <<setup, pool, refcnt>>
  BY DEF NothingMoves
<1>3. ASSUME NEW b \in Mbuf
      PROVE  IF b \in setup.mbufs
             THEN Placed(b)' /\ refcnt'[b] = IF b \in pool' THEN 0 ELSE 1
             ELSE Nowhere(b)'
  BY <1>1, <1>2, PlacedAgain DEF SimpleInv, PlaceInv
<1> QED
  BY <1>2, <1>3 DEF PlaceInv

\* The other threads' calls, after a step of t.
LEMMA CallKept ==
    ASSUME SimpleInv, NEW t \in Thread, t = ANY \/ pc[t] # "idle",
           \A u \in Thread \ {t} :
               /\ pc'[u] = pc[u] /\ port'[u] = port[u] /\ num'[u] = num[u]
               /\ m'[u] = m[u] /\ flood'[u] = flood[u] /\ pkts'[u] = pkts[u],
           \A r \in Lcore \ {Queue(t)} : len'[r] = len[r] /\ m_table'[r] = m_table[r],
           CallOK(t)'
    PROVE  CallInv'
<1>1. ASSUME NEW u \in Thread \ {t}
      PROVE  CallOK(u)'
  <2>1. CallOK(u)
    BY DEF SimpleInv, CallInv
  <2>2. CASE pc[u] \in {"put", "write"}
    <3>1. Queue(u) \in Lcore \ {Queue(t)}
      BY <2>2, NobodyElse, QueueOf DEF SimpleInv, TypeInv, Simple
    <3> QED
      BY <2>1, <3>1 DEF CallOK, Queue
  <2>3. CASE pc[u] \notin {"put", "write"}
    BY <2>1, <2>3 DEF CallOK
  <2> QED
    BY <2>2, <2>3
<1> QED
  BY <1>1 DEF CallInv

LEMMA ReadMoves ==
    ASSUME SimpleInv, NEW t \in Thread, Read(t)
    PROVE  CallInv' /\ NothingMoves
<1> DEFINE n == len[Queue(t)][port[t]]
<1>1. /\ UNCHANGED <<setup, pool, refcnt, in_port, age, len, m_table, nic>>
      /\ UNCHANGED <<due, rest, pkts, m, port, flood>>
      /\ num' = [num EXCEPT ![t] = n] /\ pc[t] = "read"
  BY DEF Read, bufs, queues, loop
<1>2. num \in [Thread -> 0 .. MAX_PKT_BURST] /\ TypeInv /\ TypeOK /\ Exclusive
  BY DEF SimpleInv, TypeInv, TypeOK, Simple
<1> HIDE DEF n
<1>3. num'[t] = n /\ \A u \in Thread \ {t} : num'[u] = num[u]
  BY <1>1, <1>2
<1>4. pc'[t] = "put" /\ \A u \in Thread \ {t} : pc'[u] = pc[u]
  BY <1>2, GotoDoes DEF Read, Label, Working
<1>5. CallOK(t)'
  BY <1>1, <1>3, <1>4 DEF SimpleInv, CallInv, CallOK, Queue, n
<1>6. CallInv'
  <2>1. t = ANY \/ pc[t] # "idle"
    BY <1>1
  <2> QED
    BY <1>1, <1>3, <1>4, <1>5, <2>1, CallKept
<1>7. \A q \in Lcore, p \in Port : WaitLen(q, p)' = WaitLen(q, p)
  BY <1>1, <1>3, <1>4 DEF WaitLen, Sent, Queue
<1>8. \A u \in Thread : Hand(u)' <=> Hand(u)
  BY <1>1, <1>3, <1>4 DEF Hand
<1>9. NothingMoves
  BY <1>1, <1>7, <1>8, Quiet
<1> QED
  BY <1>6, <1>9

OnlyAt(b, k, q, p, i) ==
    \A k2, q2, p2, i2 : At(b, k2, q2, p2, i2) <=> k2 = k /\ q2 = q /\ p2 = p /\ i2 = i

\* What is at a place is one of the pool's buffers and nowhere else.
LEMMA AtOnly ==
    ASSUME SimpleInv, NEW b \in Mbuf, NEW k, NEW q, NEW p, NEW i, At(b, k, q, p, i)
    PROVE  b \in setup.mbufs /\ OnlyAt(b, k, q, p, i)
<1>1. ~Nowhere(b)
  BY DEF Nowhere
<1>2. b \in setup.mbufs /\ Placed(b)
  BY <1>1 DEF SimpleInv, PlaceInv
<1>3. PICK k1, q1, p1, i1 : OnlyAt(b, k1, q1, p1, i1)
  BY <1>2 DEF Placed, OnlyAt
<1>4. k1 = k /\ q1 = q /\ p1 = p /\ i1 = i
  BY <1>3 DEF OnlyAt
<1> QED
  BY <1>2, <1>3, <1>4

LEMMA Kinds ==
    ASSUME NEW b
    PROVE  /\ At(b, "pool", 0, 0, 0) <=> b \in pool
           /\ \A p, i : At(b, "nic", 0, p, i) <=> InNic(b, p, i)
           /\ \A q, p, i : At(b, "burst", q, p, i) <=> InBurst(b, q, p, i)
           /\ \A t : At(b, "pkts", t, 0, 0) <=> Received(b, t)
           /\ \A t : At(b, "hand", t, 0, 0) <=> Handled(b, t)
BY DEF At

\* The five kinds of places, one by one.
LEMMA OnlyInPool ==
    ASSUME SimpleInv, NEW b \in Mbuf, b \in pool
    PROVE  /\ b \in setup.mbufs
           /\ \A p, i : ~InNic(b, p, i)
           /\ \A q, p, i : ~InBurst(b, q, p, i)
           /\ \A t : ~Received(b, t) /\ ~Handled(b, t)
<1>1. At(b, "pool", 0, 0, 0)
  BY DEF At
<1>2. b \in setup.mbufs /\ OnlyAt(b, "pool", 0, 0, 0)
  BY <1>1, AtOnly
<1> QED
  BY <1>2, Kinds DEF OnlyAt

LEMMA OnlyInNic ==
    ASSUME SimpleInv, NEW b \in Mbuf, NEW p, NEW i, InNic(b, p, i)
    PROVE  /\ b \in setup.mbufs /\ b \notin pool
           /\ \A o, j : InNic(b, o, j) => o = p /\ j = i
           /\ \A q, o, j : ~InBurst(b, q, o, j)
           /\ \A t : ~Received(b, t) /\ ~Handled(b, t)
<1>1. At(b, "nic", 0, p, i)
  BY DEF At
<1>2. b \in setup.mbufs /\ OnlyAt(b, "nic", 0, p, i)
  BY <1>1, AtOnly
<1>3. /\ ~At(b, "pool", 0, 0, 0)
      /\ \A o, j : At(b, "nic", 0, o, j) => o = p /\ j = i
      /\ \A q, o, j : ~At(b, "burst", q, o, j)
      /\ \A t : ~At(b, "pkts", t, 0, 0) /\ ~At(b, "hand", t, 0, 0)
  BY <1>2 DEF OnlyAt
<1> QED
  BY <1>2, <1>3, Kinds

LEMMA OnlyInBurst ==
    ASSUME SimpleInv, NEW b \in Mbuf, NEW q, NEW p, NEW i, InBurst(b, q, p, i)
    PROVE  /\ b \in setup.mbufs /\ b \notin pool
           /\ \A o, j : ~InNic(b, o, j)
           /\ \A r, o, j : InBurst(b, r, o, j) => r = q /\ o = p /\ j = i
           /\ \A t : ~Received(b, t) /\ ~Handled(b, t)
<1>1. At(b, "burst", q, p, i)
  BY DEF At
<1>2. b \in setup.mbufs /\ OnlyAt(b, "burst", q, p, i)
  BY <1>1, AtOnly
<1>3. /\ ~At(b, "pool", 0, 0, 0)
      /\ \A o, j : ~At(b, "nic", 0, o, j)
      /\ \A r, o, j : At(b, "burst", r, o, j) => r = q /\ o = p /\ j = i
      /\ \A t : ~At(b, "pkts", t, 0, 0) /\ ~At(b, "hand", t, 0, 0)
  BY <1>2 DEF OnlyAt
<1> QED
  BY <1>2, <1>3, Kinds

LEMMA OnlyReceived ==
    ASSUME SimpleInv, NEW b \in Mbuf, NEW t, Received(b, t)
    PROVE  /\ b \in setup.mbufs /\ b \notin pool
           /\ \A o, j : ~InNic(b, o, j)
           /\ \A r, o, j : ~InBurst(b, r, o, j)
           /\ \A u : (Received(b, u) => u = t) /\ ~Handled(b, u)
<1>1. At(b, "pkts", t, 0, 0)
  BY DEF At
<1>2. b \in setup.mbufs /\ OnlyAt(b, "pkts", t, 0, 0)
  BY <1>1, AtOnly
<1>3. /\ ~At(b, "pool", 0, 0, 0)
      /\ \A o, j : ~At(b, "nic", 0, o, j)
      /\ \A r, o, j : ~At(b, "burst", r, o, j)
      /\ \A u : (At(b, "pkts", u, 0, 0) => u = t) /\ ~At(b, "hand", u, 0, 0)
  BY <1>2 DEF OnlyAt
<1> QED
  BY <1>2, <1>3, Kinds

LEMMA OnlyHandled ==
    ASSUME SimpleInv, NEW b \in Mbuf, NEW t, Handled(b, t)
    PROVE  /\ b \in setup.mbufs /\ b \notin pool
           /\ \A o, j : ~InNic(b, o, j)
           /\ \A r, o, j : ~InBurst(b, r, o, j)
           /\ \A u : ~Received(b, u) /\ (Handled(b, u) => u = t)
<1>1. At(b, "hand", t, 0, 0)
  BY DEF At
<1>2. b \in setup.mbufs /\ OnlyAt(b, "hand", t, 0, 0)
  BY <1>1, AtOnly
<1>3. /\ ~At(b, "pool", 0, 0, 0)
      /\ \A o, j : ~At(b, "nic", 0, o, j)
      /\ \A r, o, j : ~At(b, "burst", r, o, j)
      /\ \A u : ~At(b, "pkts", u, 0, 0) /\ (At(b, "hand", u, 0, 0) => u = t)
  BY <1>2 DEF OnlyAt
<1> QED
  BY <1>2, <1>3, Kinds

\* What it takes for a buffer to be in one place after a step.
LEMMA NowInPool ==
    ASSUME NEW b, b \in pool', \A p, i : ~InNic(b, p, i)', \A q, p, i : ~InBurst(b, q, p, i)',
           \A t : ~Received(b, t)' /\ ~Handled(b, t)'
    PROVE  Placed(b)'
<1>1. \A k, q, p, i : At(b, k, q, p, i)' <=> k = "pool" /\ q = 0 /\ p = 0 /\ i = 0
  BY DEF At
<1> QED
  BY <1>1 DEF Placed

LEMMA OnlyThere ==
    ASSUME NEW b, NEW k, NEW q, NEW p, NEW i, OnlyAt(b, k, q, p, i)'
    PROVE  Placed(b)'
BY DEF OnlyAt, Placed

LEMMA NowInNic ==
    ASSUME NEW b, NEW p, NEW i, b \notin pool',
           \A o, j : InNic(b, o, j)' <=> o = p /\ j = i, \A q, o, j : ~InBurst(b, q, o, j)',
           \A t : ~Received(b, t)' /\ ~Handled(b, t)'
    PROVE  OnlyAt(b, "nic", 0, p, i)'
<1>1. \A k, r, o, j : At(b, k, r, o, j)' <=> k = "nic" /\ r = 0 /\ o = p /\ j = i
  BY DEF At
<1> QED
  BY <1>1 DEF OnlyAt

LEMMA NowInBurst ==
    ASSUME NEW b, NEW q, NEW p, NEW i, b \notin pool', \A o, j : ~InNic(b, o, j)',
           \A r, o, j : InBurst(b, r, o, j)' <=> r = q /\ o = p /\ j = i,
           \A t : ~Received(b, t)' /\ ~Handled(b, t)'
    PROVE  OnlyAt(b, "burst", q, p, i)'
<1>1. \A k, r, o, j : At(b, k, r, o, j)' <=> k = "burst" /\ r = q /\ o = p /\ j = i
  BY DEF At
<1> QED
  BY <1>1 DEF OnlyAt

LEMMA NowReceived ==
    ASSUME NEW b, NEW t, b \notin pool', \A o, j : ~InNic(b, o, j)',
           \A r, o, j : ~InBurst(b, r, o, j)',
           \A u : (Received(b, u)' <=> u = t) /\ ~Handled(b, u)'
    PROVE  OnlyAt(b, "pkts", t, 0, 0)'
<1>1. \A k, r, o, j : At(b, k, r, o, j)' <=> k = "pkts" /\ r = t /\ o = 0 /\ j = 0
  BY DEF At
<1> QED
  BY <1>1 DEF OnlyAt

LEMMA NowHandled ==
    ASSUME NEW b, NEW t, b \notin pool', \A o, j : ~InNic(b, o, j)',
           \A r, o, j : ~InBurst(b, r, o, j)',
           \A u : ~Received(b, u)' /\ (Handled(b, u)' <=> u = t)
    PROVE  OnlyAt(b, "hand", t, 0, 0)'
<1>1. \A k, r, o, j : At(b, k, r, o, j)' <=> k = "hand" /\ r = t /\ o = 0 /\ j = 0
  BY DEF At
<1> QED
  BY <1>1 DEF OnlyAt

LEMMA NowSame ==
    ASSUME NEW b, b \in pool' <=> b \in pool, \A p, i : InNic(b, p, i)' <=> InNic(b, p, i),
           \A q, p, i : InBurst(b, q, p, i)' <=> InBurst(b, q, p, i),
           \A t : (Received(b, t)' <=> Received(b, t)) /\ (Handled(b, t)' <=> Handled(b, t))
    PROVE  Stays(b)
BY DEF Stays, At

\* PlaceInv after a step, buffer by buffer.
LEMMA PlacesNext ==
    ASSUME SimpleInv, UNCHANGED setup,
           \A b \in Mbuf : Stays(b) \/ (b \in setup.mbufs /\ Placed(b)'),
           \A b \in Mbuf : refcnt'[b] = IF b \in pool' /\ b \in pool THEN refcnt[b]
                                        ELSE IF b \in pool' THEN 0
                                        ELSE IF b \in pool THEN 1
                                        ELSE refcnt[b]
    PROVE  PlaceInv'
<1>1. ASSUME NEW b \in Mbuf
      PROVE  IF b \in setup.mbufs
             THEN Placed(b)' /\ refcnt'[b] = IF b \in pool' THEN 0 ELSE 1
             ELSE Nowhere(b)'
  BY PlacedAgain DEF SimpleInv, PlaceInv
<1> QED
  BY <1>1 DEF PlaceInv

\* The burst of q for p that thread t hands to the driver: what waited in it
\* and, if t just filled it, the buffer that t has.
BurstOf(s, t, q, p) ==
    /\ \A i \in 1 .. WaitLen(q, p) : s[i] = m_table[q][p][i]
    /\ \/ Len(s) = WaitLen(q, p) /\ ~Hand(t)
       \/ Len(s) = WaitLen(q, p) + 1 /\ Hand(t) /\ s[WaitLen(q, p) + 1] = m[t]

Apart(s, t, q, p) ==
    /\ \A i \in 1 .. Len(s) :
          /\ s[i] \in Mbuf /\ s[i] \in setup.mbufs /\ s[i] \notin pool
          /\ \A o, j : ~InNic(s[i], o, j)
          /\ \A r, o, j : InBurst(s[i], r, o, j) => r = q /\ o = p /\ j = i
          /\ \A u : ~Received(s[i], u) /\ (Handled(s[i], u) => u = t)
    /\ \A i, j \in 1 .. Len(s) : s[i] = s[j] => i = j
    /\ \A b, i : InBurst(b, q, p, i) => i \in 1 .. Len(s) /\ b = s[i]
    /\ \A i \in 1 .. Len(s) : InBurst(s[i], q, p, i) \/ (i = Len(s) /\ Handled(s[i], t))
    /\ \A b : Handled(b, t) => \E i \in 1 .. Len(s) : b = s[i]

\* The buffers of a burst are different, and each was only there.
LEMMA BurstFacts ==
    ASSUME SimpleInv, NEW t \in Thread, NEW q \in Lcore, NEW p \in Port, NEW s \in Seq(Mbuf),
           BurstOf(s, t, q, p), WaitLen(q, p) \in Nat
    PROVE  Apart(s, t, q, p)
<1> DEFINE w == WaitLen(q, p)
<1>1. \A i \in 1 .. w : InBurst(s[i], q, p, i)
  BY DEF BurstOf, InBurst
<1>2. \A b, i : InBurst(b, q, p, i) => i \in 1 .. w /\ b = s[i]
  BY DEF BurstOf, InBurst
<1>3. \/ Len(s) = w /\ ~Hand(t)
      \/ Len(s) = w + 1 /\ Handled(s[w + 1], t)
  BY DEF BurstOf, Handled
<1>4. \A b : Handled(b, t) => Len(s) = w + 1 /\ b = s[w + 1]
  BY <1>3 DEF BurstOf, Handled
<1>5. w \in Nat
  OBVIOUS
<1> HIDE DEF w
<1>6. \A i \in 1 .. Len(s) : s[i] \in Mbuf
  OBVIOUS
<1>7. ASSUME NEW i \in 1 .. w
      PROVE  /\ s[i] \in Mbuf /\ s[i] \in setup.mbufs /\ s[i] \notin pool
             /\ \A o, j : ~InNic(s[i], o, j)
             /\ \A r, o, j : InBurst(s[i], r, o, j) => r = q /\ o = p /\ j = i
             /\ \A u : ~Received(s[i], u) /\ ~Handled(s[i], u)
  <2>1. s[i] \in Mbuf /\ InBurst(s[i], q, p, i)
    BY <1>1, <1>3, <1>5, <1>6
  <2> QED
    BY <2>1, OnlyInBurst
<1>8. ASSUME Len(s) = w + 1
      PROVE  /\ s[w + 1] \in Mbuf /\ s[w + 1] \in setup.mbufs /\ s[w + 1] \notin pool
             /\ \A o, j : ~InNic(s[w + 1], o, j)
             /\ \A r, o, j : ~InBurst(s[w + 1], r, o, j)
             /\ \A u : ~Received(s[w + 1], u) /\ (Handled(s[w + 1], u) => u = t)
  <2> DEFINE b == s[w + 1]
  <2>1. b \in Mbuf /\ Handled(b, t)
    BY <1>3, <1>5, <1>6, <1>8
  <2> HIDE DEF b
  <2>2. /\ b \in Mbuf /\ b \in setup.mbufs /\ b \notin pool
        /\ \A o, j : ~InNic(b, o, j)
        /\ \A r, o, j : ~InBurst(b, r, o, j)
        /\ \A u : ~Received(b, u) /\ (Handled(b, u) => u = t)
    BY <2>1, OnlyHandled
  <2> QED
    BY <2>2 DEF b
<1>9. \A i \in 1 .. Len(s) : i \in 1 .. w \/ (Len(s) = w + 1 /\ i = w + 1)
  BY <1>3, <1>5
<1>10. ASSUME NEW i \in 1 .. Len(s), NEW j \in 1 .. Len(s), s[i] = s[j]
       PROVE  i = j
  <2>1. CASE i \in 1 .. w /\ j \in 1 .. w
    BY <1>1, <1>7, <1>10, <2>1
  <2>2. CASE i \in 1 .. w /\ j = w + 1 /\ Len(s) = w + 1
    BY <1>1, <1>8, <1>10, <2>2
  <2>3. CASE j \in 1 .. w /\ i = w + 1 /\ Len(s) = w + 1
    BY <1>1, <1>8, <1>10, <2>3
  <2> QED
    BY <1>9, <2>1, <2>2, <2>3
<1>11. ASSUME NEW i \in 1 .. Len(s)
       PROVE  /\ s[i] \in Mbuf /\ s[i] \in setup.mbufs /\ s[i] \notin pool
              /\ \A o, j : ~InNic(s[i], o, j)
              /\ \A r, o, j : InBurst(s[i], r, o, j) => r = q /\ o = p /\ j = i
              /\ \A u : ~Received(s[i], u) /\ (Handled(s[i], u) => u = t)
  <2>1. CASE i \in 1 .. w
    BY <1>7, <2>1
  <2>2. CASE i = w + 1 /\ Len(s) = w + 1
    BY <1>8, <2>2
  <2> QED
    BY <1>9, <2>1, <2>2
<1>12. \A b : Handled(b, t) => \E i \in 1 .. Len(s) : b = s[i]
  BY <1>4, <1>5
<1>13. \A b, i : InBurst(b, q, p, i) => i \in 1 .. Len(s) /\ b = s[i]
  BY <1>2, <1>3, <1>5
<1>14. \A i \in 1 .. Len(s) : InBurst(s[i], q, p, i) \/ (i = Len(s) /\ Handled(s[i], t))
  BY <1>1, <1>3, <1>9
<1> QED
  BY <1>10, <1>11, <1>12, <1>13, <1>14 DEF Apart

\* The effect of a burst s for port p, of which the driver takes the first and
\* to whose ring it appends them behind n others.
Sends(t, q, p, s, sent, n) ==
    /\ Apart(s, t, q, p)
    /\ Frees({s[k] : k \in sent + 1 .. Len(s)})
    /\ \A b, o, j : o # p => (InNic(b, o, j)' <=> InNic(b, o, j))
    /\ \A b, j : InNic(b, p, j)' <=> InNic(b, p, j) \/ \E k \in 1 .. sent : j = n + k /\ b = s[k]
    /\ \A b, j : InNic(b, p, j) => j \in 1 .. n
    /\ \A b, r, o, j : InBurst(b, r, o, j)' <=> InBurst(b, r, o, j) /\ (r # q \/ o # p)
    /\ \A b, u : /\ Received(b, u)' <=> Received(b, u)
                 /\ Handled(b, u)' <=> Handled(b, u) /\ u # t

LEMMA SendMoves ==
    ASSUME SimpleInv, NEW t \in Thread, NEW q \in Lcore, NEW p \in Port, NEW s \in Seq(Mbuf),
           SendBurst(p, s), BurstOf(s, t, q, p), WaitLen(q, p) \in Nat,
           UNCHANGED <<setup, pkts, m>>,
           WaitLen(q, p)' = 0,
           \A r \in Lcore, o \in Port :
               r # q \/ o # p => WaitLen(r, o)' = WaitLen(r, o) /\ m_table'[r][o] = m_table[r][o],
           ~Hand(t)', \A u \in Thread \ {t} : Hand(u)' <=> Hand(u)
    PROVE  \E sent \in 0 .. Len(s), n \in Nat : Sends(t, q, p, s, sent, n)
<1>1. /\ \A i \in 1 .. Len(s) :
            /\ s[i] \in Mbuf /\ s[i] \in setup.mbufs /\ s[i] \notin pool
            /\ \A o, j : ~InNic(s[i], o, j)
            /\ \A r, o, j : InBurst(s[i], r, o, j) => r = q /\ o = p /\ j = i
            /\ \A u : ~Received(s[i], u) /\ (Handled(s[i], u) => u = t)
      /\ \A i, j \in 1 .. Len(s) : s[i] = s[j] => i = j
  <2>1. Apart(s, t, q, p)
    BY BurstFacts
  <2> QED
    BY <2>1 DEF Apart
<1>2. PICK sent \in 0 .. Len(s) :
              /\ nic' \in [Port -> Seq(Mbuf)]
              /\ \A o \in Port \ {p} : nic'[o] = nic[o]
              /\ Len(nic'[p]) = Len(nic[p]) + sent
              /\ \A i \in 1 .. Len(nic[p]) : nic'[p][i] = nic[p][i]
              /\ \A i \in 1 .. sent : nic'[p][Len(nic[p]) + i] = s[i]
              /\ SubSeq(s, sent + 1, Len(s)) \in Seq(Mbuf)
              /\ Free(SubSeq(s, sent + 1, Len(s)))
  <2>1. TypeOK
    BY DEF SimpleInv, TypeInv
  <2> QED
    BY ONLY <2>1, p \in Port, s \in Seq(Mbuf), SendBurst(p, s), SendBurstDoes
<1> DEFINE back == SubSeq(s, sent + 1, Len(s))
<1>3. /\ back \in Seq(Mbuf) /\ Len(back) = Len(s) - sent
      /\ \A i \in 1 .. Len(s) - sent : back[i] = s[sent + i]
  BY TailPart
<1>4. Free(back)
  BY <1>2
<1> HIDE DEF back
<1>5. \A b : b \in Range(back) <=> \E i \in sent + 1 .. Len(s) : b = s[i]
  <2>1. \A i \in 1 .. Len(s) - sent : sent + i \in sent + 1 .. Len(s)
    OBVIOUS
  <2>2. \A i \in sent + 1 .. Len(s) : i - sent \in 1 .. Len(s) - sent /\ sent + (i - sent) = i
    OBVIOUS
  <2>3. \A i \in sent + 1 .. Len(s) : s[i] = back[i - sent] /\ i - sent \in DOMAIN back
    BY <1>3, <2>2
  <2>4. \A i \in DOMAIN back : back[i] = s[sent + i] /\ sent + i \in sent + 1 .. Len(s)
    BY <1>3, <2>1
  <2> QED
    BY <2>3, <2>4 DEF Range
<1>6. \A i \in 1 .. Len(s) : refcnt[s[i]] = 1
  BY <1>1 DEF SimpleInv, PlaceInv
<1>7. Frees(Range(back))
  <2>1. \A i \in 1 .. Len(back) : sent + i \in 1 .. Len(s) /\ back[i] = s[sent + i]
    BY <1>3
  <2>2. \A i, j \in 1 .. Len(back) : back[i] = back[j] => i = j
    <3> SUFFICES ASSUME NEW i \in 1 .. Len(back), NEW j \in 1 .. Len(back), back[i] = back[j]
                 PROVE  i = j
      OBVIOUS
    <3>1. sent + i = sent + j
      BY <1>1, <2>1
    <3> QED
      BY <3>1
  <2>3. \A i \in 1 .. Len(back) : refcnt[back[i]] = 1
    BY <1>6, <2>1
  <2> QED
    BY <1>3, <1>4, <2>2, <2>3, FreeOnce DEF SimpleInv, TypeInv
<1>8. \A b, r, o, j : InBurst(b, r, o, j)' <=> InBurst(b, r, o, j) /\ (r # q \/ o # p)
  <2>1. \A b, j : ~InBurst(b, q, p, j)'
    BY DEF InBurst
  <2>2. \A b, r, o, j : r # q \/ o # p => (InBurst(b, r, o, j)' <=> InBurst(b, r, o, j))
    BY DEF InBurst
  <2> QED
    BY <2>1, <2>2
<1>9. \A b, u : (Received(b, u)' <=> Received(b, u)) /\ (Handled(b, u)' <=> Handled(b, u) /\ u # t)
  BY DEF Received, Handled
<1>10. \A b, o, j : o # p => (InNic(b, o, j)' <=> InNic(b, o, j))
  BY <1>2 DEF InNic
<1> DEFINE n == Len(nic[p])
<1>11. n \in Nat
  BY DEF SimpleInv, TypeInv, TypeOK
<1>12. \A b, j : InNic(b, p, j)' <=> InNic(b, p, j) \/ \E k \in 1 .. sent : j = n + k /\ b = s[k]
  <2>1. \A b, j : InNic(b, p, j)' <=> j \in 1 .. n + sent /\ nic'[p][j] = b
    BY <1>2 DEF InNic
  <2>2. \A b, j : InNic(b, p, j) <=> j \in 1 .. n /\ nic[p][j] = b
    BY DEF InNic
  <2>3. \A k \in 1 .. sent : n + k \in 1 .. n + sent /\ nic'[p][n + k] = s[k]
    BY <1>2, <1>11
  <2>4. \A j \in 1 .. n : j \in 1 .. n + sent /\ nic'[p][j] = nic[p][j]
    BY <1>2, <1>11
  <2>5. \A j \in 1 .. n + sent : j \in 1 .. n \/ (j - n \in 1 .. sent /\ j = n + (j - n))
    BY <1>11
  <2> HIDE DEF n
  <2>6. ASSUME NEW b, NEW j, InNic(b, p, j)'
        PROVE  InNic(b, p, j) \/ \E k \in 1 .. sent : j = n + k /\ b = s[k]
    <3>1. j \in 1 .. n + sent /\ nic'[p][j] = b
      BY <2>1, <2>6
    <3>2. CASE j \in 1 .. n
      BY <2>2, <2>4, <3>1, <3>2
    <3>3. CASE j - n \in 1 .. sent /\ j = n + (j - n)
      BY <2>3, <3>1, <3>3
    <3> QED
      BY <2>5, <3>1, <3>2, <3>3
  <2>7. ASSUME NEW b, NEW j, InNic(b, p, j)
        PROVE  InNic(b, p, j)'
    BY <2>1, <2>2, <2>4, <2>7
  <2>8. ASSUME NEW b, NEW j, NEW k \in 1 .. sent, j = n + k, b = s[k]
        PROVE  InNic(b, p, j)'
    <3>1. j \in 1 .. n + sent /\ nic'[p][j] = b
      BY <2>3, <2>8
    <3> QED
      BY <2>1, <3>1
  <2> QED
    BY ONLY <2>6, <2>7, <2>8
<1> HIDE DEF n
<1>13. \A b, j : InNic(b, p, j) => j \in 1 .. n
  BY DEF InNic, n
<1>14. Frees({s[k] : k \in sent + 1 .. Len(s)})
  <2>1. Range(back) = {s[k] : k \in sent + 1 .. Len(s)}
    BY <1>5
  <2> QED
    BY <1>7, <2>1
<1>15. Apart(s, t, q, p)
  BY BurstFacts
<1>16. PICK w \in Nat : w = n
  BY <1>11
<1>17. \A b, j : InNic(b, p, j)' <=> InNic(b, p, j) \/ \E k \in 1 .. sent : j = w + k /\ b = s[k]
  BY <1>12, <1>16
<1>18. \A b, j : InNic(b, p, j) => j \in 1 .. w
  BY <1>13, <1>16
<1>19. Sends(t, q, p, s, sent, w)
  BY <1>8, <1>9, <1>10, <1>14, <1>15, <1>17, <1>18 DEF Sends
<1> QED
  BY <1>16, <1>19

LEMMA SendPlaces ==
    ASSUME SimpleInv, UNCHANGED setup, NEW t \in Thread, NEW q \in Lcore, NEW p \in Port,
           NEW s \in Seq(Mbuf), NEW sent \in 0 .. Len(s), NEW n \in Nat,
           Sends(t, q, p, s, sent, n)
    PROVE  PlaceInv'
<1>1. /\ \A i \in 1 .. Len(s) :
            /\ s[i] \in Mbuf /\ s[i] \in setup.mbufs /\ s[i] \notin pool
            /\ \A o, j : ~InNic(s[i], o, j)
            /\ \A r, o, j : InBurst(s[i], r, o, j) => r = q /\ o = p /\ j = i
            /\ \A u : ~Received(s[i], u) /\ (Handled(s[i], u) => u = t)
      /\ \A i, j \in 1 .. Len(s) : s[i] = s[j] => i = j
      /\ \A b, j : InBurst(b, q, p, j) => j \in 1 .. Len(s) /\ b = s[j]
      /\ \A b : Handled(b, t) => \E i \in 1 .. Len(s) : b = s[i]
  BY DEF Sends, Apart
<1> DEFINE B == {s[k] : k \in sent + 1 .. Len(s)}
<1>2. Frees(B)
  BY DEF Sends
<1>3. \A i \in 1 .. Len(s) : s[i] \in B <=> i \in sent + 1 .. Len(s)
  <2>1. \A i \in 1 .. Len(s), k \in sent + 1 .. Len(s) : s[i] = s[k] => i = k
    <3>1. \A k \in sent + 1 .. Len(s) : k \in 1 .. Len(s)
      OBVIOUS
    <3> QED
      BY <1>1, <3>1
  <2> QED
    BY <2>1
<1>4. \A b \in B : \E i \in 1 .. Len(s) : b = s[i]
  OBVIOUS
<1> HIDE DEF B
<1>5. pool' = pool \cup B /\ refcnt' = [b \in Mbuf |-> IF b \in B THEN 0 ELSE refcnt[b]]
  BY <1>2 DEF Frees
<1>6. /\ \A b, o, j : o # p => (InNic(b, o, j)' <=> InNic(b, o, j))
      /\ \A b, j : InNic(b, p, j)' <=> InNic(b, p, j) \/ \E k \in 1 .. sent : j = n + k /\ b = s[k]
  BY DEF Sends
<1>7. \A b, r, o, j : InBurst(b, r, o, j)' <=> InBurst(b, r, o, j) /\ (r # q \/ o # p)
  BY DEF Sends
<1>8. \A b, u : /\ Received(b, u)' <=> Received(b, u)
                /\ Handled(b, u)' <=> Handled(b, u) /\ u # t
  BY DEF Sends
<1>9. ASSUME NEW k \in 1 .. Len(s)
      PROVE  /\ \A r, o, j : ~InBurst(s[k], r, o, j)'
             /\ \A u : ~Received(s[k], u)' /\ ~Handled(s[k], u)'
  <2>1. PICK b \in Mbuf : b = s[k]
    OBVIOUS
  <2>2. /\ \A r, o, j : InBurst(b, r, o, j) => r = q /\ o = p
        /\ \A u : ~Received(b, u) /\ (Handled(b, u) => u = t)
    <3>1. /\ \A r, o, j : InBurst(s[k], r, o, j) => r = q /\ o = p /\ j = k
          /\ \A u : ~Received(s[k], u) /\ (Handled(s[k], u) => u = t)
      BY ONLY <1>1, k \in 1 .. Len(s)
    <3> QED
      BY ONLY <2>1, <3>1
  <2>3. \A r, o, j : ~InBurst(b, r, o, j)'
    BY <1>7, <2>2
  <2>4. \A u : ~Received(b, u)' /\ ~Handled(b, u)'
    BY <1>8, <2>2
  <2> QED
    BY <2>1, <2>3, <2>4
<1>13. ASSUME NEW k \in 1 .. sent
       PROVE  s[k] \in setup.mbufs /\ Placed(s[k])'
  <2>1. k \in 1 .. Len(s)
    OBVIOUS
  <2>2. s[k] \notin pool'
    <3>1. s[k] \notin B
      BY <1>3, <2>1
    <3> QED
      BY <1>1, <1>5, <2>1, <3>1
  <2>3. \A o, j : InNic(s[k], o, j)' <=> o = p /\ j = n + k
    <3>1. \A o, j : ~InNic(s[k], o, j)
      BY <1>1, <2>1
    <3>2. ASSUME NEW l \in 1 .. sent, s[l] = s[k]
          PROVE  l = k
      <4>1. l \in 1 .. Len(s)
        OBVIOUS
      <4> QED
        BY <1>1, <2>1, <3>2, <4>1
    <3>3. \A o, j : o # p => ~InNic(s[k], o, j)'
      BY <1>6, <3>1
    <3>4. \A j : InNic(s[k], p, j)' <=> j = n + k
      BY <1>6, <3>1, <3>2
    <3> QED
      BY <3>3, <3>4
  <2>4. \A r, o, j : ~InBurst(s[k], r, o, j)'
    BY <1>9, <2>1
  <2>5. \A u : ~Received(s[k], u)' /\ ~Handled(s[k], u)'
    BY <1>9, <2>1
  <2>6. s[k] \in setup.mbufs
    BY <1>1, <2>1
  <2>7. PICK i : i = n + k
    OBVIOUS
  <2>8. \A o, j : InNic(s[k], o, j)' <=> o = p /\ j = i
    BY <2>3, <2>7
  <2>9. OnlyAt(s[k], "nic", 0, p, i)'
    BY ONLY <2>2, <2>4, <2>5, <2>8, NowInNic
  <2> QED
    BY <2>6, <2>9, OnlyThere
<1>14. ASSUME NEW k \in sent + 1 .. Len(s)
       PROVE  s[k] \in setup.mbufs /\ Placed(s[k])'
  <2>1. k \in 1 .. Len(s)
    OBVIOUS
  <2>2. s[k] \in pool'
    BY <1>3, <1>5, <2>1
  <2>3. \A o, j : ~InNic(s[k], o, j)'
    <3>1. ASSUME NEW l \in 1 .. sent
          PROVE  s[l] # s[k]
      <4>1. l \in 1 .. Len(s) /\ l # k
        OBVIOUS
      <4> QED
        BY <1>1, <2>1, <4>1
    <3>2. \A o, j : ~InNic(s[k], o, j)
      BY <1>1, <2>1
    <3>3. \A o, j : o # p => ~InNic(s[k], o, j)'
      BY <1>6, <3>2
    <3>4. \A j : ~InNic(s[k], p, j)'
      BY <1>6, <3>1, <3>2
    <3> QED
      BY <3>3, <3>4
  <2>4. \A r, o, j : ~InBurst(s[k], r, o, j)'
    BY <1>9, <2>1
  <2>5. \A u : ~Received(s[k], u)' /\ ~Handled(s[k], u)'
    BY <1>9, <2>1
  <2> QED
    BY <1>1, <2>1, <2>2, <2>3, <2>4, <2>5, NowInPool
<1>15. ASSUME NEW b \in Mbuf, \A k \in 1 .. Len(s) : b # s[k]
       PROVE  Stays(b)
  <2>1. b \in pool' <=> b \in pool
    BY <1>4, <1>5, <1>15
  <2>2. \A o, j : InNic(b, o, j)' <=> InNic(b, o, j)
    BY <1>6, <1>15
  <2>3. \A r, o, j : InBurst(b, r, o, j)' <=> InBurst(b, r, o, j)
    <3>1. \A j : ~InBurst(b, q, p, j)
      BY <1>1, <1>15
    <3> QED
      BY <1>7, <3>1
  <2>4. \A u : (Received(b, u)' <=> Received(b, u)) /\ (Handled(b, u)' <=> Handled(b, u))
    BY <1>1, <1>8, <1>15
  <2> QED
    BY <2>1, <2>2, <2>3, <2>4, NowSame
<1>16. \A b \in Mbuf : Stays(b) \/ (b \in setup.mbufs /\ Placed(b)')
  <2>1. \A k \in 1 .. Len(s) : k \in 1 .. sent \/ k \in sent + 1 .. Len(s)
    OBVIOUS
  <2> QED
    BY <1>13, <1>14, <1>15, <2>1
<1>17. \A b \in Mbuf : refcnt'[b] = IF b \in pool' /\ b \in pool THEN refcnt[b]
                                    ELSE IF b \in pool' THEN 0
                                    ELSE IF b \in pool THEN 1
                                    ELSE refcnt[b]
  <2>1. \A b \in pool : b \notin B
    BY <1>1, <1>4
  <2> QED
    BY <1>5, <2>1
<1> QED
  BY <1>16, <1>17, PlacesNext

-----------------------------------------------------------------------------
(* What each action moves                                                  *)

LEMMA SetLenDoes ==
    ASSUME TypeOK, NEW q \in Lcore, NEW p \in Port, NEW n, SetLen(q, p, n)
    PROVE  /\ len'[q][p] = n
           /\ \A r \in Lcore, o \in Port : r # q \/ o # p =>
                 len'[r][o] = len[r][o] /\ m_table'[r][o] = m_table[r][o]
           /\ \A r \in Lcore \ {q} : len'[r] = len[r] /\ m_table'[r] = m_table[r]
           /\ n # 0 => m_table' = m_table
<1>1. /\ len \in [Lcore -> [Port -> 0 .. MAX_PKT_BURST - 1]]
      /\ m_table \in [Lcore -> [Port -> [1 .. MAX_PKT_BURST -> Mbuf \cup {NONE}]]]
  BY DEF TypeOK
<1>2. len' = [len EXCEPT ![q][p] = n]
  BY DEF SetLen
<1>3. /\ len'[q][p] = n
      /\ \A r \in Lcore, o \in Port : r # q \/ o # p => len'[r][o] = len[r][o]
      /\ \A r \in Lcore \ {q} : len'[r] = len[r]
  BY <1>1, <1>2
<1>4. CASE m_table' = m_table
  BY <1>3, <1>4
<1>5. CASE n = 0 /\ m_table' = [m_table EXCEPT ![q][p] = [i \in 1 .. MAX_PKT_BURST |-> NONE]]
  <2>1. /\ \A r \in Lcore, o \in Port : r # q \/ o # p => m_table'[r][o] = m_table[r][o]
        /\ \A r \in Lcore \ {q} : m_table'[r] = m_table[r]
    BY <1>1, <1>5
  <2> QED
    BY <1>3, <1>5, <2>1
<1> QED
  BY <1>4, <1>5 DEF SetLen

\* A step of the polling loop that neither sends nor receives.
LEMMA LoopMoves ==
    ASSUME SimpleInv, NEW t \in Lcore, pc[t] \in {"loop", "drain", "reset"},
           UNCHANGED <<setup, pool, refcnt, in_port, age, nic, pkts, m, port, num, flood>>,
           pc'[t] \in {"drain", "rx"},
           \A u \in Thread \ {t} : pc'[u] = pc[u] /\ rest'[u] = rest[u],
           \A r \in Lcore, o \in Port : r # t \/ ~Sent(t, t, o) =>
               len'[r][o] = len[r][o] /\ m_table'[r][o] = m_table[r][o],
           \A o \in Port : Sent(t, t, o) => len'[t][o] = 0,
           \A r \in Lcore \ {t} : len'[r] = len[r] /\ m_table'[r] = m_table[r]
    PROVE  CallInv' /\ NothingMoves
<1>1. t \in Thread /\ Queue(t) = t /\ t # ANY /\ pc[t] # "idle"
  BY DEF Queue
<1>2. CallOK(t)'
  BY DEF SimpleInv, CallInv, CallOK
<1>3. CallInv'
  <2>1. \A r \in Lcore \ {Queue(t)} : len'[r] = len[r] /\ m_table'[r] = m_table[r]
    BY <1>1
  <2> QED
    BY <1>1, <1>2, <2>1, CallKept
<1>4. TypeInv /\ Exclusive
  BY DEF SimpleInv, Simple
<1>5. \A o \in Port : ~Sent(t, t, o)'
  BY DEF Sent
<1>6. \A o \in Port :
         /\ WaitLen(t, o) = IF Sent(t, t, o) THEN 0 ELSE len[t][o]
         /\ WaitLen(t, o)' = len'[t][o]
         /\ \A r \in Lcore \ {t} : WaitLen(r, o)' = WaitLen(r, o)
  <2>1. \A o \in Port :
           /\ WaitLen(Queue(t), o) = IF Sent(t, Queue(t), o) THEN 0 ELSE len[Queue(t)][o]
           /\ WaitLen(Queue(t), o)' = IF Sent(t, Queue(t), o)' THEN 0 ELSE len'[Queue(t)][o]
           /\ \A r \in Lcore \ {Queue(t)} : WaitLen(r, o)' = WaitLen(r, o)
    <3>1. \A r \in Lcore \ {Queue(t)} : len'[r] = len[r]
      BY <1>1
    <3> QED
      BY <1>1, <1>4, <3>1, WaitChanges
  <2>2. Queue(t)' = t
    BY <1>1 DEF Queue
  <2> QED
    BY <1>1, <1>5, <2>1, <2>2
<1>7. ASSUME NEW q \in Lcore, NEW p \in Port
      PROVE  /\ WaitLen(q, p)' = WaitLen(q, p)
             /\ \A i \in 1 .. WaitLen(q, p) : m_table'[q][p][i] = m_table[q][p][i]
  <2>1. CASE q = t /\ Sent(t, t, p)
    BY <1>6, <2>1
  <2>2. CASE q # t \/ ~Sent(t, t, p)
    BY <1>6, <2>2
  <2> QED
    BY <2>1, <2>2
<1>8. \A u \in Thread : Hand(u)' <=> Hand(u)
  BY DEF Hand
<1>9. NothingMoves
  BY <1>7, <1>8, Quiet
<1> QED
  BY <1>3, <1>9

LEMMA TopMoves ==
    ASSUME SimpleInv, NEW t \in Lcore, Top(t)
    PROVE  CallInv' /\ NothingMoves
<1>1. /\ pc[t] = "loop"
      /\ \/ Goto(t, "drain") /\ rest' = [rest EXCEPT ![t] = setup.ports]
         \/ Goto(t, "rx") /\ rest' = [rest EXCEPT ![t] = rx_port_list[t]]
      /\ UNCHANGED <<setup, pool, refcnt, in_port, age, len, m_table, nic, pkts>>
      /\ UNCHANGED <<m, port, num, flood>>
  BY DEF Top, bufs, queues, call
<1>2. rest \in [Thread -> SUBSET Port] /\ TypeOK
  BY DEF SimpleInv, TypeInv, TypeOK
<1>3. pc'[t] \in {"drain", "rx"} /\ \A u \in Thread \ {t} : pc'[u] = pc[u]
  BY <1>1, <1>2, GotoDoes DEF Label
<1>4. \A u \in Thread \ {t} : rest'[u] = rest[u]
  BY <1>1, <1>2
<1>5. \A o \in Port : ~Sent(t, t, o)
  BY <1>1 DEF Sent
<1> QED
  BY <1>1, <1>3, <1>4, <1>5, LoopMoves

LEMMA DrainSkipMoves ==
    ASSUME SimpleInv, NEW t \in Lcore, DrainSkip(t)
    PROVE  CallInv' /\ NothingMoves
<1>1. /\ pc[t] = "drain" /\ DrainNext(t)
      /\ UNCHANGED <<setup, pool, refcnt, in_port, age, len, m_table, nic, due, pkts>>
      /\ UNCHANGED <<m, port, num, flood>>
  BY DEF DrainSkip, bufs, queues, call
<1>2. /\ pc'[t] \in {"drain", "rx"}
      /\ \A u \in Thread \ {t} : pc'[u] = pc[u] /\ rest'[u] = rest[u]
  BY <1>1, DrainNextDoes DEF SimpleInv
<1>3. \A o \in Port : ~Sent(t, t, o)
  BY <1>1 DEF Sent
<1> QED
  BY <1>1, <1>2, <1>3, LoopMoves

LEMMA DrainResetMoves ==
    ASSUME SimpleInv, NEW t \in Lcore, DrainReset(t)
    PROVE  CallInv' /\ NothingMoves
<1> DEFINE p == Min(rest[t])
<1>1. /\ pc[t] = "reset" /\ SetLen(t, p, 0) /\ DrainNext(t)
      /\ UNCHANGED <<setup, pool, refcnt, in_port, age, nic, due, pkts, m, port, num, flood>>
  BY DEF DrainReset, bufs, call
<1>2. p \in Port
  <2>1. rest[t] \subseteq Port /\ rest[t] # {}
    BY <1>1 DEF SimpleInv, TypeInv, TypeOK, Threads, ThreadOK
  <2> QED
    BY <2>1, NextPort
<1>3. \A o \in Port : Sent(t, t, o) <=> o = p
  BY <1>1 DEF Sent, Queue
<1> HIDE DEF p
<1>4. /\ len'[t][p] = 0
      /\ \A r \in Lcore, o \in Port : r # t \/ o # p =>
            len'[r][o] = len[r][o] /\ m_table'[r][o] = m_table[r][o]
      /\ \A r \in Lcore \ {t} : len'[r] = len[r] /\ m_table'[r] = m_table[r]
  BY <1>1, <1>2, SetLenDoes DEF SimpleInv, TypeInv
<1>5. /\ pc'[t] \in {"drain", "rx"}
      /\ \A u \in Thread \ {t} : pc'[u] = pc[u] /\ rest'[u] = rest[u]
  BY <1>1, DrainNextDoes DEF SimpleInv
<1> QED
  BY <1>1, <1>3, <1>4, <1>5, LoopMoves

LEMMA TickMoves ==
    ASSUME SimpleInv, NEW t \in Lcore, Tick(t)
    PROVE  CallInv' /\ NothingMoves
<1>1. /\ UNCHANGED <<setup, pool, refcnt, in_port, age, len, m_table, nic, pc, rest, pkts>>
      /\ UNCHANGED <<m, port, num, flood>>
  BY DEF Tick, bufs, queues, call
<1>2. CallInv'
  BY <1>1 DEF SimpleInv, CallInv, CallOK, Queue
<1>3. \A q \in Lcore, p \in Port : WaitLen(q, p)' = WaitLen(q, p)
  BY <1>1 DEF WaitLen, Sent, Queue
<1>4. \A u \in Thread : Hand(u)' <=> Hand(u)
  BY <1>1 DEF Hand
<1>5. NothingMoves
  BY <1>1, <1>3, <1>4, Quiet
<1> QED
  BY <1>2, <1>5

\* What t's step in send_packet changes for the others: nothing.
LEMMA PutMoves ==
    ASSUME SimpleInv, NEW t \in Thread, Put(t)
    PROVE  /\ CallInv'
           /\ \/ NothingMoves
              \/ \E q \in Lcore, p \in Port, s \in Seq(Mbuf) :
                    \E sent \in 0 .. Len(s), n \in Nat :
                       UNCHANGED setup /\ q = Queue(t) /\ Sends(t, q, p, s, sent, n)
<1>0. PICK q \in Lcore, p \in Port, n \in 1 .. MAX_PKT_BURST,
           table \in [1 .. MAX_PKT_BURST -> Mbuf \cup {NONE}] : PutStep(t, q, p, n, table)
  BY PutDoes DEF SimpleInv
<1>1. /\ pc[t] = "put" /\ q = Queue(t) /\ p = port[t] /\ n = num[t] + 1 /\ m[t] \in Mbuf
      /\ \A i \in 1 .. n : table[i] \in Mbuf
      /\ IF n = MAX_PKT_BURST THEN SendBurst(p, table)
         ELSE UNCHANGED <<pool, refcnt, in_port, age, nic>>
      /\ Goto(t, "write")
      /\ UNCHANGED <<setup, len, due, rest, pkts, m, port, flood>>
  BY <1>0 DEF PutStep
<1>2. /\ table[n] = m[t]
      /\ \A i \in 1 .. MAX_PKT_BURST : i # n => table[i] = m_table[q][p][i]
      /\ m_table' = [m_table EXCEPT ![q][p] = table]
  BY <1>0 DEF PutStep
<1>3. /\ num' = [num EXCEPT ![t] = IF n = MAX_PKT_BURST THEN 0 ELSE n]
      /\ Hand(t)' <=> n # MAX_PKT_BURST
      /\ num'[t] = IF n = MAX_PKT_BURST THEN 0 ELSE n
      /\ pc'[t] = "write"
      /\ \A u \in Thread \ {t} : num'[u] = num[u] /\ pc'[u] = pc[u]
  <2>1. num' = [num EXCEPT ![t] = IF n = MAX_PKT_BURST THEN 0 ELSE n]
    BY <1>0 DEF PutStep
  <2>2. num \in [Thread -> 0 .. MAX_PKT_BURST] /\ TypeOK
    BY DEF SimpleInv, TypeInv, TypeOK
  <2>3. pc'[t] = "write" /\ \A u \in Thread \ {t} : pc'[u] = pc[u]
    BY <1>1, <2>2, GotoDoes DEF Label, Working
  <2>4. num'[t] = (IF n = MAX_PKT_BURST THEN 0 ELSE n) /\ \A u \in Thread \ {t} : num'[u] = num[u]
    BY <2>1, <2>2
  <2> QED
    BY <2>1, <2>3, <2>4 DEF Hand
<1>4. /\ m_table'[q][p] = table
      /\ \A r \in Lcore, o \in Port : r # q \/ o # p => m_table'[r][o] = m_table[r][o]
      /\ \A r \in Lcore \ {q} : m_table'[r] = m_table[r]
  <2>1. m_table \in [Lcore -> [Port -> [1 .. MAX_PKT_BURST -> Mbuf \cup {NONE}]]]
    BY DEF SimpleInv, TypeInv, TypeOK
  <2> QED
    BY <1>2, <2>1
<1>5. num[t] = len[q][p] /\ n = len[q][p] + 1 /\ Hand(t)
  BY <1>1 DEF SimpleInv, CallInv, CallOK, Hand
<1>6. CallOK(t)'
  <2>1. Queue(t)' = q /\ port'[t] = p /\ m'[t] = m[t] /\ flood'[t] = flood[t] /\ len' = len
    BY <1>1 DEF Queue
  <2>2. num'[t] # 0 => num'[t] = len[q][p] + 1 /\ m_table'[q][p][num'[t]] = m[t]
    BY <1>2, <1>3, <1>4, <1>5
  <2>3. flood[t] = {}
    BY DEF SimpleInv, CallInv, CallOK
  <2> QED
    BY <1>3, <2>1, <2>2, <2>3 DEF CallOK
<1>7. CallInv'
  <2>1. pc[t] # "idle"
    BY <1>1
  <2>2. \A u \in Thread \ {t} :
           /\ pc'[u] = pc[u] /\ port'[u] = port[u] /\ num'[u] = num[u]
           /\ m'[u] = m[u] /\ flood'[u] = flood[u] /\ pkts'[u] = pkts[u]
    BY <1>1, <1>3
  <2>3. \A r \in Lcore \ {Queue(t)} : len'[r] = len[r] /\ m_table'[r] = m_table[r]
    BY <1>1, <1>4
  <2> QED
    BY <1>6, <2>1, <2>2, <2>3, CallKept
<1>8. /\ \A o \in Port : WaitLen(q, o) = len[q][o]
      /\ \A o \in Port : WaitLen(q, o)' = IF n = MAX_PKT_BURST /\ o = p THEN 0 ELSE len[q][o]
      /\ \A r \in Lcore \ {q}, o \in Port : WaitLen(r, o)' = WaitLen(r, o)
  <2>1. pc[t] # "idle" /\ TypeInv /\ Exclusive
    BY <1>1 DEF SimpleInv, Simple
  <2>2. \A u \in Thread \ {t} :
               pc'[u] = pc[u] /\ port'[u] = port[u] /\ num'[u] = num[u] /\ rest'[u] = rest[u]
    BY <1>1, <1>3
  <2>3. \A r \in Lcore \ {Queue(t)} : len'[r] = len[r]
    BY <1>1
  <2>4. \A o \in Port :
              /\ WaitLen(Queue(t), o)
                   = IF Sent(t, Queue(t), o) THEN 0 ELSE len[Queue(t)][o]
              /\ WaitLen(Queue(t), o)'
                   = IF Sent(t, Queue(t), o)' THEN 0 ELSE len'[Queue(t)][o]
              /\ \A r \in Lcore \ {Queue(t)} : WaitLen(r, o)' = WaitLen(r, o)
    BY <2>1, <2>2, <2>3, WaitChanges
  <2>5. \A o \in Port : ~Sent(t, q, o)
    BY <1>1 DEF Sent
  <2>6. \A o \in Port : Sent(t, q, o)' <=> n = MAX_PKT_BURST /\ o = p
    <3>1. Queue(t)' = q /\ port'[t] = p
      BY <1>1 DEF Queue
    <3> QED
      BY <1>3, <3>1 DEF Sent
  <2>7. Queue(t)' = q /\ Queue(t) = q /\ len' = len
    BY <1>1 DEF Queue
  <2> QED
    BY <2>4, <2>5, <2>6, <2>7
<1>9. CASE n # MAX_PKT_BURST
  <2>1. \A r \in Lcore, o \in Port :
           /\ WaitLen(r, o)' = WaitLen(r, o)
           /\ \A i \in 1 .. WaitLen(r, o) : m_table'[r][o][i] = m_table[r][o][i]
    <3>1. ASSUME NEW r \in Lcore, NEW o \in Port
          PROVE  WaitLen(r, o)' = WaitLen(r, o)
      BY <1>8, <1>9
    <3>2. \A i \in 1 .. WaitLen(q, p) : m_table'[q][p][i] = m_table[q][p][i]
      <4>1. \A i \in 1 .. len[q][p] : i \in 1 .. MAX_PKT_BURST /\ i # n
        <5>1. len \in [Lcore -> [Port -> 0 .. MAX_PKT_BURST - 1]]
          BY DEF SimpleInv, TypeInv, TypeOK
        <5>2. len[q][p] \in 0 .. MAX_PKT_BURST - 1
          BY <5>1
        <5> QED
          BY <1>5, <5>2
      <4> QED
        BY <1>2, <1>4, <1>8, <4>1
    <3>3. ASSUME NEW r \in Lcore, NEW o \in Port
          PROVE  \A i \in 1 .. WaitLen(r, o) : m_table'[r][o][i] = m_table[r][o][i]
      BY <1>4, <3>2
    <3> QED
      BY <3>1, <3>3
  <2>2. \A u \in Thread : (Hand(u)' <=> Hand(u)) /\ m'[u] = m[u]
    BY <1>1, <1>3, <1>5, <1>9 DEF Hand
  <2>3. NothingMoves
    BY <1>1, <1>9, <2>1, <2>2, Quiet
  <2> QED
    BY <1>7, <2>3
<1>10. CASE n = MAX_PKT_BURST
  <2>1. table \in Seq(Mbuf) /\ Len(table) = MAX_PKT_BURST /\ SendBurst(p, table)
    BY <1>1, <1>10, FullTable
  <2>2. WaitLen(q, p) = len[q][p] /\ WaitLen(q, p) \in Nat /\ n = WaitLen(q, p) + 1
    <3>1. len \in [Lcore -> [Port -> 0 .. MAX_PKT_BURST - 1]]
      BY DEF SimpleInv, TypeInv, TypeOK
    <3>2. len[q][p] \in Nat
      BY <3>1
    <3> QED
      BY <1>5, <1>8, <3>2
  <2>3. BurstOf(table, t, q, p)
    <3>1. \A i \in 1 .. WaitLen(q, p) : table[i] = m_table[q][p][i]
      <4>1. \A i \in 1 .. WaitLen(q, p) : i \in 1 .. MAX_PKT_BURST /\ i # n
        BY <2>2
      <4> QED
        BY <1>2, <4>1
    <3> QED
      BY <1>2, <1>5, <1>10, <2>1, <2>2, <3>1 DEF BurstOf
  <2>4. WaitLen(q, p)' = 0
    BY <1>8, <1>10
  <2>5. \A r \in Lcore, o \in Port :
           r # q \/ o # p => WaitLen(r, o)' = WaitLen(r, o) /\ m_table'[r][o] = m_table[r][o]
    BY <1>4, <1>8
  <2>6. ~Hand(t)' /\ \A u \in Thread \ {t} : Hand(u)' <=> Hand(u)
    BY <1>3, <1>10 DEF Hand
  <2>7. UNCHANGED <<setup, pkts, m>>
    BY <1>1
  <2>8. \E sent \in 0 .. Len(table), k \in Nat : Sends(t, q, p, table, sent, k)
    BY <2>1, <2>2, <2>3, <2>4, <2>5, <2>6, <2>7, SendMoves
  <2> QED
    BY <1>1, <1>7, <2>1, <2>7, <2>8
<1> QED
  BY <1>9, <1>10

LEMMA DrainSendMoves ==
    ASSUME SimpleInv, NEW t \in Lcore, DrainSend(t)
    PROVE  /\ CallInv'
           /\ \E p \in Port, s \in Seq(Mbuf) : \E sent \in 0 .. Len(s), n \in Nat :
                 UNCHANGED setup /\ Sends(t, t, p, s, sent, n)
<1>1. /\ pc[t] = "drain" /\ Goto(t, "reset")
      /\ UNCHANGED <<setup, len, m_table, due, rest, pkts, m, port, num, flood>>
  BY DEF DrainSend, queues, loop, call
<1>2. PICK p \in Port : p = Min(rest[t])
  <2>1. rest[t] \subseteq Port /\ rest[t] # {}
    BY <1>1 DEF SimpleInv, TypeInv, TypeOK, Threads, ThreadOK
  <2> QED
    BY <2>1, NextPort
<1> DEFINE s == SubSeq(m_table[t][p], 1, len[t][p])
<1>3. SendBurst(p, s)
  BY <1>2 DEF DrainSend
<1>4. len[t][p] \in Nat /\ s \in Seq(Mbuf) /\ Len(s) = len[t][p]
      /\ \A i \in 1 .. len[t][p] : s[i] = m_table[t][p][i]
  <2>1. /\ m_table \in [Lcore -> [Port -> [1 .. MAX_PKT_BURST -> Mbuf \cup {NONE}]]]
        /\ len \in [Lcore -> [Port -> 0 .. MAX_PKT_BURST - 1]]
    BY DEF SimpleInv, TypeInv, TypeOK
  <2>2. m_table[t][p] \in [1 .. MAX_PKT_BURST -> Mbuf \cup {NONE}] /\ len[t][p] \in 0 .. MAX_PKT_BURST - 1
    BY ONLY <2>1, t \in Lcore, p \in Port
  <2>3. len[t][p] \in 0 .. MAX_PKT_BURST
    BY <2>2
  <2>4. \A i \in 1 .. len[t][p] : m_table[t][p][i] \in Mbuf
    BY DEF SimpleInv, TypeInv, Filled, FilledTo
  <2> QED
    BY <2>2, <2>3, <2>4, FilledPart
<1>5. pc'[t] = "reset" /\ \A u \in Thread \ {t} : pc'[u] = pc[u]
  <2>1. TypeOK /\ t \in Thread
    BY DEF SimpleInv, TypeInv
  <2> QED
    BY <1>1, <2>1, GotoDoes DEF Label
<1>6. CallInv'
  <2>1. CallOK(t)'
    BY <1>1, <1>5 DEF SimpleInv, CallInv, CallOK
  <2> QED
    BY <1>1, <1>5, <2>1, CallKept
<1>7. /\ \A o \in Port : WaitLen(t, o) = len[t][o]
      /\ \A o \in Port : WaitLen(t, o)' = IF o = p THEN 0 ELSE len[t][o]
      /\ \A r \in Lcore \ {t}, o \in Port : WaitLen(r, o)' = WaitLen(r, o)
  <2>1. pc[t] # "idle" /\ TypeInv /\ Exclusive /\ t \in Thread /\ Queue(t) = t
    BY <1>1 DEF SimpleInv, Simple, Queue
  <2>2. \A u \in Thread \ {t} :
               pc'[u] = pc[u] /\ port'[u] = port[u] /\ num'[u] = num[u] /\ rest'[u] = rest[u]
    BY <1>1, <1>5
  <2>3. \A r \in Lcore \ {Queue(t)} : len'[r] = len[r]
    BY <1>1
  <2>4. \A o \in Port :
              /\ WaitLen(Queue(t), o)
                   = IF Sent(t, Queue(t), o) THEN 0 ELSE len[Queue(t)][o]
              /\ WaitLen(Queue(t), o)'
                   = IF Sent(t, Queue(t), o)' THEN 0 ELSE len'[Queue(t)][o]
              /\ \A r \in Lcore \ {Queue(t)} : WaitLen(r, o)' = WaitLen(r, o)
    BY <2>1, <2>2, <2>3, WaitChanges
  <2>5. \A o \in Port : ~Sent(t, t, o)
    BY <1>1 DEF Sent
  <2>6. \A o \in Port : Sent(t, t, o)' <=> o = p
    <3>1. Queue(t)' = t /\ Min(rest[t])' = p
      BY <1>1, <1>2 DEF Queue
    <3> QED
      BY <1>5, <3>1 DEF Sent
  <2>7. Queue(t)' = t /\ len' = len
    BY <1>1 DEF Queue
  <2> QED
    BY <2>1, <2>4, <2>5, <2>6, <2>7
<1>8. PICK a \in Seq(Mbuf) : a = s
  BY <1>4
<1> HIDE DEF s
<1>9. BurstOf(a, t, t, p) /\ WaitLen(t, p) \in Nat
  <2>1. ~Hand(t)
    BY <1>1 DEF Hand
  <2> QED
    BY <1>4, <1>7, <1>8, <2>1 DEF BurstOf
<1>10. \E sent \in 0 .. Len(a), k \in Nat : Sends(t, t, p, a, sent, k)
  <2>1. WaitLen(t, p)' = 0
    BY <1>7
  <2>2. \A r \in Lcore, o \in Port :
           r # t \/ o # p => WaitLen(r, o)' = WaitLen(r, o) /\ m_table'[r][o] = m_table[r][o]
    BY <1>1, <1>7
  <2>3. ~Hand(t)' /\ \A u \in Thread \ {t} : Hand(u)' <=> Hand(u)
    BY <1>1, <1>5 DEF Hand
  <2>4. UNCHANGED <<setup, pkts, m>> /\ SendBurst(p, a) /\ t \in Thread
    BY <1>1, <1>3, <1>8
  <2> QED
    BY <1>9, <2>1, <2>2, <2>3, <2>4, SendMoves
<1> QED
  BY <1>1, <1>6, <1>10

\* The buffer that t had is the n-th of burst q for port p.
Stores(t, q, p, n) ==
    /\ UNCHANGED <<setup, pool, refcnt, in_port, age>>
    /\ m[t] \in Mbuf /\ Handled(m[t], t)
    /\ \A b, o, j : InNic(b, o, j)' <=> InNic(b, o, j)
    /\ \A b, r, o, j : InBurst(b, r, o, j)' <=>
          InBurst(b, r, o, j) \/ (b = m[t] /\ r = q /\ o = p /\ j = n)
    /\ \A b, j : InBurst(b, q, p, j) => j \in 1 .. n - 1
    /\ \A b, u : /\ Received(b, u)' <=> Received(b, u)
                 /\ Handled(b, u)' <=> Handled(b, u) /\ u # t

LEMMA WriteMoves ==
    ASSUME SimpleInv, NEW t \in Thread, Write(t)
    PROVE  /\ CallInv'
           /\ \/ NothingMoves
              \/ \E q \in Lcore, p \in Port, n \in Nat : q = Queue(t) /\ Stores(t, q, p, n)
<1>1. PICK q \in Lcore, p \in Port, n \in 0 .. MAX_PKT_BURST - 1 :
         q = Queue(t) /\ p = port[t] /\ n = num[t]
  <2>1. pc[t] = "write" /\ ThreadOK(t)
    BY DEF Write, SimpleInv, TypeInv, Threads
  <2>2. port \in [Thread -> Port] /\ num \in [Thread -> 0 .. MAX_PKT_BURST]
    BY DEF SimpleInv, TypeInv, TypeOK
  <2>3. port[t] \in Port /\ num[t] \in 0 .. MAX_PKT_BURST - 1
    BY <2>1, <2>2 DEF ThreadOK
  <2> QED
    BY <2>3, QueueOf
<1>2. /\ pc[t] = "write" /\ SetLen(q, p, n) /\ Return(t) /\ m[t] \in Mbuf /\ flood[t] = {}
      /\ UNCHANGED <<setup, pool, refcnt, in_port, age, nic, due, rest, pkts>>
  <2>1. flood[t] = {}
    BY DEF SimpleInv, CallInv, CallOK
  <2>2. pc[t] = "write" /\ SetLen(q, p, n) /\ Return(t)
    BY <1>1, <2>1 DEF Write
  <2>3. UNCHANGED <<setup, pool, refcnt, in_port, age, nic, due, rest, pkts>>
    BY DEF Write, bufs, loop
  <2>4. m[t] \in Mbuf
    BY <2>2 DEF SimpleInv, TypeInv, Threads, ThreadOK, Working
  <2> QED
    BY <2>1, <2>2, <2>3, <2>4
<1>3. /\ pc'[t] \in {"idle", "pkts", "rx", "loop"} /\ (pc'[t] \in {"rx", "loop"} => pkts[t] = {})
      /\ flood' = flood
      /\ \A u \in Thread \ {t} :
            pc'[u] = pc[u] /\ m'[u] = m[u] /\ num'[u] = num[u] /\ port'[u] = port[u]
  <2>1. TypeInv /\ TypeOK /\ pc[t] \in Working /\ UNCHANGED <<setup, rest>>
    BY <1>2 DEF SimpleInv, TypeInv, Working
  <2>2. /\ flood' = flood
        /\ \A u \in Thread \ {t} :
              pc'[u] = pc[u] /\ m'[u] = m[u] /\ num'[u] = num[u] /\ port'[u] = port[u]
    BY <1>2, <2>1, ReturnDoes
  <2>3. PICK l \in Label : Goto(t, l) /\ l \in {"idle", "pkts", "rx", "loop"}
                           /\ (l \in {"rx", "loop"} => pkts[t] = {})
    BY <1>2 DEF Return, AfterPacket, Label
  <2>4. pc'[t] = l
    BY <2>1, <2>3, GotoDoes
  <2> QED
    BY <2>2, <2>3, <2>4
<1>4. /\ len'[q][p] = n
      /\ \A r \in Lcore, o \in Port : r # q \/ o # p =>
            len'[r][o] = len[r][o] /\ m_table'[r][o] = m_table[r][o]
      /\ \A r \in Lcore \ {q} : len'[r] = len[r] /\ m_table'[r] = m_table[r]
      /\ n # 0 => m_table' = m_table
  BY <1>2, SetLenDoes DEF SimpleInv, TypeInv
<1>5. CallInv'
  <2>1. CallOK(t)'
    BY <1>2, <1>3 DEF CallOK
  <2>2. \A r \in Lcore \ {Queue(t)} : len'[r] = len[r] /\ m_table'[r] = m_table[r]
    BY <1>1, <1>4
  <2> QED
    BY <1>2, <1>3, <2>1, <2>2, CallKept
<1>6. /\ \A o \in Port : WaitLen(q, o) = IF n = 0 /\ o = p THEN 0 ELSE len[q][o]
      /\ \A o \in Port : WaitLen(q, o)' = len'[q][o]
      /\ \A r \in Lcore \ {q}, o \in Port : WaitLen(r, o)' = WaitLen(r, o)
  <2>1. pc[t] # "idle" /\ TypeInv /\ Exclusive
    BY <1>2 DEF SimpleInv, Simple
  <2>2. \A u \in Thread \ {t} :
               pc'[u] = pc[u] /\ port'[u] = port[u] /\ num'[u] = num[u] /\ rest'[u] = rest[u]
    BY <1>2, <1>3
  <2>3. \A r \in Lcore \ {Queue(t)} : len'[r] = len[r]
    BY <1>1, <1>4
  <2>4. \A o \in Port :
              /\ WaitLen(Queue(t), o)
                   = IF Sent(t, Queue(t), o) THEN 0 ELSE len[Queue(t)][o]
              /\ WaitLen(Queue(t), o)'
                   = IF Sent(t, Queue(t), o)' THEN 0 ELSE len'[Queue(t)][o]
              /\ \A r \in Lcore \ {Queue(t)} : WaitLen(r, o)' = WaitLen(r, o)
    BY <2>1, <2>2, <2>3, WaitChanges
  <2>5. \A o \in Port : Sent(t, q, o) <=> n = 0 /\ o = p
    BY <1>1, <1>2 DEF Sent
  <2>6. \A o \in Port : ~Sent(t, q, o)'
    BY <1>3 DEF Sent
  <2>7. Queue(t)' = q /\ Queue(t) = q
    BY <1>1 DEF Queue
  <2> QED
    BY <2>4, <2>5, <2>6, <2>7
<1>7. ~Hand(t)' /\ \A u \in Thread \ {t} : Hand(u)' <=> Hand(u)
  BY <1>3 DEF Hand
<1>8. CASE n = 0
  <2>1. ~Hand(t)
    BY <1>1, <1>2, <1>8 DEF Hand
  <2>2. ASSUME NEW r \in Lcore, NEW o \in Port
        PROVE  /\ WaitLen(r, o)' = WaitLen(r, o)
               /\ \A i \in 1 .. WaitLen(r, o) : m_table'[r][o][i] = m_table[r][o][i]
    <3>1. CASE r = q /\ o = p
      BY <1>4, <1>6, <1>8, <3>1
    <3>2. CASE r # q \/ o # p
      BY <1>4, <1>6, <3>2
    <3> QED
      BY <3>1, <3>2
  <2>3. \A u \in Thread : (Hand(u)' <=> Hand(u)) /\ (Hand(u) => m'[u] = m[u])
    BY <1>3, <1>7, <2>1
  <2>4. NothingMoves
    BY <1>2, <2>2, <2>3, Quiet
  <2> QED
    BY <1>5, <2>4
<1>9. CASE n # 0
  <2>1. Handled(m[t], t) /\ \A b : Handled(b, t) => b = m[t]
    BY <1>1, <1>2, <1>9 DEF Handled, Hand
  <2>2. n = len[q][p] + 1 /\ m_table[q][p][n] = m[t]
    BY <1>1, <1>2, <1>9 DEF SimpleInv, CallInv, CallOK
  <2>3. len[q][p] \in Nat
    <3>1. len \in [Lcore -> [Port -> 0 .. MAX_PKT_BURST - 1]]
      BY DEF SimpleInv, TypeInv, TypeOK
    <3> QED
      BY <3>1
  <2>4. m_table' = m_table
    BY <1>4, <1>9
  <2>5. ASSUME NEW r \in Lcore, NEW o \in Port, r # q \/ o # p
        PROVE  WaitLen(r, o)' = WaitLen(r, o)
    <3>1. CASE r # q
      BY <1>6, <3>1
    <3>2. CASE r = q
      BY <1>4, <1>6, <2>5, <3>2
    <3> QED
      BY <3>1, <3>2
  <2>6. WaitLen(q, p) = len[q][p] /\ WaitLen(q, p)' = n
    BY <1>4, <1>6, <1>9
  <2>7. \A j : j \in 1 .. n <=> j \in 1 .. len[q][p] \/ j = n
    BY <2>2, <2>3
  <2>8. \A b, r, o, j : InBurst(b, r, o, j)' <=>
           InBurst(b, r, o, j) \/ (b = m[t] /\ r = q /\ o = p /\ j = n)
    <3>1. \A b, j : InBurst(b, q, p, j)' <=> InBurst(b, q, p, j) \/ (b = m[t] /\ j = n)
      BY <2>2, <2>4, <2>6, <2>7 DEF InBurst
    <3>2. \A b, r, o, j : r # q \/ o # p => (InBurst(b, r, o, j)' <=> InBurst(b, r, o, j))
      BY <2>4, <2>5 DEF InBurst
    <3> QED
      BY <3>1, <3>2
  <2>9. \A b, j : InBurst(b, q, p, j) => j \in 1 .. n - 1
    BY <2>2, <2>3, <2>6 DEF InBurst
  <2>10. \A b, o, j : InNic(b, o, j)' <=> InNic(b, o, j)
    BY <1>2 DEF InNic
  <2>11. \A b, u : /\ Received(b, u)' <=> Received(b, u)
                   /\ Handled(b, u)' <=> Handled(b, u) /\ u # t
    BY <1>2, <1>3, <1>7 DEF Received, Handled
  <2>12. Stores(t, q, p, n)
    BY <1>2, <2>1, <2>8, <2>9, <2>10, <2>11 DEF Stores
  <2> QED
    BY <1>1, <1>5, <2>12
<1> QED
  BY <1>8, <1>9

\* Lcore t receives a batch of buffers.
Receives(t, batch) ==
    /\ UNCHANGED <<setup, age>>
    /\ pc[t] = "rx"
    /\ pool' = pool \ batch
    /\ refcnt' = [b \in Mbuf |-> IF b \in batch THEN 1 ELSE refcnt[b]]
    /\ in_port' = [b \in Mbuf |-> IF b \in batch THEN Min(rest[t]) ELSE in_port[b]]
    /\ \A b, p, i : InNic(b, p, i)' <=> InNic(b, p, i)
    /\ \A b, q, p, i : InBurst(b, q, p, i)' <=> InBurst(b, q, p, i)
    /\ \A b, u : Received(b, u)' <=> Received(b, u) \/ (b \in batch /\ u = t)
    /\ \A b, u : Handled(b, u)' <=> Handled(b, u)

\* A buffer that lcore t received is the one it has.
Forwards(t, b) ==
    /\ UNCHANGED <<setup, pool, refcnt, in_port>>
    /\ age' = age \cup {<<c, b>> : c \in Forwarded \cup {b}}
    /\ Received(b, t) /\ \A c : ~Handled(c, t)
    /\ \A c, p, i : InNic(c, p, i)' <=> InNic(c, p, i)
    /\ \A c, q, p, i : InBurst(c, q, p, i)' <=> InBurst(c, q, p, i)
    /\ \A c, u : Received(c, u)' <=> Received(c, u) /\ ~(c = b /\ u = t)
    /\ \A c, u : Handled(c, u)' <=> Handled(c, u) \/ (c = b /\ u = t)

\* The agent's thread takes a buffer from the pool.
Takes(b, i) ==
    /\ UNCHANGED <<setup, age>>
    /\ pool' = pool \ {b}
    /\ refcnt' = [c \in Mbuf |-> IF c = b THEN 1 ELSE refcnt[c]]
    /\ in_port' = [c \in Mbuf |-> IF c = b THEN i ELSE in_port[c]]
    /\ \A c, p, j : InNic(c, p, j)' <=> InNic(c, p, j)
    /\ \A c, q, p, j : InBurst(c, q, p, j)' <=> InBurst(c, q, p, j)
    /\ \A c, u : Received(c, u)' <=> Received(c, u)
    /\ \A c, u : Handled(c, u)' <=> Handled(c, u) \/ (c = b /\ u = ANY)

\* Lcore t frees a buffer it received.
Consumes(t, b) ==
    /\ UNCHANGED setup
    /\ Received(b, t)
    /\ Frees({b})
    /\ \A c, p, i : InNic(c, p, i)' <=> InNic(c, p, i)
    /\ \A c, q, p, i : InBurst(c, q, p, i)' <=> InBurst(c, q, p, i)
    /\ \A c, u : Received(c, u)' <=> Received(c, u) /\ ~(c = b /\ u = t)
    /\ \A c, u : Handled(c, u)' <=> Handled(c, u)

\* The driver frees the first buffer of its ring for port p.
Completes(p, b) ==
    /\ UNCHANGED setup
    /\ InNic(b, p, 1)
    /\ Frees({b})
    /\ \A c, o, i : o # p => (InNic(c, o, i)' <=> InNic(c, o, i))
    /\ \A c, i : InNic(c, p, i)' <=> i \in Nat \ {0} /\ InNic(c, p, i + 1)
    /\ \A c, i : InNic(c, p, i) => i \in Nat \ {0} /\ (i = 1 => c = b)
    /\ \A c, q, o, i : InBurst(c, q, o, i)' <=> InBurst(c, q, o, i)
    /\ \A c, u : Received(c, u)' <=> Received(c, u)
    /\ \A c, u : Handled(c, u)' <=> Handled(c, u)

LEMMA RxBurstMoves ==
    ASSUME SimpleInv, NEW t \in Lcore, RxBurst(t)
    PROVE  /\ CallInv'
           /\ \E batch \in SUBSET pool : Receives(t, batch)
<1>1. /\ pc[t] = "rx"
      /\ UNCHANGED <<setup, age, len, m_table, nic, due, m, port, num, flood>>
  BY DEF RxBurst, queues, call
<1>2. PICK batch \in SUBSET pool :
         /\ pkts' = [pkts EXCEPT ![t] = batch]
         /\ pool' = pool \ batch
         /\ refcnt' = [b \in Mbuf |-> IF b \in batch THEN 1 ELSE refcnt[b]]
         /\ in_port' = [b \in Mbuf |-> IF b \in batch THEN Min(rest[t]) ELSE in_port[b]]
         /\ rest' = [rest EXCEPT ![t] = @ \ {Min(@)}]
         /\ Goto(t, IF batch # {} THEN "pkts" ELSE IF rest'[t] # {} THEN "rx" ELSE "loop")
  BY DEF RxBurst
<1>3. /\ pkts \in [Thread -> SUBSET Mbuf] /\ TypeOK /\ rest \in [Thread -> SUBSET Port]
      /\ pkts[t] = {}
  BY <1>1 DEF SimpleInv, TypeInv, TypeOK, CallInv, CallOK
<1>4. /\ pc'[t] = IF batch # {} THEN "pkts" ELSE IF rest'[t] # {} THEN "rx" ELSE "loop"
      /\ \A u \in Thread \ {t} : pc'[u] = pc[u]
  <2>1. PICK l \in {"pkts", "rx", "loop"} :
           l = IF batch # {} THEN "pkts" ELSE IF rest'[t] # {} THEN "rx" ELSE "loop"
    OBVIOUS
  <2>2. Goto(t, l) /\ l \in Label /\ t \in Thread
    BY <1>2, <2>1 DEF Label
  <2> QED
    BY <1>3, <2>1, <2>2, GotoDoes
<1>5. pkts'[t] = batch /\ \A u \in Thread \ {t} : pkts'[u] = pkts[u] /\ rest'[u] = rest[u]
  BY <1>2, <1>3
<1>6. CallInv'
  <2>1. CallOK(t)'
    BY <1>1, <1>4, <1>5 DEF SimpleInv, CallInv, CallOK
  <2> QED
    BY <1>1, <1>4, <1>5, <2>1, CallKept
<1>7. \A r \in Lcore, o \in Port : WaitLen(r, o)' = WaitLen(r, o)
  <2>1. \A u \in Thread : \A r, o : Sent(u, r, o)' <=> Sent(u, r, o)
    BY <1>1, <1>4, <1>5 DEF Sent, Queue
  <2> QED
    BY <1>1, <2>1 DEF WaitLen
<1>8. \A b, p, i : InNic(b, p, i)' <=> InNic(b, p, i)
  BY <1>1 DEF InNic
<1>9. \A b, q, p, i : InBurst(b, q, p, i)' <=> InBurst(b, q, p, i)
  BY <1>1, <1>7 DEF InBurst
<1>10. \A b, u : Received(b, u)' <=> Received(b, u) \/ (b \in batch /\ u = t)
  BY <1>3, <1>5 DEF Received
<1>11. \A b, u : Handled(b, u)' <=> Handled(b, u)
  BY <1>1, <1>4 DEF Handled, Hand
<1>12. Receives(t, batch)
  BY <1>1, <1>2, <1>8, <1>9, <1>10, <1>11 DEF Receives
<1> QED
  BY <1>6, <1>12

\* Without FLOOD a buffer is for one port.
LEMMA DispatchMoves ==
    ASSUME SimpleInv, NEW t \in Thread, NEW b \in Mbuf, NEW v \in Verdict \cup {FLOOD},
           v \in setup.program \ {CONTROLLER, DROP} \/ v \in setup.agent,
           Dispatch(t, b, v), t = ANY \/ pc[t] # "idle", ~Hand(t),
           \A o \in Port : ~Sent(t, Queue(t), o),
           \A u \in Thread \ {t} : pkts'[u] = pkts[u],
           UNCHANGED <<setup, len, m_table, rest, num, nic>>
    PROVE  /\ CallInv'
           /\ \A c, p, i : InNic(c, p, i)' <=> InNic(c, p, i)
           /\ \A c, q, p, i : InBurst(c, q, p, i)' <=> InBurst(c, q, p, i)
           /\ \A c, u : Handled(c, u)' <=> Handled(c, u) \/ (c = b /\ u = t)
<1>1. v # FLOOD
  BY DEF SimpleInv, Simple, Floods
<1>2. m' = [m EXCEPT ![t] = b] /\ port' = [port EXCEPT ![t] = v] /\ Goto(t, "read") /\ flood' = flood
  BY <1>1 DEF Dispatch
<1>3. /\ m \in [Thread -> Mbuf \cup {NONE}] /\ port \in [Thread -> Port] /\ TypeOK
  BY DEF SimpleInv, TypeInv, TypeOK
<1>4. pc'[t] = "read" /\ \A u \in Thread \ {t} : pc'[u] = pc[u]
  BY <1>2, <1>3, GotoDoes DEF Label, Working
<1>5. m'[t] = b /\ \A u \in Thread \ {t} : m'[u] = m[u] /\ port'[u] = port[u]
  BY <1>2, <1>3
<1>6. CallInv'
  <2>1. CallOK(t)'
    BY <1>2, <1>4 DEF SimpleInv, CallInv, CallOK
  <2> QED
    BY <1>2, <1>4, <1>5, <2>1, CallKept
<1>7. \A r \in Lcore, o \in Port : WaitLen(r, o)' = WaitLen(r, o)
  <2>1. \A u \in Thread \ {t} : \A r, o : Sent(u, r, o)' <=> Sent(u, r, o)
    BY <1>4, <1>5 DEF Sent, Queue
  <2>2. \A r \in Lcore, o \in Port : ~Sent(t, r, o) /\ ~Sent(t, r, o)'
    BY <1>4 DEF Sent
  <2> QED
    BY <2>1, <2>2 DEF WaitLen
<1>8. \A c, p, i : InNic(c, p, i)' <=> InNic(c, p, i)
  BY DEF InNic
<1>9. \A c, q, p, i : InBurst(c, q, p, i)' <=> InBurst(c, q, p, i)
  BY <1>7 DEF InBurst
<1>10. \A c, u : Handled(c, u)' <=> Handled(c, u) \/ (c = b /\ u = t)
  BY <1>4, <1>5 DEF Handled, Hand
<1> QED
  BY <1>6, <1>8, <1>9, <1>10

LEMMA ForwardMoves ==
    ASSUME SimpleInv, NEW t \in Lcore, NEW b \in Mbuf, Forward(t, b)
    PROVE  CallInv' /\ Forwards(t, b)
<1>1. /\ pc[t] = "pkts" /\ b \in pkts[t]
      /\ pkts' = [pkts EXCEPT ![t] = @ \ {b}]
      /\ age' = IF Exclusive THEN age \cup {<<c, b>> : c \in Forwarded \cup {b}} ELSE age
      /\ UNCHANGED <<setup, pool, refcnt, in_port, len, m_table, nic, due, rest, num>>
  BY DEF Forward, queues
<1>2. PICK v \in setup.program \ {CONTROLLER, DROP} : Dispatch(t, b, v)
  BY DEF Forward
<1>3. v \in Verdict
  <2>1. setup \in Setups
    BY DEF SimpleInv, TypeInv, TypeOK
  <2> QED
    BY <2>1, SetupFacts
<1>4. pkts'[t] = pkts[t] \ {b} /\ \A u \in Thread \ {t} : pkts'[u] = pkts[u]
  <2>1. pkts \in [Thread -> SUBSET Mbuf]
    BY DEF SimpleInv, TypeInv, TypeOK
  <2> QED
    BY <1>1, <2>1
<1>5. ~Hand(t) /\ \A o \in Port : ~Sent(t, Queue(t), o)
  BY <1>1 DEF Hand, Sent
<1>6. /\ CallInv'
      /\ \A c, p, i : InNic(c, p, i)' <=> InNic(c, p, i)
      /\ \A c, q, p, i : InBurst(c, q, p, i)' <=> InBurst(c, q, p, i)
      /\ \A c, u : Handled(c, u)' <=> Handled(c, u) \/ (c = b /\ u = t)
  BY <1>1, <1>2, <1>3, <1>4, <1>5, DispatchMoves
<1>7. \A c, u : Received(c, u)' <=> Received(c, u) /\ ~(c = b /\ u = t)
  BY <1>4 DEF Received
<1>8. Received(b, t) /\ \A c : ~Handled(c, t)
  BY <1>1, <1>5 DEF Received, Handled
<1>9. age' = age \cup {<<c, b>> : c \in Forwarded \cup {b}}
  BY <1>1 DEF SimpleInv, Simple
<1>10. Forwards(t, b)
  BY <1>1, <1>6, <1>7, <1>8, <1>9 DEF Forwards
<1> QED
  BY <1>6, <1>10

LEMMA PacketOutMoves ==
    ASSUME SimpleInv, PacketOut
    PROVE  CallInv' /\ \E b \in pool, i \in Port : Takes(b, i)
<1>1. /\ pc[ANY] = "idle"
      /\ UNCHANGED <<setup, age, len, m_table, nic, due, rest, pkts, num>>
  BY DEF PacketOut, queues, loop
<1>2. PICK b \in pool, i \in setup.ports, v \in setup.agent :
          /\ pool' = pool \ {b}
          /\ refcnt' = [refcnt EXCEPT ![b] = 1]
          /\ in_port' = [in_port EXCEPT ![b] = i]
          /\ Dispatch(ANY, b, v)
  BY DEF PacketOut
<1>3. b \in Mbuf /\ i \in Port /\ v \in Verdict \cup {FLOOD}
  <2>1. setup \in Setups /\ pool \subseteq Mbuf
    BY DEF SimpleInv, TypeInv, TypeOK
  <2> QED
    BY <2>1, SetupFacts DEF Verdict
<1>4. ~Hand(ANY) /\ \A o \in Port : ~Sent(ANY, Queue(ANY), o)
  BY <1>1 DEF Hand, Sent
<1>5. /\ CallInv'
      /\ \A c, p, j : InNic(c, p, j)' <=> InNic(c, p, j)
      /\ \A c, q, p, j : InBurst(c, q, p, j)' <=> InBurst(c, q, p, j)
      /\ \A c, u : Handled(c, u)' <=> Handled(c, u) \/ (c = b /\ u = ANY)
  <2>1. ANY \in Thread /\ \A u \in Thread \ {ANY} : pkts'[u] = pkts[u]
    BY <1>1
  <2> QED
    BY <1>1, <1>2, <1>3, <1>4, <2>1, DispatchMoves
<1>6. \A c, u : Received(c, u)' <=> Received(c, u)
  BY <1>1 DEF Received
<1>7. /\ refcnt' = [c \in Mbuf |-> IF c = b THEN 1 ELSE refcnt[c]]
      /\ in_port' = [c \in Mbuf |-> IF c = b THEN i ELSE in_port[c]]
  <2>1. refcnt \in [Mbuf -> 0 .. RefWrap - 1] /\ in_port \in [Mbuf -> Port]
    BY DEF SimpleInv, TypeInv, TypeOK
  <2> QED
    BY <1>2, <1>3, <2>1
<1>8. Takes(b, i)
  BY <1>1, <1>2, <1>5, <1>6, <1>7 DEF Takes
<1> QED
  BY <1>3, <1>5, <1>8

LEMMA FreeOne ==
    ASSUME SimpleInv, NEW b \in Mbuf, b \in setup.mbufs, b \notin pool, Free(<<b>>)
    PROVE  Frees({b})
<1> DEFINE s == <<b>>
<1>1. s \in Seq(Mbuf) /\ Len(s) = 1 /\ s[1] = b
  OBVIOUS
<1>2. Free(s)
  OBVIOUS
<1> HIDE DEF s
<1>3. Range(s) = {b}
  BY <1>1 DEF Range
<1>4. refcnt[b] = 1
  BY DEF SimpleInv, PlaceInv
<1>5. \A i \in 1 .. Len(s) : refcnt[s[i]] = 1
  BY <1>1, <1>4
<1>6. \A i, j \in 1 .. Len(s) : s[i] = s[j] => i = j
  BY <1>1
<1>7. Frees(Range(s))
  BY <1>1, <1>2, <1>5, <1>6, FreeOnce DEF SimpleInv, TypeInv
<1> QED
  BY <1>3, <1>7

LEMMA ConsumeMoves ==
    ASSUME SimpleInv, NEW t \in Lcore, NEW b \in Mbuf, Consume(t, b)
    PROVE  CallInv' /\ Consumes(t, b)
<1>1. /\ pc[t] = "pkts" /\ b \in pkts[t]
      /\ pkts' = [pkts EXCEPT ![t] = @ \ {b}]
      /\ Free(<<b>>)
      /\ Goto(t, AfterPacket(t, pkts'[t]))
      /\ UNCHANGED <<setup, len, m_table, nic, due, rest, m, port, num, flood>>
  BY DEF Consume, queues, call
<1>2. pkts'[t] = pkts[t] \ {b} /\ \A u \in Thread \ {t} : pkts'[u] = pkts[u]
  <2>1. pkts \in [Thread -> SUBSET Mbuf]
    BY DEF SimpleInv, TypeInv, TypeOK
  <2> QED
    BY <1>1, <2>1
<1>3. /\ pc'[t] \in {"pkts", "rx", "loop"} /\ (pc'[t] # "pkts" => pkts'[t] = {})
      /\ \A u \in Thread \ {t} : pc'[u] = pc[u]
  <2>1. PICK l \in {"pkts", "rx", "loop"} :
           l = AfterPacket(t, pkts'[t]) /\ (l # "pkts" => pkts'[t] = {})
    BY DEF AfterPacket
  <2>2. Goto(t, l) /\ l \in Label /\ t \in Thread /\ TypeOK
    BY <1>1, <2>1 DEF SimpleInv, TypeInv, Label
  <2> QED
    BY <2>1, <2>2, GotoDoes
<1>4. CallInv'
  <2>1. CallOK(t)'
    BY <1>1, <1>3 DEF SimpleInv, CallInv, CallOK
  <2> QED
    BY <1>1, <1>2, <1>3, <2>1, CallKept
<1>5. Received(b, t)
  BY <1>1 DEF Received
<1>6. Frees({b})
  BY <1>1, <1>5, OnlyReceived, FreeOne
<1>7. \A r \in Lcore, o \in Port : WaitLen(r, o)' = WaitLen(r, o)
  <2>1. \A u \in Thread \ {t} : \A r, o : Sent(u, r, o)' <=> Sent(u, r, o)
    BY <1>1, <1>3 DEF Sent, Queue
  <2>2. \A r, o : ~Sent(t, r, o) /\ ~Sent(t, r, o)'
    BY <1>1, <1>3 DEF Sent
  <2> QED
    BY <1>1, <2>1, <2>2 DEF WaitLen
<1>8. \A c, p, i : InNic(c, p, i)' <=> InNic(c, p, i)
  BY <1>1 DEF InNic
<1>9. \A c, q, p, i : InBurst(c, q, p, i)' <=> InBurst(c, q, p, i)
  BY <1>1, <1>7 DEF InBurst
<1>10. \A c, u : Received(c, u)' <=> Received(c, u) /\ ~(c = b /\ u = t)
  BY <1>2 DEF Received
<1>11. \A c, u : Handled(c, u)' <=> Handled(c, u)
  BY <1>1, <1>3 DEF Handled, Hand
<1>12. Consumes(t, b)
  BY <1>1, <1>5, <1>6, <1>8, <1>9, <1>10, <1>11 DEF Consumes
<1> QED
  BY <1>4, <1>12

LEMMA NicDoneMoves ==
    ASSUME SimpleInv, NEW p \in Port, NicDone(p)
    PROVE  CallInv' /\ \E b \in Mbuf : Completes(p, b)
<1>1. UNCHANGED <<setup, len, m_table, pc, due, rest, pkts, m, port, num, flood>>
  BY DEF NicDone, queues, loop, call
<1>2. /\ nic[p] # << >> /\ nic[p][1] \in Mbuf
      /\ nic' \in [Port -> Seq(Mbuf)]
      /\ \A o \in Port \ {p} : nic'[o] = nic[o]
      /\ Len(nic'[p]) = Len(nic[p]) - 1
      /\ \A i \in 1 .. Len(nic[p]) - 1 : nic'[p][i] = nic[p][i + 1]
      /\ Free(<<nic[p][1]>>)
  BY NicDoneDoes DEF SimpleInv, TypeInv
<1>3. PICK b \in Mbuf : b = nic[p][1]
  BY <1>2
<1> DEFINE n == Len(nic[p])
<1>4. n \in Nat \ {0}
  <2>1. nic[p] \in Seq(Mbuf)
    BY DEF SimpleInv, TypeInv, TypeOK
  <2> QED
    BY <1>2, <2>1
<1>5. InNic(b, p, 1)
  BY <1>3, <1>4 DEF InNic
<1>6. Frees({b})
  BY <1>2, <1>3, <1>5, OnlyInNic, FreeOne
<1>7. \A c, o, i : o # p => (InNic(c, o, i)' <=> InNic(c, o, i))
  BY <1>2 DEF InNic
<1>8. \A c, i : InNic(c, p, i) <=> i \in 1 .. n /\ nic[p][i] = c
  BY DEF InNic
<1>9. \A c, i : InNic(c, p, i)' <=> i \in 1 .. n - 1 /\ nic'[p][i] = c
  BY <1>2 DEF InNic
<1>10. \A i \in 1 .. n - 1 : nic'[p][i] = nic[p][i + 1]
  BY <1>2
<1> HIDE DEF n
<1>11. \A c, i : InNic(c, p, i)' <=> i \in Nat \ {0} /\ InNic(c, p, i + 1)
  <2>1. \A i \in Nat \ {0} : i \in 1 .. n - 1 <=> i + 1 \in 1 .. n
    BY <1>4
  <2>2. \A i \in 1 .. n - 1 : i \in Nat \ {0}
    BY <1>4
  <2> QED
    BY <1>8, <1>9, <1>10, <2>1, <2>2
<1>12. \A c, i : InNic(c, p, i) => i \in Nat \ {0} /\ (i = 1 => c = b)
  BY <1>3, <1>4, <1>8
<1>13. \A c, q, o, i : InBurst(c, q, o, i)' <=> InBurst(c, q, o, i)
  BY <1>1 DEF InBurst, WaitLen, Sent, Queue
<1>14. \A c, u : (Received(c, u)' <=> Received(c, u)) /\ (Handled(c, u)' <=> Handled(c, u))
  BY <1>1 DEF Received, Handled, Hand
<1>15. Completes(p, b)
  BY <1>1, <1>5, <1>6, <1>7, <1>11, <1>12, <1>13, <1>14 DEF Completes
<1>16. CallInv'
  BY <1>1 DEF SimpleInv, CallInv, CallOK, Queue
<1> QED
  BY <1>15, <1>16

-----------------------------------------------------------------------------
(* The places after each kind of move                                      *)

LEMMA StoresPlaces ==
    ASSUME SimpleInv, NEW t \in Thread, NEW q \in Lcore, NEW p \in Port, NEW n \in Nat,
           Stores(t, q, p, n)
    PROVE  PlaceInv'
<1>1. /\ UNCHANGED <<setup, pool, refcnt>>
      /\ m[t] \in Mbuf /\ Handled(m[t], t)
      /\ \A c, o, j : InNic(c, o, j)' <=> InNic(c, o, j)
  BY DEF Stores
<1>2. PICK b \in Mbuf : b = m[t]
  BY <1>1
<1>3. \A c, r, o, j : InBurst(c, r, o, j)' <=>
          InBurst(c, r, o, j) \/ (c = b /\ r = q /\ o = p /\ j = n)
  BY <1>2 DEF Stores
<1>4. \A c, u : (Received(c, u)' <=> Received(c, u)) /\ (Handled(c, u)' <=> Handled(c, u) /\ u # t)
  BY DEF Stores
<1>5. \A c : Handled(c, t) => c = b
  BY <1>2 DEF Handled
<1>6. /\ b \in setup.mbufs /\ b \notin pool
      /\ \A o, j : ~InNic(b, o, j)
      /\ \A r, o, j : ~InBurst(b, r, o, j)
      /\ \A u : ~Received(b, u) /\ (Handled(b, u) => u = t)
  BY <1>1, <1>2, OnlyHandled
<1>7. Placed(b)'
  <2>1. b \notin pool' /\ \A o, j : ~InNic(b, o, j)'
    BY <1>1, <1>6
  <2>2. \A r, o, j : InBurst(b, r, o, j)' <=> r = q /\ o = p /\ j = n
    BY <1>3, <1>6
  <2>3. \A u : ~Received(b, u)' /\ ~Handled(b, u)'
    BY <1>4, <1>6
  <2>4. OnlyAt(b, "burst", q, p, n)'
    BY ONLY <2>1, <2>2, <2>3, NowInBurst
  <2> QED
    BY <2>4, OnlyThere
<1>8. ASSUME NEW c \in Mbuf, c # b
      PROVE  Stays(c)
  <2>1. \A r, o, j : InBurst(c, r, o, j)' <=> InBurst(c, r, o, j)
    BY <1>3, <1>8
  <2>2. \A u : (Received(c, u)' <=> Received(c, u)) /\ (Handled(c, u)' <=> Handled(c, u))
    BY <1>4, <1>5, <1>8
  <2> QED
    BY <1>1, <2>1, <2>2, NowSame
<1> QED
  BY <1>1, <1>6, <1>7, <1>8, PlacesNext

LEMMA ReceivesPlaces ==
    ASSUME SimpleInv, NEW t \in Lcore, NEW batch \in SUBSET pool, Receives(t, batch)
    PROVE  PlaceInv'
<1>1. /\ UNCHANGED setup
      /\ pool' = pool \ batch
      /\ refcnt' = [b \in Mbuf |-> IF b \in batch THEN 1 ELSE refcnt[b]]
  BY DEF Receives
<1>2. /\ \A b, p, i : InNic(b, p, i)' <=> InNic(b, p, i)
      /\ \A b, q, p, i : InBurst(b, q, p, i)' <=> InBurst(b, q, p, i)
  BY DEF Receives
<1>3. /\ \A b, u : Received(b, u)' <=> Received(b, u) \/ (b \in batch /\ u = t)
      /\ \A b, u : Handled(b, u)' <=> Handled(b, u)
  BY DEF Receives
<1>4. ASSUME NEW b \in Mbuf, b \in batch
      PROVE  b \in setup.mbufs /\ Placed(b)'
  <2>1. /\ b \in setup.mbufs
        /\ \A p, i : ~InNic(b, p, i)
        /\ \A q, p, i : ~InBurst(b, q, p, i)
        /\ \A u : ~Received(b, u) /\ ~Handled(b, u)
    BY <1>4, OnlyInPool
  <2>2. b \notin pool' /\ \A p, i : ~InNic(b, p, i)'
    BY <1>1, <1>2, <1>4, <2>1
  <2>3. \A q, p, i : ~InBurst(b, q, p, i)'
    BY <1>2, <2>1
  <2>4. \A u : (Received(b, u)' <=> u = t) /\ ~Handled(b, u)'
    BY <1>3, <1>4, <2>1
  <2>5. OnlyAt(b, "pkts", t, 0, 0)'
    BY ONLY <2>2, <2>3, <2>4, NowReceived
  <2> QED
    BY <2>1, <2>5, OnlyThere
<1>5. ASSUME NEW b \in Mbuf, b \notin batch
      PROVE  Stays(b)
  <2>1. b \in pool' <=> b \in pool
    BY <1>1, <1>5
  <2>2. \A u : (Received(b, u)' <=> Received(b, u)) /\ (Handled(b, u)' <=> Handled(b, u))
    BY <1>3, <1>5
  <2> QED
    BY <1>2, <2>1, <2>2, NowSame
<1>6. \A b \in Mbuf : Stays(b) \/ (b \in setup.mbufs /\ Placed(b)')
  BY <1>4, <1>5
<1>7. \A b \in Mbuf : refcnt'[b] = IF b \in pool' /\ b \in pool THEN refcnt[b]
                                   ELSE IF b \in pool' THEN 0
                                   ELSE IF b \in pool THEN 1
                                   ELSE refcnt[b]
  BY <1>1
<1> QED
  BY <1>1, <1>6, <1>7, PlacesNext

LEMMA ForwardsPlaces ==
    ASSUME SimpleInv, NEW t \in Lcore, NEW b \in Mbuf, Forwards(t, b)
    PROVE  PlaceInv'
<1>1. UNCHANGED <<setup, pool, refcnt>> /\ Received(b, t)
  BY DEF Forwards
<1>2. /\ \A c, p, i : InNic(c, p, i)' <=> InNic(c, p, i)
      /\ \A c, q, p, i : InBurst(c, q, p, i)' <=> InBurst(c, q, p, i)
  BY DEF Forwards
<1>3. \A c, u : Received(c, u)' <=> Received(c, u) /\ ~(c = b /\ u = t)
  BY DEF Forwards
<1>4. \A c, u : Handled(c, u)' <=> Handled(c, u) \/ (c = b /\ u = t)
  BY DEF Forwards
<1>5. /\ b \in setup.mbufs /\ b \notin pool
      /\ \A o, j : ~InNic(b, o, j)
      /\ \A r, o, j : ~InBurst(b, r, o, j)
      /\ \A u : (Received(b, u) => u = t) /\ ~Handled(b, u)
  BY <1>1, OnlyReceived
<1>6. Placed(b)'
  <2>1. b \notin pool' /\ \A o, j : ~InNic(b, o, j)'
    BY <1>1, <1>2, <1>5
  <2>2. \A r, o, j : ~InBurst(b, r, o, j)'
    BY <1>2, <1>5
  <2>3. \A u : ~Received(b, u)' /\ (Handled(b, u)' <=> u = t)
    BY <1>3, <1>4, <1>5
  <2>4. OnlyAt(b, "hand", t, 0, 0)'
    BY ONLY <2>1, <2>2, <2>3, NowHandled
  <2> QED
    BY <2>4, OnlyThere
<1>7. ASSUME NEW c \in Mbuf, c # b
      PROVE  Stays(c)
  <2>1. \A u : (Received(c, u)' <=> Received(c, u)) /\ (Handled(c, u)' <=> Handled(c, u))
    BY <1>3, <1>4, <1>7
  <2> QED
    BY <1>1, <1>2, <2>1, NowSame
<1> QED
  BY <1>1, <1>5, <1>6, <1>7, PlacesNext

LEMMA TakesPlaces ==
    ASSUME SimpleInv, NEW b \in pool, NEW i \in Port, Takes(b, i)
    PROVE  PlaceInv'
<1>1. /\ UNCHANGED setup
      /\ pool' = pool \ {b}
      /\ refcnt' = [c \in Mbuf |-> IF c = b THEN 1 ELSE refcnt[c]]
  BY DEF Takes
<1>2. /\ \A c, p, j : InNic(c, p, j)' <=> InNic(c, p, j)
      /\ \A c, q, p, j : InBurst(c, q, p, j)' <=> InBurst(c, q, p, j)
  BY DEF Takes
<1>3. \A c, u : Received(c, u)' <=> Received(c, u)
  BY DEF Takes
<1>4. \A c, u : Handled(c, u)' <=> Handled(c, u) \/ (c = b /\ u = ANY)
  BY DEF Takes
<1>5. b \in Mbuf
  BY DEF SimpleInv, TypeInv, TypeOK
<1>6. /\ b \in setup.mbufs
      /\ \A o, j : ~InNic(b, o, j)
      /\ \A r, o, j : ~InBurst(b, r, o, j)
      /\ \A u : ~Received(b, u) /\ ~Handled(b, u)
  BY <1>5, OnlyInPool
<1>7. Placed(b)'
  <2>1. b \notin pool' /\ \A o, j : ~InNic(b, o, j)'
    BY <1>1, <1>2, <1>6
  <2>2. \A r, o, j : ~InBurst(b, r, o, j)'
    BY <1>2, <1>6
  <2>3. \A u : ~Received(b, u)' /\ (Handled(b, u)' <=> u = ANY)
    BY <1>3, <1>4, <1>6
  <2>4. OnlyAt(b, "hand", ANY, 0, 0)'
    BY ONLY <2>1, <2>2, <2>3, NowHandled
  <2> QED
    BY <2>4, OnlyThere
<1>8. ASSUME NEW c \in Mbuf, c # b
      PROVE  Stays(c)
  <2>1. \A u : (Received(c, u)' <=> Received(c, u)) /\ (Handled(c, u)' <=> Handled(c, u))
    BY <1>3, <1>4, <1>8
  <2>2. c \in pool' <=> c \in pool
    BY <1>1, <1>8
  <2> QED
    BY <1>2, <2>1, <2>2, NowSame
<1>9. \A c \in Mbuf : Stays(c) \/ (c \in setup.mbufs /\ Placed(c)')
  BY <1>6, <1>7, <1>8
<1>10. \A c \in Mbuf : refcnt'[c] = IF c \in pool' /\ c \in pool THEN refcnt[c]
                                    ELSE IF c \in pool' THEN 0
                                    ELSE IF c \in pool THEN 1
                                    ELSE refcnt[c]
  BY <1>1
<1> QED
  BY <1>1, <1>9, <1>10, PlacesNext

\* Where a buffer is freed and the others stay or are where they were.
LEMMA FreedPlaces ==
    ASSUME SimpleInv, UNCHANGED setup, NEW b \in Mbuf, b \in setup.mbufs, b \notin pool,
           Frees({b}),
           \A p, i : ~InNic(b, p, i)', \A q, p, i : ~InBurst(b, q, p, i)',
           \A u : ~Received(b, u)' /\ ~Handled(b, u)',
           \A c \in Mbuf \ {b} : Stays(c) \/ (c \in setup.mbufs /\ Placed(c)')
    PROVE  PlaceInv'
<1>1. pool' = pool \cup {b} /\ refcnt' = [c \in Mbuf |-> IF c \in {b} THEN 0 ELSE refcnt[c]]
  BY DEF Frees
<1>2. Placed(b)'
  BY <1>1, NowInPool
<1>3. \A c \in Mbuf : Stays(c) \/ (c \in setup.mbufs /\ Placed(c)')
  BY <1>2
<1>4. \A c \in Mbuf : refcnt'[c] = IF c \in pool' /\ c \in pool THEN refcnt[c]
                                   ELSE IF c \in pool' THEN 0
                                   ELSE IF c \in pool THEN 1
                                   ELSE refcnt[c]
  BY <1>1
<1> QED
  BY <1>3, <1>4, PlacesNext

LEMMA ConsumesPlaces ==
    ASSUME SimpleInv, NEW t \in Lcore, NEW b \in Mbuf, Consumes(t, b)
    PROVE  PlaceInv'
<1>1. UNCHANGED setup /\ Received(b, t) /\ Frees({b})
  BY DEF Consumes
<1>2. pool' = pool \cup {b}
  BY <1>1 DEF Frees
<1>3. /\ \A c, p, i : InNic(c, p, i)' <=> InNic(c, p, i)
      /\ \A c, q, p, i : InBurst(c, q, p, i)' <=> InBurst(c, q, p, i)
  BY DEF Consumes
<1>4. \A c, u : Received(c, u)' <=> Received(c, u) /\ ~(c = b /\ u = t)
  BY DEF Consumes
<1>5. \A c, u : Handled(c, u)' <=> Handled(c, u)
  BY DEF Consumes
<1>6. /\ b \in setup.mbufs /\ b \notin pool
      /\ \A o, j : ~InNic(b, o, j)
      /\ \A r, o, j : ~InBurst(b, r, o, j)
      /\ \A u : (Received(b, u) => u = t) /\ ~Handled(b, u)
  BY <1>1, OnlyReceived
<1>7. ASSUME NEW c \in Mbuf \ {b}
      PROVE  Stays(c)
  <2>1. \A u : (Received(c, u)' <=> Received(c, u)) /\ (Handled(c, u)' <=> Handled(c, u))
    BY <1>4, <1>5
  <2>2. c \in pool' <=> c \in pool
    BY <1>2
  <2> QED
    BY <1>3, <2>1, <2>2, NowSame
<1>8. \A p, i : ~InNic(b, p, i)'
  BY <1>3, <1>6
<1>9. \A q, p, i : ~InBurst(b, q, p, i)'
  BY <1>3, <1>6
<1>10. \A u : ~Received(b, u)' /\ ~Handled(b, u)'
  BY <1>4, <1>5, <1>6
<1> QED
  BY <1>1, <1>6, <1>7, <1>8, <1>9, <1>10, FreedPlaces

LEMMA CompletesPlaces ==
    ASSUME SimpleInv, NEW p \in Port, NEW b \in Mbuf, Completes(p, b)
    PROVE  PlaceInv'
<1>1. UNCHANGED setup /\ InNic(b, p, 1) /\ Frees({b})
  BY DEF Completes
<1>2. pool' = pool \cup {b}
  BY <1>1 DEF Frees
<1>3. \A c, o, i : o # p => (InNic(c, o, i)' <=> InNic(c, o, i))
  BY DEF Completes
<1>4. /\ \A c, i : InNic(c, p, i)' <=> i \in Nat \ {0} /\ InNic(c, p, i + 1)
      /\ \A c, i : InNic(c, p, i) => i \in Nat \ {0} /\ (i = 1 => c = b)
  BY DEF Completes
<1>5. \A c, q, o, i : InBurst(c, q, o, i)' <=> InBurst(c, q, o, i)
  BY DEF Completes
<1>6. \A c, u : (Received(c, u)' <=> Received(c, u)) /\ (Handled(c, u)' <=> Handled(c, u))
  BY DEF Completes
<1>7. /\ b \in setup.mbufs /\ b \notin pool
      /\ \A o, j : InNic(b, o, j) => o = p /\ j = 1
      /\ \A r, o, j : ~InBurst(b, r, o, j)
      /\ \A u : ~Received(b, u) /\ ~Handled(b, u)
  BY <1>1, OnlyInNic
<1>8. \A o, i : ~InNic(b, o, i)'
  <2>1. \A i \in Nat \ {0} : i + 1 # 1
    OBVIOUS
  <2>2. \A i : ~InNic(b, p, i)'
    BY <1>4, <1>7, <2>1
  <2> QED
    BY <1>3, <1>7, <2>2
<1>9. ASSUME NEW c \in Mbuf \ {b}
      PROVE  Stays(c) \/ (c \in setup.mbufs /\ Placed(c)')
  <2>1. c \in pool' <=> c \in pool
    BY <1>2
  <2>2. CASE \A i : ~InNic(c, p, i)
    <3>1. \A o, i : InNic(c, o, i)' <=> InNic(c, o, i)
      BY <1>3, <1>4, <2>2
    <3> QED
      BY <1>5, <1>6, <2>1, <3>1, NowSame
  <2>3. ASSUME NEW i, InNic(c, p, i)
        PROVE  c \in setup.mbufs /\ Placed(c)'
    <3>1. i \in Nat \ {0} /\ i # 1
      BY <1>4, <2>3
    <3>2. PICK k \in Nat \ {0} : k + 1 = i
      <4>1. i - 1 \in Nat \ {0} /\ (i - 1) + 1 = i
        BY <3>1
      <4> QED
        BY <4>1
    <3>3. /\ c \in setup.mbufs /\ c \notin pool
          /\ \A o, j : InNic(c, o, j) => o = p /\ j = i
          /\ \A q, o, j : ~InBurst(c, q, o, j)
          /\ \A u : ~Received(c, u) /\ ~Handled(c, u)
      BY <2>3, OnlyInNic
    <3>4. \A o, j : InNic(c, o, j)' <=> o = p /\ j = k
      <4>1. \A j \in Nat \ {0} : j + 1 = i => j = k
        BY <3>2
      <4>2. \A j : InNic(c, p, j)' <=> j = k
        BY <1>4, <2>3, <3>2, <3>3, <4>1
      <4> QED
        BY <1>3, <3>3, <4>2
    <3>5. c \notin pool' /\ \A q, o, j : ~InBurst(c, q, o, j)'
      BY <1>5, <2>1, <3>3
    <3>6. \A u : ~Received(c, u)' /\ ~Handled(c, u)'
      BY <1>6, <3>3
    <3>7. OnlyAt(c, "nic", 0, p, k)'
      BY ONLY <3>4, <3>5, <3>6, NowInNic
    <3> QED
      BY <3>3, <3>7, OnlyThere
  <2> QED
    BY <2>2, <2>3
<1>10. \A q, o, i : ~InBurst(b, q, o, i)'
  BY <1>5, <1>7
<1>11. \A u : ~Received(b, u)' /\ ~Handled(b, u)'
  BY <1>6, <1>7
<1> QED
  BY <1>1, <1>7, <1>8, <1>9, <1>10, <1>11, FreedPlaces

\* What a step may move.
Move ==
    \/ NothingMoves
    \/ \E t \in Thread, q \in Lcore, p \in Port, s \in Seq(Mbuf) :
          \E sent \in 0 .. Len(s), n \in Nat :
             UNCHANGED setup /\ q = Queue(t) /\ Sends(t, q, p, s, sent, n)
    \/ \E t \in Thread, q \in Lcore, p \in Port, n \in Nat : q = Queue(t) /\ Stores(t, q, p, n)
    \/ \E t \in Lcore, batch \in SUBSET pool : Receives(t, batch)
    \/ \E t \in Lcore, b \in Mbuf : Forwards(t, b) \/ Consumes(t, b)
    \/ \E b \in pool, i \in Port : Takes(b, i)
    \/ \E p \in Port, b \in Mbuf : Completes(p, b)

LEMMA NextMoves ==
    ASSUME SimpleInv, [Next]_vars
    PROVE  CallInv' /\ Move
<1>1. CASE UNCHANGED vars
  <2>1. /\ UNCHANGED <<setup, pool, refcnt, in_port, age, len, m_table, nic, pc, due, rest, pkts>>
        /\ UNCHANGED <<m, port, num, flood>>
    BY <1>1 DEF vars, bufs, queues, loop, call
  <2>2. CallInv'
    BY <2>1 DEF SimpleInv, CallInv, CallOK, Queue
  <2>3. \A q \in Lcore, p \in Port : WaitLen(q, p)' = WaitLen(q, p)
    BY <2>1 DEF WaitLen, Sent, Queue
  <2>4. \A u \in Thread : Hand(u)' <=> Hand(u)
    BY <2>1 DEF Hand
  <2>5. NothingMoves
    BY <2>1, <2>3, <2>4, Quiet
  <2> QED
    BY <2>2, <2>5 DEF Move
<1>2. ASSUME NEW t \in Thread, Transmit(t)
      PROVE  CallInv' /\ Move
  <2>1. CASE Read(t)
    BY <2>1, ReadMoves DEF Move
  <2>2. CASE Put(t)
    BY <2>2, PutMoves DEF Move
  <2>3. CASE Write(t)
    BY <2>3, WriteMoves DEF Move
  <2>4. ~(Flood(t) \/ Release(t) \/ FloodDone(t))
    BY DEF Flood, Release, FloodDone, SimpleInv, CallInv, CallOK
  <2> QED
    BY <1>2, <2>1, <2>2, <2>3, <2>4 DEF Transmit
<1>3. ASSUME NEW t \in Lcore, Core(t)
      PROVE  CallInv' /\ Move
  <2>1. CASE Top(t) \/ DrainSkip(t) \/ DrainReset(t)
    BY <2>1, TopMoves, DrainSkipMoves, DrainResetMoves DEF Move
  <2>2. CASE DrainSend(t)
    <3>1. t \in Thread /\ t = Queue(t)
      BY DEF Queue
    <3> QED
      BY <2>2, <3>1, DrainSendMoves DEF Move
  <2>3. CASE RxBurst(t)
    BY <2>3, RxBurstMoves DEF Move
  <2>4. ASSUME NEW b \in Mbuf, Forward(t, b) \/ Consume(t, b)
        PROVE  CallInv' /\ Move
    BY <2>4, ForwardMoves, ConsumeMoves DEF Move
  <2>5. CASE Transmit(t)
    BY <1>2, <2>5
  <2> QED
    BY <1>3, <2>1, <2>2, <2>3, <2>4, <2>5 DEF Core
<1>4. ASSUME NEW t \in Lcore, Tick(t)
      PROVE  CallInv' /\ Move
  BY <1>4, TickMoves DEF Move
<1>5. CASE PacketOut
  BY <1>5, PacketOutMoves DEF Move
<1>6. CASE PacketOutNoBuffer
  <2>1. /\ pc[ANY] = "idle" /\ Goto(ANY, "crash")
        /\ UNCHANGED <<setup, pool, refcnt, in_port, age, len, m_table, nic, due, rest, pkts>>
        /\ UNCHANGED <<m, port, num, flood>>
    BY <1>6 DEF PacketOutNoBuffer, bufs, queues, loop, call
  <2>2. pc'[ANY] = "crash" /\ \A u \in Thread \ {ANY} : pc'[u] = pc[u]
    <3>1. TypeOK /\ ANY \in Thread
      BY DEF SimpleInv, TypeInv
    <3> QED
      BY <2>1, <3>1, GotoDoes DEF Label
  <2>3. CallInv'
    BY <2>1, <2>2 DEF SimpleInv, CallInv, CallOK, Queue
  <2>4. \A q \in Lcore, p \in Port : WaitLen(q, p)' = WaitLen(q, p)
    <3>1. \A u \in Thread : \A q, p : Sent(u, q, p)' <=> Sent(u, q, p)
      BY <2>1, <2>2 DEF Sent, Queue
    <3> QED
      BY <2>1, <3>1 DEF WaitLen
  <2>5. \A u \in Thread : Hand(u)' <=> Hand(u)
    BY <2>1, <2>2 DEF Hand
  <2>6. NothingMoves
    BY <2>1, <2>4, <2>5, Quiet
  <2> QED
    BY <2>3, <2>6 DEF Move
<1>7. ASSUME NEW p \in Port, NicDone(p)
      PROVE  CallInv' /\ Move
  BY <1>7, NicDoneMoves DEF Move
<1>8. CASE Next
  <2>1. Transmit(ANY) => CallInv' /\ Move
    BY <1>2
  <2> QED
    BY <1>3, <1>4, <1>5, <1>6, <1>7, <1>8, <2>1 DEF Next
<1> QED
  BY <1>1, <1>8

LEMMA MovePlaces ==
    ASSUME SimpleInv, Move
    PROVE  PlaceInv' /\ UNCHANGED setup
<1>1. PlaceInv'
  BY QuietPlaces, SendPlaces, StoresPlaces, ReceivesPlaces, ForwardsPlaces, ConsumesPlaces,
     TakesPlaces, CompletesPlaces DEF Move
<1>2. UNCHANGED setup
  BY DEF Move, NothingMoves, Stores, Receives, Forwards, Consumes, Takes, Completes
<1> QED
  BY <1>1, <1>2

LEMMA InitPlaces ==
    ASSUME Init, Simple
    PROVE  CallInv /\ PlaceInv
<1>1. TypeInv
  BY InitTypes
<1>2. \A t \in Thread : pc[t] \in {"loop", "idle"} /\ pkts[t] = {} /\ flood[t] = {}
  BY DEF Init
<1>3. CallInv
  BY <1>2 DEF CallInv, CallOK
<1>4. \A b, p, i : ~InNic(b, p, i)
  BY DEF Init, InNic
<1>5. \A b, q, p, i : ~InBurst(b, q, p, i)
  BY DEF Init, InBurst, WaitLen
<1>6. \A b, t : ~Received(b, t) /\ ~Handled(b, t)
  BY <1>2 DEF Received, Handled, Hand
<1>7. pool = setup.mbufs /\ \A b \in Mbuf : refcnt[b] = 0
  BY DEF Init
<1>8. ASSUME NEW b \in Mbuf
      PROVE  IF b \in setup.mbufs THEN Placed(b) ELSE Nowhere(b)
  <2>1. CASE b \in pool
    <3>1. OnlyAt(b, "pool", 0, 0, 0)
      BY <1>4, <1>5, <1>6, <2>1 DEF At, OnlyAt
    <3>2. \E k, q, p, i : OnlyAt(b, k, q, p, i)
      BY <3>1
    <3>3. Placed(b)
      BY <3>2 DEF Placed, OnlyAt
    <3> QED
      BY <1>7, <2>1, <3>3
  <2>2. CASE b \notin pool
    <3>1. \A k, q, p, i : ~At(b, k, q, p, i)
      BY <1>4, <1>5, <1>6, <2>2 DEF At
    <3> QED
      BY <1>7, <2>2, <3>1 DEF Nowhere
  <2> QED
    BY <2>1, <2>2
<1>9. PlaceInv
  BY <1>7, <1>8 DEF PlaceInv
<1> QED
  BY <1>3, <1>9

-----------------------------------------------------------------------------
(* The counts                                                              *)

\* What waits, as the property has it.
LEMMA WaitingIs ==
    ASSUME TypeInv, NEW q \in Lcore, NEW p \in Port
    PROVE  /\ WaitLen(q, p) \in 0 .. MAX_PKT_BURST
           /\ Waiting(q, p) \in Seq(Mbuf) /\ Len(Waiting(q, p)) = WaitLen(q, p)
           /\ DOMAIN Waiting(q, p) = 1 .. WaitLen(q, p)
           /\ \A i \in 1 .. WaitLen(q, p) : Waiting(q, p)[i] = m_table[q][p][i]
<1>1. /\ m_table \in [Lcore -> [Port -> [1 .. MAX_PKT_BURST -> Mbuf \cup {NONE}]]]
      /\ len \in [Lcore -> [Port -> 0 .. MAX_PKT_BURST - 1]]
  BY DEF TypeInv, TypeOK
<1>2. m_table[q][p] \in [1 .. MAX_PKT_BURST -> Mbuf \cup {NONE}] /\ len[q][p] \in 0 .. MAX_PKT_BURST - 1
  BY ONLY <1>1, q \in Lcore, p \in Port
<1>3. len[q][p] \in 0 .. MAX_PKT_BURST
  BY <1>2
<1>4. CASE \E t \in Thread : Sent(t, q, p)
  <2>1. Waiting(q, p) = << >> /\ WaitLen(q, p) = 0
    BY <1>4 DEF Waiting, WaitLen
  <2> QED
    BY <2>1
<1>5. CASE ~\E t \in Thread : Sent(t, q, p)
  <2>1. Waiting(q, p) = SubSeq(m_table[q][p], 1, len[q][p]) /\ WaitLen(q, p) = len[q][p]
    BY <1>5 DEF Waiting, WaitLen
  <2>2. \A i \in 1 .. len[q][p] : m_table[q][p][i] \in Mbuf
    BY DEF TypeInv, Filled, FilledTo
  <2>3. /\ SubSeq(m_table[q][p], 1, len[q][p]) \in Seq(Mbuf)
        /\ Len(SubSeq(m_table[q][p], 1, len[q][p])) = len[q][p]
        /\ \A i \in 1 .. len[q][p] : SubSeq(m_table[q][p], 1, len[q][p])[i] = m_table[q][p][i]
    BY <1>2, <1>3, <2>2, FilledPart
  <2>4. DOMAIN Waiting(q, p) = 1 .. WaitLen(q, p)
    BY <2>1, <2>3
  <2> QED
    BY <1>3, <2>1, <2>3, <2>4
<1> QED
  BY <1>4, <1>5

\* The places that Holders counts.
LEMMA HoldersAre ==
    ASSUME TypeInv, NEW b \in Mbuf
    PROVE  Holders(b)
             = Cardinality({x \in Port \X (1 .. NbTxd) : InNic(b, x[1], x[2])})
               + Cardinality({x \in Lcore \X Port \X (1 .. MAX_PKT_BURST) : InBurst(b, x[1], x[2], x[3])})
               + Cardinality({t \in Thread : Received(b, t)})
<1>1. {x \in Port \X (1 .. NbTxd) : x[2] \in DOMAIN nic[x[1]] /\ nic[x[1]][x[2]] = b}
        = {x \in Port \X (1 .. NbTxd) : InNic(b, x[1], x[2])}
  <2>1. \A p \in Port : DOMAIN nic[p] = 1 .. Len(nic[p])
    BY DEF TypeInv, TypeOK
  <2>2. ASSUME NEW x \in Port \X (1 .. NbTxd)
        PROVE  x[2] \in DOMAIN nic[x[1]] /\ nic[x[1]][x[2]] = b <=> InNic(b, x[1], x[2])
    BY <2>1 DEF InNic
  <2> QED
    BY <2>2
<1>2. {x \in Lcore \X Port \X (1 .. MAX_PKT_BURST) :
          x[3] \in DOMAIN Waiting(x[1], x[2]) /\ Waiting(x[1], x[2])[x[3]] = b}
        = {x \in Lcore \X Port \X (1 .. MAX_PKT_BURST) : InBurst(b, x[1], x[2], x[3])}
  <2>1. ASSUME NEW x \in Lcore \X Port \X (1 .. MAX_PKT_BURST)
        PROVE  x[3] \in DOMAIN Waiting(x[1], x[2]) /\ Waiting(x[1], x[2])[x[3]] = b
                 <=> InBurst(b, x[1], x[2], x[3])
    <3>1. PICK q \in Lcore, p \in Port, i \in 1 .. MAX_PKT_BURST :
             q = x[1] /\ p = x[2] /\ i = x[3]
      OBVIOUS
    <3>2. /\ DOMAIN Waiting(q, p) = 1 .. WaitLen(q, p)
          /\ \A j \in 1 .. WaitLen(q, p) : Waiting(q, p)[j] = m_table[q][p][j]
      BY WaitingIs
    <3>3. i \in DOMAIN Waiting(q, p) /\ Waiting(q, p)[i] = b <=> InBurst(b, q, p, i)
      BY <3>2 DEF InBurst
    <3> QED
      BY <3>1, <3>3
  <2> QED
    BY <2>1
<1>3. {t \in Thread : b \in pkts[t]} = {t \in Thread : Received(b, t)}
  BY DEF Received
<1> QED
  BY <1>1, <1>2, <1>3 DEF Holders

LEMMA OnePlace ==
    ASSUME SimpleInv, NEW b \in setup.mbufs, \A t \in Thread : b \notin InHand(t)
    PROVE  refcnt[b] = Holders(b) /\ (b \in pool <=> Holders(b) = 0)
<1>1. b \in Mbuf
  BY SetupFacts DEF SimpleInv, TypeInv, TypeOK
<1> DEFINE N == {x \in Port \X (1 .. NbTxd) : InNic(b, x[1], x[2])}
           B == {x \in Lcore \X Port \X (1 .. MAX_PKT_BURST) : InBurst(b, x[1], x[2], x[3])}
           R == {t \in Thread : Received(b, t)}
<1>2. Holders(b) = Cardinality(N) + Cardinality(B) + Cardinality(R)
  BY <1>1, HoldersAre DEF SimpleInv
<1>3. refcnt[b] = IF b \in pool THEN 0 ELSE 1
  BY <1>1 DEF SimpleInv, PlaceInv
<1>4. \A t : ~Handled(b, t)
  BY DEF Handled, Hand, InHand
<1>5. Cardinality({}) = 0
  BY FS_EmptySet
<1>6. CASE b \in pool
  <2>1. N = {} /\ B = {} /\ R = {}
    BY <1>1, <1>6, OnlyInPool
  <2> HIDE DEF N, B, R
  <2> QED
    BY <1>2, <1>3, <1>5, <1>6, <2>1
<1>7. ASSUME NEW p, NEW i, InNic(b, p, i)
      PROVE  N = {<<p, i>>} /\ B = {} /\ R = {} /\ b \notin pool
  <2>1. /\ b \notin pool
        /\ \A o, j : InNic(b, o, j) => o = p /\ j = i
        /\ \A q, o, j : ~InBurst(b, q, o, j)
        /\ \A t : ~Received(b, t)
    BY <1>1, <1>7, OnlyInNic
  <2>2. p \in Port /\ i \in 1 .. NbTxd
    <3>1. \A o \in Port : Len(nic[o]) \in Nat /\ Len(nic[o]) <= NbTxd
      BY DEF SimpleInv, TypeInv, TypeOK
    <3> QED
      BY <1>7, <3>1 DEF InNic
  <2>3. <<p, i>> \in N
    BY <1>7, <2>2
  <2>4. \A x \in N : x = <<p, i>>
    BY <2>1
  <2> QED
    BY <2>1, <2>3, <2>4
<1>8. ASSUME NEW q, NEW p, NEW i, InBurst(b, q, p, i)
      PROVE  N = {} /\ B = {<<q, p, i>>} /\ R = {} /\ b \notin pool
  <2>1. /\ b \notin pool
        /\ \A o, j : ~InNic(b, o, j)
        /\ \A r, o, j : InBurst(b, r, o, j) => r = q /\ o = p /\ j = i
        /\ \A t : ~Received(b, t)
    BY <1>1, <1>8, OnlyInBurst
  <2>2. q \in Lcore /\ p \in Port /\ i \in 1 .. MAX_PKT_BURST
    <3>1. q \in Lcore /\ p \in Port /\ i \in 1 .. WaitLen(q, p)
      BY <1>8 DEF InBurst
    <3>2. WaitLen(q, p) \in 0 .. MAX_PKT_BURST
      BY <3>1, WaitingIs DEF SimpleInv
    <3> QED
      BY <3>1, <3>2
  <2>3. <<q, p, i>> \in B
    BY <1>8, <2>2
  <2>4. \A x \in B : x = <<q, p, i>>
    BY <2>1
  <2> QED
    BY <2>1, <2>3, <2>4
<1>9. ASSUME NEW t, Received(b, t)
      PROVE  N = {} /\ B = {} /\ R = {t} /\ b \notin pool
  <2>1. /\ b \notin pool
        /\ \A o, j : ~InNic(b, o, j)
        /\ \A r, o, j : ~InBurst(b, r, o, j)
        /\ \A u : Received(b, u) => u = t
    BY <1>1, <1>9, OnlyReceived
  <2>2. t \in Thread
    BY <1>9 DEF Received
  <2> QED
    BY <1>9, <2>1, <2>2
<1>10. \/ b \in pool \/ (\E p, i : InNic(b, p, i)) \/ (\E q, p, i : InBurst(b, q, p, i))
       \/ \E t : Received(b, t)
  <2>1. Placed(b)
    BY <1>1 DEF SimpleInv, PlaceInv
  <2>2. \E k, q, p, i : At(b, k, q, p, i)
    BY <2>1 DEF Placed
  <2> QED
    BY <1>4, <2>2 DEF At
<1> HIDE DEF N, B, R
<1>11. b \notin pool => Holders(b) = 1
  <2>1. CASE \E p, i : InNic(b, p, i)
    <3>1. PICK p, i : N = {<<p, i>>} /\ B = {} /\ R = {}
      BY <1>7, <2>1
    <3>2. Cardinality(N) = 1 /\ Cardinality(B) = 0 /\ Cardinality(R) = 0
      BY <3>1, FS_Singleton, FS_EmptySet
    <3> QED
      BY <1>2, <3>2
  <2>2. CASE \E q, p, i : InBurst(b, q, p, i)
    <3>1. PICK q, p, i : N = {} /\ B = {<<q, p, i>>} /\ R = {}
      BY <1>8, <2>2
    <3>2. Cardinality(N) = 0 /\ Cardinality(B) = 1 /\ Cardinality(R) = 0
      BY <3>1, FS_Singleton, FS_EmptySet
    <3> QED
      BY <1>2, <3>2
  <2>3. CASE \E t : Received(b, t)
    <3>1. PICK t : N = {} /\ B = {} /\ R = {t}
      BY <1>9, <2>3
    <3>2. Cardinality(N) = 0 /\ Cardinality(B) = 0 /\ Cardinality(R) = 1
      BY <3>1, FS_Singleton, FS_EmptySet
    <3> QED
      BY <1>2, <3>2
  <2> QED
    BY <1>10, <2>1, <2>2, <2>3
<1> QED
  BY <1>3, <1>6, <1>11

\* The switch is set up once.
LEMMA NextSetup ==
    ASSUME [Next]_vars
    PROVE  UNCHANGED setup
<1>1. \A t \in Thread : Transmit(t) => UNCHANGED setup
  BY DEF Transmit, Read, Put, Write, Flood, Release, FloodDone
<1>2. \A t \in Lcore : Core(t) \/ Tick(t) => UNCHANGED setup
  <2>1. \A t \in Lcore : Top(t) \/ DrainSkip(t) \/ DrainSend(t) \/ DrainReset(t) \/ RxBurst(t) \/ Tick(t)
           => UNCHANGED setup
    BY DEF Top, DrainSkip, DrainSend, DrainReset, RxBurst, Tick
  <2>2. \A t \in Lcore, b \in Mbuf : Forward(t, b) \/ Consume(t, b) => UNCHANGED setup
    BY DEF Forward, Consume
  <2> QED
    BY <1>1, <2>1, <2>2 DEF Core
<1>3. PacketOut \/ PacketOutNoBuffer => UNCHANGED setup
  BY DEF PacketOut, PacketOutNoBuffer
<1>4. \A p \in Port : NicDone(p) => UNCHANGED setup
  BY DEF NicDone
<1> QED
  BY <1>1, <1>2, <1>3, <1>4 DEF Next, vars

\* Where nothing is flooded and the agent has its own bursts, each thread's
\* locals agree with the burst and each buffer is in one place.
Held == Simple => CallInv /\ PlaceInv

LEMMA NextHeld ==
    ASSUME TypeInv, Held, [Next]_vars
    PROVE  Held'
<1> SUFFICES ASSUME Simple'
             PROVE  CallInv' /\ PlaceInv'
  BY DEF Held
<1>1. UNCHANGED setup
  BY NextSetup
<1>2. Simple
  <2>1. rx_port_list' = rx_port_list /\ Floods' = Floods
    BY <1>1, SetupKept
  <2> QED
    BY <1>1, <2>1 DEF Simple, Exclusive, Floods
<1>3. SimpleInv
  BY <1>2 DEF Held, SimpleInv
<1> QED
  BY <1>3, NextMoves, MovePlaces

\* Where nothing is flooded and the agent shares no bursts, the count of a buffer
\* is the number of places that hold it, and the pool has those that nobody holds.
THEOREM RefsCountedHolds == Spec => []RefsCountedUnlessFloodedOrShared
<1>1. Init => TypeInv /\ Held
  BY InitTypes, InitPlaces DEF Held
<1>2. TypeInv /\ Held /\ [Next]_vars => TypeInv' /\ Held'
  BY NextTypes, NextHeld
<1>3. TypeInv /\ Held => RefsCountedUnlessFloodedOrShared
  <2> SUFFICES ASSUME TypeInv, Held, ~Floods, Exclusive
               PROVE  \A b \in setup.mbufs \ UNION {InHand(t) : t \in Thread} :
                          /\ refcnt[b] = Holders(b)
                          /\ b \in pool <=> Holders(b) = 0
    BY DEF RefsCountedUnlessFloodedOrShared, RefsCounted
  <2>1. SimpleInv
    BY DEF Held, Simple, SimpleInv
  <2> QED
    BY <2>1, OnePlace
<1> QED
  BY <1>1, <1>2, <1>3, PTL DEF Spec

-----------------------------------------------------------------------------
(* The order of packets                                                    *)

\* No two lcores poll the same port.
LEMMA PortsApart ==
    ASSUME setup \in Setups, NEW q \in Lcore, NEW r \in Lcore, q # r
    PROVE  rx_port_list[q] \cap rx_port_list[r] = {}
<1>1. IsFiniteSet(Lcore) /\ Lcore \subseteq Int
  <2>1. Lcore = 0 .. NLcores - 1 /\ 0 \in Int /\ NLcores - 1 \in Int
    BY DEF Lcore
  <2> QED
    BY <2>1, FS_Interval
<1>2. setup.lcores \subseteq Lcore
  BY SetupFacts
<1>3. ASSUME NEW k \in setup.lcores, NEW l \in setup.lcores, k < l
      PROVE  Rank(k, setup.lcores) # Rank(l, setup.lcores)
  <2> DEFINE S == {i \in setup.lcores : i < k}
             T == {i \in setup.lcores : i < l}
  <2>0. \A i \in setup.lcores : i \in Int
    BY <1>1, <1>2
  <2>1. ASSUME NEW i \in setup.lcores, i < k
        PROVE  i < l
    <3>1. i \in Int /\ k \in Int /\ l \in Int
      BY <2>0
    <3> QED
      BY <1>3, <2>1, <3>1
  <2>2. S \subseteq T /\ k \in T /\ k \notin S
    <3>1. k \in Int
      BY <2>0
    <3>2. ~(k < k)
      BY <3>1
    <3> QED
      BY <1>3, <2>1, <3>2
  <2>3. IsFiniteSet(T)
    BY <1>1, <1>2, FS_Subset
  <2> HIDE DEF S, T
  <2>4. Cardinality(S) # Cardinality(T)
    <3>1. S # T
      BY <2>2
    <3> QED
      BY <2>2, <2>3, <3>1, FS_Subset
  <2> QED
    BY <2>4 DEF Rank, S, T
<1>4. ASSUME NEW p, p \in rx_port_list[q], p \in rx_port_list[r]
      PROVE  FALSE
  <2>1. q \in setup.lcores /\ r \in setup.lcores /\ Rank(q, setup.lcores) = Rank(r, setup.lcores)
    BY <1>4 DEF rx_port_list
  <2>2. q < r \/ r < q
    BY <1>1
  <2> QED
    BY <1>3, <2>1, <2>2
<1> QED
  BY <1>4

\* b was forwarded and comes from lcore q.
Mine(b, q) == b \in Forwarded /\ in_port[b] \in rx_port_list[q]

\* Of the packets of lcore q, b is to leave before c by some port.
Ahead(b, c, q) ==
    \/ \E p, i, j : InNic(b, p, i) /\ InNic(c, p, j) /\ i < j
    \/ \E p, i, j : InNic(b, p, i) /\ InBurst(c, q, p, j)
    \/ \E p, i, j : InBurst(b, q, p, i) /\ InBurst(c, q, p, j) /\ i < j
    \/ Handled(c, q) /\ b # c

\* What was forwarded is on its way, and age relates nothing else.
Fresh ==
    /\ age \subseteq Forwarded \X Forwarded
    /\ \A b \in Forwarded :
          /\ b \notin pool /\ ~Handled(b, ANY)
          /\ \A t : ~Received(b, t)

\* What lcore t received from its ports stays in its hands and bursts until the
\* driver has it.
Owned ==
    /\ \A b, t : Received(b, t) => t \in Lcore /\ in_port[b] \in rx_port_list[t]
    /\ \A b, t : b \in Forwarded /\ Handled(b, t) => t \in Lcore /\ in_port[b] \in rx_port_list[t]
    /\ \A b, q, p, i : b \in Forwarded /\ InBurst(b, q, p, i) => in_port[b] \in rx_port_list[q]

Ordered ==
    \A q \in Lcore : \A b, c :
        Mine(b, q) /\ Mine(c, q) /\ Ahead(b, c, q) => <<c, b>> \notin age

\* An lcore that receives does so from its own ports.
Rounds == \A t \in Lcore : pc[t] \notin {"drain", "reset"} => rest[t] \subseteq rx_port_list[t]

OrderInv == Fresh /\ Owned /\ Ordered /\ Rounds

LEMMA Owner ==
    ASSUME SimpleInv, NEW b, NEW q \in Lcore, NEW r \in Lcore, Mine(b, q),
           in_port[b] \in rx_port_list[r]
    PROVE  q = r
BY PortsApart DEF SimpleInv, TypeInv, TypeOK, Mine

LEMMA ForwardedIs ==
    /\ Forwarded \subseteq Mbuf
    /\ \A b \in Mbuf : b \in Forwarded <=> <<b, b>> \in age
BY DEF Forwarded

LEMMA ForwardedNext ==
    \A b \in Mbuf : b \in Forwarded' <=> <<b, b>> \in age'
BY DEF Forwarded

\* Where nothing is forwarded, what is ahead was ahead.
LEMMA OrderKept ==
    ASSUME SimpleInv, OrderInv, UNCHANGED setup,
           \A r \in age' : r \in age,
           \A b \in Forwarded' : in_port'[b] = in_port[b],
           \A q \in Lcore : \A b, c \in Forwarded' :
               Mine(b, q) /\ Mine(c, q) /\ Ahead(b, c, q)' => Ahead(b, c, q)
    PROVE  Ordered'
<1>1. rx_port_list' = rx_port_list
  BY SetupKept
<1>2. \A b \in Forwarded' : b \in Forwarded
  BY DEF Forwarded
<1>3. ASSUME NEW q \in Lcore, NEW b, NEW c, Mine(b, q)', Mine(c, q)', Ahead(b, c, q)'
      PROVE  <<c, b>> \notin age'
  <2>1. b \in Forwarded' /\ c \in Forwarded'
    BY <1>3 DEF Mine
  <2>2. Mine(b, q) /\ Mine(c, q)
    BY <1>1, <1>2, <1>3, <2>1 DEF Mine
  <2>3. Ahead(b, c, q)
    BY <1>3, <2>1, <2>2
  <2> QED
    BY <2>2, <2>3 DEF OrderInv, Ordered
<1> QED
  BY <1>3 DEF Ordered

\* What is freed is not forwarded any more, and the others are.
LEMMA FreesAge ==
    ASSUME SimpleInv, OrderInv, NEW B, Frees(B)
    PROVE  /\ \A r \in age' : r \in age
           /\ \A b : b \in Forwarded' <=> b \in Forwarded /\ b \notin B
           /\ \A b \in Forwarded' : in_port'[b] = in_port[b]
           /\ age' \subseteq Forwarded' \X Forwarded'
<1>1. /\ in_port' = [b \in Mbuf |-> IF b \in B THEN 0 ELSE in_port[b]]
      /\ age' = {r \in age : r[1] \notin B /\ r[2] \notin B}
  BY DEF Frees
<1>2. \A b : <<b, b>> \in age' <=> <<b, b>> \in age /\ b \notin B
  BY <1>1
<1>3. \A b : b \in Forwarded' <=> b \in Forwarded /\ b \notin B
  BY <1>2 DEF Forwarded
<1>4. \A b \in Forwarded' : b \in Mbuf /\ b \notin B
  BY <1>3, ForwardedIs
<1>5. \A b \in Forwarded' : in_port'[b] = in_port[b]
  BY <1>1, <1>4
<1>6. age' \subseteq Forwarded' \X Forwarded'
  <2>1. age \subseteq Forwarded \X Forwarded
    BY DEF OrderInv, Fresh
  <2>2. ASSUME NEW r \in age'
        PROVE  r \in Forwarded' \X Forwarded'
    <3>1. r \in Forwarded \X Forwarded /\ r[1] \notin B /\ r[2] \notin B
      BY <1>1, <2>1
    <3>2. r[1] \in Forwarded' /\ r[2] \in Forwarded' /\ r = <<r[1], r[2]>>
      BY <1>3, <3>1
    <3> QED
      BY <3>2
  <2> QED
    BY <2>2
<1> QED
  BY <1>1, <1>3, <1>5, <1>6

LEMMA QuietOrder ==
    ASSUME SimpleInv, OrderInv, NothingMoves
    PROVE  Fresh' /\ Owned' /\ Ordered'
<1>1. UNCHANGED <<setup, pool, in_port, age>>
  BY DEF NothingMoves
<1>2. /\ \A b, p, i : InNic(b, p, i)' <=> InNic(b, p, i)
      /\ \A b, q, p, i : InBurst(b, q, p, i)' <=> InBurst(b, q, p, i)
      /\ \A b, t : (Received(b, t)' <=> Received(b, t)) /\ (Handled(b, t)' <=> Handled(b, t))
  BY DEF NothingMoves
<1>3. Forwarded' = Forwarded /\ rx_port_list' = rx_port_list
  BY <1>1, SetupKept DEF Forwarded
<1>4. Fresh'
  BY <1>1, <1>2, <1>3 DEF OrderInv, Fresh
<1>5. Owned'
  BY <1>1, <1>2, <1>3 DEF OrderInv, Owned
<1>6. \A b, c, q : Ahead(b, c, q)' => Ahead(b, c, q)
  BY <1>2 DEF Ahead
<1>7. Ordered'
  BY <1>1, <1>6, OrderKept
<1> QED
  BY <1>4, <1>5, <1>7

LEMMA SendOrder ==
    ASSUME SimpleInv, OrderInv, UNCHANGED setup,
           NEW t \in Thread, NEW q \in Lcore, NEW p \in Port, NEW s \in Seq(Mbuf),
           NEW sent \in 0 .. Len(s), NEW n \in Nat, q = Queue(t), Sends(t, q, p, s, sent, n)
    PROVE  Fresh' /\ Owned' /\ Ordered'
<1> DEFINE B == {s[k] : k \in sent + 1 .. Len(s)}
<1>1. /\ \A i \in 1 .. Len(s) :
            /\ s[i] \notin pool
            /\ \A o, j : ~InNic(s[i], o, j)
            /\ \A u : ~Received(s[i], u)
      /\ \A i, j \in 1 .. Len(s) : s[i] = s[j] => i = j
      /\ \A i \in 1 .. Len(s) : InBurst(s[i], q, p, i) \/ (i = Len(s) /\ Handled(s[i], t))
  BY DEF Sends, Apart
<1>2. Frees(B)
  BY DEF Sends
<1>3. \A i \in 1 .. sent : i \in 1 .. Len(s)
  OBVIOUS
<1>4. \A b \in B : \E i \in 1 .. Len(s) : b = s[i]
  OBVIOUS
<1> HIDE DEF B
<1>5. pool' = pool \cup B
  BY <1>2 DEF Frees
<1>6. /\ \A r \in age' : r \in age
      /\ \A b : b \in Forwarded' <=> b \in Forwarded /\ b \notin B
      /\ \A b \in Forwarded' : in_port'[b] = in_port[b]
      /\ age' \subseteq Forwarded' \X Forwarded'
  BY <1>2, FreesAge
<1>7. /\ \A b, o, j : o # p => (InNic(b, o, j)' <=> InNic(b, o, j))
      /\ \A b, j : InNic(b, p, j)' <=> InNic(b, p, j) \/ \E k \in 1 .. sent : j = n + k /\ b = s[k]
      /\ \A b, j : InNic(b, p, j) => j \in 1 .. n
  BY DEF Sends
<1>8. \A b, r, o, j : InBurst(b, r, o, j)' <=> InBurst(b, r, o, j) /\ (r # q \/ o # p)
  BY DEF Sends
<1>9. \A b, u : /\ Received(b, u)' <=> Received(b, u)
                /\ Handled(b, u)' <=> Handled(b, u) /\ u # t
  BY DEF Sends
<1>10. rx_port_list' = rx_port_list
  BY SetupKept
<1>11. Fresh'
  <2>1. ASSUME NEW b \in Forwarded'
        PROVE  b \notin pool' /\ ~Handled(b, ANY)' /\ \A u : ~Received(b, u)'
    <3>1. b \in Forwarded /\ b \notin B
      BY <1>6
    <3>2. b \notin pool /\ ~Handled(b, ANY) /\ \A u : ~Received(b, u)
      BY <3>1 DEF OrderInv, Fresh
    <3> QED
      BY <1>5, <1>9, <3>1, <3>2
  <2> QED
    BY <1>6, <2>1 DEF Fresh
<1>12. Owned'
  <2>1. ASSUME NEW b, NEW u, Received(b, u)'
        PROVE  u \in Lcore /\ in_port'[b] \in rx_port_list'[u]
    <3>1. Received(b, u)
      BY <1>9, <2>1
    <3>2. b \notin B
      BY <1>1, <1>4, <3>1
    <3>3. u \in Lcore /\ in_port[b] \in rx_port_list[u]
      BY <3>1 DEF OrderInv, Owned
    <3>4. b \in Mbuf
      BY <3>1 DEF Received, SimpleInv, TypeInv, TypeOK
    <3>5. in_port'[b] = in_port[b]
      BY <1>2, <3>2, <3>4 DEF Frees
    <3> QED
      BY <1>10, <3>3, <3>5
  <2>2. ASSUME NEW b, NEW u, b \in Forwarded', Handled(b, u)'
        PROVE  u \in Lcore /\ in_port'[b] \in rx_port_list'[u]
    <3>1. b \in Forwarded /\ Handled(b, u) /\ in_port'[b] = in_port[b]
      BY <1>6, <1>9, <2>2
    <3> QED
      BY <1>10, <3>1 DEF OrderInv, Owned
  <2>3. ASSUME NEW b, NEW r, NEW o, NEW i, b \in Forwarded', InBurst(b, r, o, i)'
        PROVE  in_port'[b] \in rx_port_list'[r]
    <3>1. b \in Forwarded /\ InBurst(b, r, o, i) /\ in_port'[b] = in_port[b]
      BY <1>6, <1>8, <2>3
    <3> QED
      BY <1>10, <3>1 DEF OrderInv, Owned
  <2> QED
    BY <2>1, <2>2, <2>3 DEF Owned
\* A packet of the burst that was forwarded is of lcore q, and waits or is
\* the last of it.
<1>13. ASSUME NEW r \in Lcore, NEW k \in 1 .. sent, Mine(s[k], r)
       PROVE  r = q /\ (InBurst(s[k], r, p, k) \/ (k = Len(s) /\ Handled(s[k], r) /\ r = t))
  <2>1. k \in 1 .. Len(s) /\ s[k] \in Forwarded
    BY <1>3, <1>13 DEF Mine
  <2>2. CASE InBurst(s[k], q, p, k)
    <3>1. in_port[s[k]] \in rx_port_list[q]
      BY <2>1, <2>2 DEF OrderInv, Owned
    <3> QED
      BY <1>13, <2>2, <3>1, Owner
  <2>3. CASE k = Len(s) /\ Handled(s[k], t)
    <3>1. t \in Lcore /\ in_port[s[k]] \in rx_port_list[t]
      BY <2>1, <2>3 DEF OrderInv, Owned
    <3>2. r = t
      BY <1>13, <3>1, Owner
    <3>3. q = t
      BY <3>1 DEF Queue
    <3> QED
      BY <2>3, <3>2, <3>3
  <2> QED
    BY <1>1, <2>1, <2>2, <2>3
<1>14. ASSUME NEW r \in Lcore, NEW b \in Forwarded', NEW c \in Forwarded',
              Mine(b, r), Mine(c, r), Ahead(b, c, r)'
       PROVE  Ahead(b, c, r)
  <2>1. ASSUME NEW o, NEW i, NEW j, InNic(b, o, i)', InNic(c, o, j)', i < j
        PROVE  Ahead(b, c, r)
    <3>1. CASE InNic(b, o, i) /\ InNic(c, o, j)
      BY <2>1, <3>1 DEF Ahead
    <3>2. ASSUME o = p, InNic(b, p, i), NEW k \in 1 .. sent, j = n + k, c = s[k]
          PROVE  Ahead(b, c, r)
      <4>1. InBurst(c, r, p, k) \/ Handled(c, r)
        BY <1>13, <1>14, <3>2
      <4>2. b # c
        BY <1>1, <1>3, <3>2
      <4> QED
        BY <3>2, <4>1, <4>2 DEF Ahead
    <3>3. ASSUME o = p, InNic(c, p, j), NEW k \in 1 .. sent, i = n + k, b = s[k]
          PROVE  FALSE
      <4>1. j \in 1 .. n
        BY <1>7, <3>3
      <4> QED
        BY <2>1, <3>3, <4>1
    <3>4. ASSUME o = p, NEW k \in 1 .. sent, i = n + k, b = s[k],
                 NEW l \in 1 .. sent, j = n + l, c = s[l]
          PROVE  Ahead(b, c, r)
      <4>1. k < l /\ k \in 1 .. Len(s) /\ l \in 1 .. Len(s) /\ k # Len(s)
        BY <2>1, <3>4
      <4>2. InBurst(b, r, p, k)
        BY <1>13, <1>14, <3>4, <4>1
      <4>3. InBurst(c, r, p, l) \/ Handled(c, r)
        BY <1>13, <1>14, <3>4
      <4>4. b # c
        BY <1>1, <3>4, <4>1
      <4> QED
        BY <4>1, <4>2, <4>3, <4>4 DEF Ahead
    <3> QED
      BY <1>7, <2>1, <3>1, <3>2, <3>3, <3>4
  <2>2. ASSUME NEW o, NEW i, NEW j, InNic(b, o, i)', InBurst(c, r, o, j)'
        PROVE  Ahead(b, c, r)
    <3>1. InBurst(c, r, o, j) /\ (r # q \/ o # p)
      BY <1>8, <2>2
    <3>2. CASE InNic(b, o, i)
      BY <3>1, <3>2 DEF Ahead
    <3>3. ASSUME o = p, NEW k \in 1 .. sent, i = n + k, b = s[k]
          PROVE  FALSE
      BY <1>13, <1>14, <3>1, <3>3
    <3> QED
      BY <1>7, <2>2, <3>2, <3>3
  <2>3. ASSUME NEW o, NEW i, NEW j, InBurst(b, r, o, i)', InBurst(c, r, o, j)', i < j
        PROVE  Ahead(b, c, r)
    BY <1>8, <2>3 DEF Ahead
  <2>4. CASE Handled(c, r)' /\ b # c
    BY <1>9, <2>4 DEF Ahead
  <2> QED
    BY <1>14, <2>1, <2>2, <2>3, <2>4 DEF Ahead
<1>15. Ordered'
  BY <1>6, <1>14, OrderKept
<1> QED
  BY <1>11, <1>12, <1>15

\* Freeing a buffer that is nowhere after the step.
LEMMA FreesOrder ==
    ASSUME SimpleInv, OrderInv, UNCHANGED setup, NEW b \in Mbuf, Frees({b}),
           \A u : ~Received(b, u)',
           \A c, u : (Received(c, u)' => Received(c, u)) /\ (Handled(c, u)' => Handled(c, u)),
           \A c, q, p, i : InBurst(c, q, p, i)' => InBurst(c, q, p, i),
           \A c, d, q : Ahead(c, d, q)' => Ahead(c, d, q)
    PROVE  Fresh' /\ Owned' /\ Ordered'
<1>1. /\ \A r \in age' : r \in age
      /\ \A c : c \in Forwarded' <=> c \in Forwarded /\ c \notin {b}
      /\ \A c \in Forwarded' : in_port'[c] = in_port[c]
      /\ age' \subseteq Forwarded' \X Forwarded'
  BY FreesAge
<1>2. pool' = pool \cup {b} /\ in_port' = [c \in Mbuf |-> IF c \in {b} THEN 0 ELSE in_port[c]]
  BY DEF Frees
<1>3. rx_port_list' = rx_port_list
  BY SetupKept
<1>4. Fresh'
  <2>1. ASSUME NEW c \in Forwarded'
        PROVE  c \notin pool' /\ ~Handled(c, ANY)' /\ \A u : ~Received(c, u)'
    <3>1. c \in Forwarded /\ c # b
      BY <1>1
    <3> QED
      BY <1>2, <3>1 DEF OrderInv, Fresh
  <2> QED
    BY <1>1, <2>1 DEF Fresh
<1>5. Owned'
  <2>1. ASSUME NEW c, NEW u, Received(c, u)'
        PROVE  u \in Lcore /\ in_port'[c] \in rx_port_list'[u]
    <3>1. Received(c, u) /\ c # b
      BY <2>1
    <3>2. c \in Mbuf
      BY <3>1 DEF Received, SimpleInv, TypeInv, TypeOK
    <3>3. in_port'[c] = in_port[c]
      BY <1>2, <3>1, <3>2
    <3> QED
      BY <1>3, <3>1, <3>3 DEF OrderInv, Owned
  <2>2. \A c, u : c \in Forwarded' /\ Handled(c, u)' => u \in Lcore /\ in_port'[c] \in rx_port_list'[u]
    BY <1>1, <1>3 DEF OrderInv, Owned
  <2>3. \A c, r, o, j : c \in Forwarded' /\ InBurst(c, r, o, j)' => in_port'[c] \in rx_port_list'[r]
    BY <1>1, <1>3 DEF OrderInv, Owned
  <2> QED
    BY <2>1, <2>2, <2>3 DEF Owned
<1>6. Ordered'
  BY <1>1, OrderKept
<1> QED
  BY <1>4, <1>5, <1>6

LEMMA StoresOrder ==
    ASSUME SimpleInv, OrderInv, NEW t \in Thread, NEW q \in Lcore, NEW p \in Port, NEW n \in Nat,
           q = Queue(t), Stores(t, q, p, n)
    PROVE  Fresh' /\ Owned' /\ Ordered'
<1>1. /\ UNCHANGED <<setup, pool, in_port, age>>
      /\ m[t] \in Mbuf /\ Handled(m[t], t)
      /\ \A c, o, j : InNic(c, o, j)' <=> InNic(c, o, j)
  BY DEF Stores
<1>2. PICK b \in Mbuf : b = m[t]
  BY <1>1
<1>3. \A c, r, o, j : InBurst(c, r, o, j)' <=>
          InBurst(c, r, o, j) \/ (c = b /\ r = q /\ o = p /\ j = n)
  BY <1>2 DEF Stores
<1>4. \A c, j : InBurst(c, q, p, j) => j \in 1 .. n - 1
  BY DEF Stores
<1>5. \A c, u : Received(c, u)' <=> Received(c, u)
  BY DEF Stores
<1>6. \A c, u : Handled(c, u)' <=> Handled(c, u) /\ u # t
  BY DEF Stores
<1>7. Handled(b, t) /\ \A r, o, j : ~InBurst(b, r, o, j)
  BY <1>1, <1>2, OnlyHandled
<1>8. rx_port_list' = rx_port_list /\ Forwarded' = Forwarded
  BY <1>1, SetupKept DEF Forwarded
<1>9. b \in Forwarded => t \in Lcore /\ q = t /\ in_port[b] \in rx_port_list[q]
  <2>1. b \in Forwarded => t \in Lcore /\ in_port[b] \in rx_port_list[t]
    BY <1>7 DEF OrderInv, Owned
  <2>2. t \in Lcore => q = t
    BY DEF Queue
  <2> QED
    BY <2>1, <2>2
<1>10. Fresh'
  BY <1>1, <1>5, <1>6, <1>8 DEF OrderInv, Fresh
<1>11. Owned'
  <2>1. \A c, u : Received(c, u)' => u \in Lcore /\ in_port'[c] \in rx_port_list'[u]
    BY <1>1, <1>5, <1>8 DEF OrderInv, Owned
  <2>2. \A c, u : c \in Forwarded' /\ Handled(c, u)' => u \in Lcore /\ in_port'[c] \in rx_port_list'[u]
    BY <1>1, <1>6, <1>8 DEF OrderInv, Owned
  <2>3. \A c, r, o, i : c \in Forwarded /\ InBurst(c, r, o, i) => in_port[c] \in rx_port_list[r]
    BY DEF OrderInv, Owned
  <2>4. \A c, r, o, i : c \in Forwarded' /\ InBurst(c, r, o, i)' => in_port'[c] \in rx_port_list'[r]
    BY <1>1, <1>3, <1>8, <1>9, <2>3
  <2> QED
    BY <2>1, <2>2, <2>4 DEF Owned
<1>12. ASSUME NEW r \in Lcore, NEW c \in Forwarded', NEW d \in Forwarded',
              Mine(c, r), Mine(d, r), Ahead(c, d, r)'
       PROVE  Ahead(c, d, r)
  <2>1. c # b /\ r = q /\ d = b => Ahead(c, d, r)
    <3>1. d = b /\ r = q => Handled(d, r)
      BY <1>7, <1>8, <1>9
    <3> QED
      BY <3>1 DEF Ahead
  <2>2. ASSUME NEW o, NEW i, NEW j, InNic(c, o, i)', InNic(d, o, j)', i < j
        PROVE  Ahead(c, d, r)
    BY <1>1, <2>2 DEF Ahead
  <2>3. ASSUME NEW o, NEW i, NEW j, InNic(c, o, i)', InBurst(d, r, o, j)'
        PROVE  Ahead(c, d, r)
    <3>1. InNic(c, o, i)
      BY <1>1, <2>3
    <3>2. c # b
      BY <1>7, <3>1, OnlyHandled
    <3>3. InBurst(d, r, o, j) \/ (d = b /\ r = q)
      BY <1>3, <2>3
    <3> QED
      BY <2>1, <3>1, <3>2, <3>3 DEF Ahead
  <2>4. ASSUME NEW o, NEW i, NEW j, InBurst(c, r, o, i)', InBurst(d, r, o, j)', i < j
        PROVE  Ahead(c, d, r)
    <3>1. CASE InBurst(c, r, o, i)
      <4>1. c # b
        BY <1>7, <3>1
      <4>2. InBurst(d, r, o, j) \/ (d = b /\ r = q)
        BY <1>3, <2>4
      <4> QED
        BY <2>1, <2>4, <3>1, <4>1, <4>2 DEF Ahead
    <3>2. CASE c = b /\ r = q /\ o = p /\ i = n
      <4>1. InBurst(d, r, o, j) \/ j = n
        BY <1>3, <2>4
      <4>2. CASE j = n
        BY <2>4, <3>2, <4>2
      <4>3. CASE InBurst(d, r, o, j)
        <5>1. j \in 1 .. n - 1
          BY <1>4, <3>2, <4>3
        <5> QED
          BY <2>4, <3>2, <5>1
      <4> QED
        BY <4>1, <4>2, <4>3
    <3> QED
      BY <1>3, <2>4, <3>1, <3>2
  <2>5. CASE Handled(d, r)' /\ c # d
    BY <1>6, <2>5 DEF Ahead
  <2> QED
    BY <1>12, <2>2, <2>3, <2>4, <2>5 DEF Ahead
<1>13. Ordered'
  BY <1>1, <1>12, OrderKept
<1> QED
  BY <1>10, <1>11, <1>13

LEMMA TakesOrder ==
    ASSUME SimpleInv, OrderInv, NEW b \in pool, NEW i \in Port, Takes(b, i)
    PROVE  Fresh' /\ Owned' /\ Ordered'
<1>1. /\ UNCHANGED <<setup, age>>
      /\ pool' = pool \ {b}
      /\ in_port' = [c \in Mbuf |-> IF c = b THEN i ELSE in_port[c]]
  BY DEF Takes
<1>2. /\ \A c, p, j : InNic(c, p, j)' <=> InNic(c, p, j)
      /\ \A c, q, p, j : InBurst(c, q, p, j)' <=> InBurst(c, q, p, j)
  BY DEF Takes
<1>3. \A c, u : Received(c, u)' <=> Received(c, u)
  BY DEF Takes
<1>4. \A c, u : Handled(c, u)' <=> Handled(c, u) \/ (c = b /\ u = ANY)
  BY DEF Takes
<1>5. b \notin Forwarded /\ \A u : ~Received(b, u)
  <2>1. b \in Mbuf
    BY DEF SimpleInv, TypeInv, TypeOK
  <2> QED
    BY <2>1, OnlyInPool DEF OrderInv, Fresh
<1>6. rx_port_list' = rx_port_list /\ Forwarded' = Forwarded
  BY <1>1, SetupKept DEF Forwarded
<1>7. \A c \in Mbuf : c # b => in_port'[c] = in_port[c]
  BY <1>1
<1>8. \A c \in Forwarded : c \in Mbuf /\ c # b
  BY <1>5, ForwardedIs
<1>9. \A c \in Forwarded' : in_port'[c] = in_port[c]
  BY <1>6, <1>7, <1>8
<1>10. Fresh'
  BY <1>1, <1>3, <1>4, <1>5, <1>6 DEF OrderInv, Fresh
<1>11. Owned'
  <2>1. ASSUME NEW c, NEW u, Received(c, u)'
        PROVE  u \in Lcore /\ in_port'[c] \in rx_port_list'[u]
    <3>1. Received(c, u) /\ c # b
      BY <1>3, <1>5, <2>1
    <3>2. c \in Mbuf
      BY <3>1 DEF Received, SimpleInv, TypeInv, TypeOK
    <3> QED
      BY <1>6, <1>7, <3>1, <3>2 DEF OrderInv, Owned
  <2>2. \A c, u : c \in Forwarded' /\ Handled(c, u)' => u \in Lcore /\ in_port'[c] \in rx_port_list'[u]
    BY <1>4, <1>5, <1>6, <1>9 DEF OrderInv, Owned
  <2>3. \A c, r, o, j : c \in Forwarded' /\ InBurst(c, r, o, j)' => in_port'[c] \in rx_port_list'[r]
    BY <1>2, <1>6, <1>9 DEF OrderInv, Owned
  <2> QED
    BY <2>1, <2>2, <2>3 DEF Owned
<1>12. \A r \in Lcore : \A c, d \in Forwarded' : Ahead(c, d, r)' => Ahead(c, d, r)
  BY <1>2, <1>4, <1>5, <1>6 DEF Ahead
<1>13. Ordered'
  BY <1>1, <1>9, <1>12, OrderKept
<1> QED
  BY <1>10, <1>11, <1>13

LEMMA ConsumesOrder ==
    ASSUME SimpleInv, OrderInv, NEW t \in Lcore, NEW b \in Mbuf, Consumes(t, b)
    PROVE  Fresh' /\ Owned' /\ Ordered'
<1>1. UNCHANGED setup /\ Received(b, t) /\ Frees({b})
  BY DEF Consumes
<1>2. /\ \A c, p, j : InNic(c, p, j)' <=> InNic(c, p, j)
      /\ \A c, q, p, j : InBurst(c, q, p, j)' <=> InBurst(c, q, p, j)
  BY DEF Consumes
<1>3. \A c, u : Received(c, u)' <=> Received(c, u) /\ ~(c = b /\ u = t)
  BY DEF Consumes
<1>4. \A c, u : Handled(c, u)' <=> Handled(c, u)
  BY DEF Consumes
<1>5. \A u : Received(b, u) => u = t
  BY <1>1, OnlyReceived
<1>6. \A c, d, q : Ahead(c, d, q)' => Ahead(c, d, q)
  BY <1>2, <1>4 DEF Ahead
<1>7. /\ \A u : ~Received(b, u)'
      /\ \A c, u : (Received(c, u)' => Received(c, u)) /\ (Handled(c, u)' => Handled(c, u))
      /\ \A c, q, p, i : InBurst(c, q, p, i)' => InBurst(c, q, p, i)
  BY <1>2, <1>3, <1>4, <1>5
<1> QED
  BY <1>1, <1>6, <1>7, FreesOrder

LEMMA CompletesOrder ==
    ASSUME SimpleInv, OrderInv, NEW p \in Port, NEW b \in Mbuf, Completes(p, b)
    PROVE  Fresh' /\ Owned' /\ Ordered'
<1>1. UNCHANGED setup /\ InNic(b, p, 1) /\ Frees({b})
  BY DEF Completes
<1>2. \A c, o, i : o # p => (InNic(c, o, i)' <=> InNic(c, o, i))
  BY DEF Completes
<1>3. \A c, i : InNic(c, p, i)' <=> i \in Nat \ {0} /\ InNic(c, p, i + 1)
  BY DEF Completes
<1>4. \A c, q, o, i : InBurst(c, q, o, i)' <=> InBurst(c, q, o, i)
  BY DEF Completes
<1>5. \A c, u : (Received(c, u)' <=> Received(c, u)) /\ (Handled(c, u)' <=> Handled(c, u))
  BY DEF Completes
<1>6. \A u : ~Received(b, u)'
  BY <1>1, <1>5, OnlyInNic
<1>7. ASSUME NEW c, NEW d, NEW q, Ahead(c, d, q)'
      PROVE  Ahead(c, d, q)
  <2>1. ASSUME NEW o, NEW i, NEW j, InNic(c, o, i)', InNic(d, o, j)', i < j
        PROVE  Ahead(c, d, q)
    <3>1. CASE o # p
      BY <1>2, <2>1, <3>1 DEF Ahead
    <3>2. CASE o = p
      <4>1. i \in Nat \ {0} /\ InNic(c, p, i + 1) /\ j \in Nat \ {0} /\ InNic(d, p, j + 1)
        BY <1>3, <2>1, <3>2
      <4>2. i + 1 < j + 1
        BY <2>1, <4>1
      <4> QED
        BY <4>1, <4>2 DEF Ahead
    <3> QED
      BY <3>1, <3>2
  <2>2. ASSUME NEW o, NEW i, NEW j, InNic(c, o, i)', InBurst(d, q, o, j)'
        PROVE  Ahead(c, d, q)
    <3>1. \E k : InNic(c, o, k)
      BY <1>2, <1>3, <2>2
    <3> QED
      BY <1>4, <2>2, <3>1 DEF Ahead
  <2>3. ASSUME NEW o, NEW i, NEW j, InBurst(c, q, o, i)', InBurst(d, q, o, j)', i < j
        PROVE  Ahead(c, d, q)
    BY <1>4, <2>3 DEF Ahead
  <2>4. CASE Handled(d, q)' /\ c # d
    BY <1>5, <2>4 DEF Ahead
  <2> QED
    BY <1>7, <2>1, <2>2, <2>3, <2>4 DEF Ahead
<1>8. /\ \A c, u : (Received(c, u)' => Received(c, u)) /\ (Handled(c, u)' => Handled(c, u))
      /\ \A c, q, o, i : InBurst(c, q, o, i)' => InBurst(c, q, o, i)
  BY <1>4, <1>5
<1> QED
  BY <1>1, <1>6, <1>7, <1>8, FreesOrder

LEMMA ReceivesOrder ==
    ASSUME SimpleInv, OrderInv, NEW t \in Lcore, NEW batch \in SUBSET pool, Receives(t, batch)
    PROVE  Fresh' /\ Owned' /\ Ordered'
<1>1. /\ UNCHANGED <<setup, age>>
      /\ pool' = pool \ batch
      /\ in_port' = [b \in Mbuf |-> IF b \in batch THEN Min(rest[t]) ELSE in_port[b]]
  BY DEF Receives
<1>2. /\ \A b, p, i : InNic(b, p, i)' <=> InNic(b, p, i)
      /\ \A b, q, p, i : InBurst(b, q, p, i)' <=> InBurst(b, q, p, i)
  BY DEF Receives
<1>3. \A b, u : Received(b, u)' <=> Received(b, u) \/ (b \in batch /\ u = t)
  BY DEF Receives
<1>4. \A b, u : Handled(b, u)' <=> Handled(b, u)
  BY DEF Receives
\* The port at hand is one of lcore t.
<1>5. Min(rest[t]) \in rx_port_list[t]
  <2>1. pc[t] = "rx" /\ t \in Thread
    BY DEF Receives
  <2>2. rest[t] # {} /\ rest[t] \subseteq Port
    BY <2>1 DEF SimpleInv, TypeInv, Threads, ThreadOK, TypeOK
  <2>3. rest[t] \subseteq rx_port_list[t]
    BY <2>1 DEF OrderInv, Rounds
  <2> QED
    BY <2>2, <2>3, NextPort
<1>6. \A b \in batch : b \in Mbuf /\ b \notin Forwarded /\ \A u : ~Received(b, u)
  <2>1. \A b \in batch : b \in Mbuf /\ b \in pool
    BY DEF SimpleInv, TypeInv, TypeOK
  <2> QED
    BY <2>1, OnlyInPool DEF OrderInv, Fresh
<1>7. rx_port_list' = rx_port_list /\ Forwarded' = Forwarded
  BY <1>1, SetupKept DEF Forwarded
<1>8. \A b \in Mbuf : b \notin batch => in_port'[b] = in_port[b]
  BY <1>1
<1>9. \A b \in Forwarded' : in_port'[b] = in_port[b]
  BY <1>6, <1>7, <1>8, ForwardedIs
<1>10. Fresh'
  BY <1>1, <1>3, <1>4, <1>6, <1>7 DEF OrderInv, Fresh
<1>11. Owned'
  <2>1. ASSUME NEW b, NEW u, Received(b, u)'
        PROVE  u \in Lcore /\ in_port'[b] \in rx_port_list'[u]
    <3>1. CASE Received(b, u)
      <4>1. b \in Mbuf /\ b \notin batch
        BY <1>6, <3>1 DEF Received, SimpleInv, TypeInv, TypeOK
      <4> QED
        BY <1>7, <1>8, <3>1, <4>1 DEF OrderInv, Owned
    <3>2. CASE b \in batch /\ u = t
      <4>1. in_port'[b] = Min(rest[t])
        BY <1>1, <1>6, <3>2
      <4> QED
        BY <1>5, <1>7, <3>2, <4>1
    <3> QED
      BY <1>3, <2>1, <3>1, <3>2
  <2>2. \A b, u : b \in Forwarded' /\ Handled(b, u)' => u \in Lcore /\ in_port'[b] \in rx_port_list'[u]
    BY <1>4, <1>7, <1>9 DEF OrderInv, Owned
  <2>3. \A b, r, o, j : b \in Forwarded' /\ InBurst(b, r, o, j)' => in_port'[b] \in rx_port_list'[r]
    BY <1>2, <1>7, <1>9 DEF OrderInv, Owned
  <2> QED
    BY <2>1, <2>2, <2>3 DEF Owned
<1>12. \A r \in Lcore : \A b, c \in Forwarded' : Ahead(b, c, r)' => Ahead(b, c, r)
  BY <1>2, <1>4 DEF Ahead
<1>13. Ordered'
  BY <1>1, <1>9, <1>12, OrderKept
<1> QED
  BY <1>10, <1>11, <1>13

\* The packet that is forwarded is the youngest, and behind all others.
LEMMA ForwardsOrder ==
    ASSUME SimpleInv, OrderInv, NEW t \in Lcore, NEW b \in Mbuf, Forwards(t, b)
    PROVE  Fresh' /\ Owned' /\ Ordered'
<1>1. /\ UNCHANGED <<setup, pool, in_port>>
      /\ Received(b, t) /\ \A c : ~Handled(c, t)
  BY DEF Forwards
<1>2. /\ \A c, p, i : InNic(c, p, i)' <=> InNic(c, p, i)
      /\ \A c, q, p, i : InBurst(c, q, p, i)' <=> InBurst(c, q, p, i)
  BY DEF Forwards
<1>3. \A c, u : Received(c, u)' <=> Received(c, u) /\ ~(c = b /\ u = t)
  BY DEF Forwards
<1>4. \A c, u : Handled(c, u)' <=> Handled(c, u) \/ (c = b /\ u = t)
  BY DEF Forwards
<1>5. /\ b \notin pool
      /\ \A o, j : ~InNic(b, o, j)
      /\ \A r, o, j : ~InBurst(b, r, o, j)
      /\ \A u : (Received(b, u) => u = t) /\ ~Handled(b, u)
  BY <1>1, OnlyReceived
<1>6. b \notin Forwarded /\ in_port[b] \in rx_port_list[t]
  BY <1>1 DEF OrderInv, Fresh, Owned
<1>7. \A c, d : <<c, d>> \in age' <=> <<c, d>> \in age \/ (d = b /\ c \in Forwarded \cup {b})
  BY DEF Forwards
<1>8. \A c : c \in Forwarded' <=> c \in Forwarded \/ c = b
  <2>1. \A c \in Mbuf : <<c, c>> \in age' <=> <<c, c>> \in age \/ c = b
    BY <1>7
  <2> QED
    BY <2>1 DEF Forwarded
<1>9. rx_port_list' = rx_port_list
  BY <1>1, SetupKept
<1>10. Fresh'
  <2>1. age' \subseteq Forwarded' \X Forwarded'
    <3>1. age \subseteq Forwarded \X Forwarded
      BY DEF OrderInv, Fresh
    <3>2. age' = age \cup {<<c, b>> : c \in Forwarded \cup {b}}
      BY DEF Forwards
    <3> QED
      BY <1>8, <3>1, <3>2
  <2>2. ANY # t
    OBVIOUS
  <2>3. ASSUME NEW c \in Forwarded'
        PROVE  c \notin pool' /\ ~Handled(c, ANY)' /\ \A u : ~Received(c, u)'
    <3>1. CASE c = b
      BY <1>1, <1>3, <1>4, <1>5, <2>2, <3>1
    <3>2. CASE c # b
      <4>1. c \in Forwarded
        BY <1>8, <3>2
      <4> QED
        BY <1>1, <1>3, <1>4, <3>2, <4>1 DEF OrderInv, Fresh
    <3> QED
      BY <3>1, <3>2
  <2> QED
    BY <2>1, <2>3 DEF Fresh
<1>11. Owned'
  <2>1. \A c, u : Received(c, u)' => u \in Lcore /\ in_port'[c] \in rx_port_list'[u]
    BY <1>1, <1>3, <1>9 DEF OrderInv, Owned
  <2>2. ASSUME NEW c, NEW u, c \in Forwarded', Handled(c, u)'
        PROVE  u \in Lcore /\ in_port'[c] \in rx_port_list'[u]
    <3>1. CASE c = b
      BY <1>1, <1>4, <1>5, <1>6, <1>9, <2>2, <3>1
    <3>2. CASE c # b
      BY <1>1, <1>4, <1>8, <1>9, <2>2, <3>2 DEF OrderInv, Owned
    <3> QED
      BY <3>1, <3>2
  <2>3. ASSUME NEW c, NEW r, NEW o, NEW i, c \in Forwarded', InBurst(c, r, o, i)'
        PROVE  in_port'[c] \in rx_port_list'[r]
    <3>1. InBurst(c, r, o, i) /\ c \in Forwarded
      BY <1>2, <1>5, <1>8, <2>3
    <3> QED
      BY <1>1, <1>9, <3>1 DEF OrderInv, Owned
  <2> QED
    BY <2>1, <2>2, <2>3 DEF Owned
<1>12. ASSUME NEW q \in Lcore, NEW c, NEW d, Mine(c, q)', Mine(d, q)', Ahead(c, d, q)'
       PROVE  <<d, c>> \notin age'
  <2>1. c \in Forwarded' /\ d \in Forwarded' /\ in_port[c] \in rx_port_list[q]
        /\ in_port[d] \in rx_port_list[q]
    BY <1>1, <1>9, <1>12 DEF Mine
  <2>2. CASE c = b
    \* Nothing is behind the packet that is forwarded.
    <3>1. Handled(d, q)' /\ b # d
      BY <1>2, <1>5, <1>12, <2>2 DEF Ahead
    <3>2. Handled(d, q) /\ d \in Forwarded
      BY <1>4, <1>8, <2>1, <3>1
    <3>3. q = t
      <4>1. Mine(d, q)
        BY <2>1, <3>2 DEF Mine
      <4>2. setup \in Setups
        BY DEF SimpleInv, TypeInv, TypeOK
      <4> QED
        BY <1>6, <2>1, <2>2, <4>2, PortsApart
    <3> QED
      BY <1>1, <3>2, <3>3
  <2>3. CASE c # b
    <3>1. c \in Forwarded
      BY <1>8, <2>1, <2>3
    <3>2. CASE d = b
      <4>1. <<b, c>> \notin age
        BY <1>6 DEF OrderInv, Fresh
      <4> QED
        BY <1>7, <2>3, <3>2, <4>1
    <3>3. CASE d # b
      <4>1. d \in Forwarded
        BY <1>8, <2>1, <3>3
      <4>2. Ahead(c, d, q)
        BY <1>2, <1>4, <1>12, <3>3 DEF Ahead
      <4>3. Mine(c, q) /\ Mine(d, q)
        BY <2>1, <3>1, <4>1 DEF Mine
      <4>4. <<d, c>> \notin age
        BY <4>2, <4>3 DEF OrderInv, Ordered
      <4> QED
        BY <1>7, <2>3, <4>4
    <3> QED
      BY <3>2, <3>3
  <2> QED
    BY <2>2, <2>3
<1>13. Ordered'
  BY <1>12 DEF Ordered
<1> QED
  BY <1>10, <1>11, <1>13

\* An lcore receives from its own ports, in every step: the end of a drain gives
\* them back to it, and each receive takes one away.
LEMMA DrainNextRounds ==
    ASSUME TypeInv, Rounds, NEW t \in Lcore, DrainNext(t), UNCHANGED setup
    PROVE  Rounds'
<1>1. rx_port_list' = rx_port_list
  BY SetupKept
<1>2. pc \in [Thread -> Label] /\ rest \in [Thread -> SUBSET Port]
  BY DEF TypeInv, TypeOK, Label, Working
<1>3. \A u \in Thread \ {t} : pc'[u] = pc[u] /\ rest'[u] = rest[u]
  BY <1>2 DEF DrainNext, Goto
<1>4. pc'[t] = "drain" \/ rest'[t] = rx_port_list[t]
  BY <1>2 DEF DrainNext, Goto
<1> QED
  BY <1>1, <1>3, <1>4 DEF Rounds

LEMMA SameRounds ==
    ASSUME Rounds, UNCHANGED setup,
           \A t \in Lcore : /\ rest'[t] \subseteq rest[t]
                            /\ pc[t] \in {"drain", "reset"} => pc'[t] \in {"drain", "reset"}
    PROVE  Rounds'
<1>1. rx_port_list' = rx_port_list
  BY SetupKept
<1> QED
  BY <1>1 DEF Rounds

LEMMA NextRounds ==
    ASSUME TypeInv, Rounds, [Next]_vars
    PROVE  Rounds'
<1>1. UNCHANGED setup
  BY NextSetup
<1>2. pc \in [Thread -> Label] /\ rest \in [Thread -> SUBSET Port]
  BY DEF TypeInv, TypeOK, Label, Working
<1>3. CASE UNCHANGED vars
  BY <1>1, <1>3, SameRounds DEF vars, loop
<1>4. ASSUME NEW t \in Thread, Transmit(t)
      PROVE  Rounds'
  <2>1. rest' = rest
    BY <1>4 DEF Transmit, Read, Put, Write, Flood, Release, FloodDone, loop
  <2>2. pc[t] \notin {"drain", "reset"}
    BY <1>4 DEF Transmit, Read, Put, Write, Flood, Release, FloodDone
  <2>3. \A u \in Thread \ {t} : pc'[u] = pc[u]
    BY <1>2, <1>4 DEF Transmit, Read, Put, Write, Flood, Release, FloodDone, Return, Goto
  <2> QED
    BY <1>1, <2>1, <2>2, <2>3, SameRounds
<1>5. ASSUME NEW t \in Lcore, Core(t)
      PROVE  Rounds'
  <2>1. CASE Top(t)
    <3>1. \A u \in Thread \ {t} : pc'[u] = pc[u] /\ rest'[u] = rest[u]
      BY <1>2, <2>1 DEF Top, Goto
    <3>2. pc'[t] = "drain" \/ rest'[t] = rx_port_list[t]
      BY <1>2, <2>1 DEF Top, Goto
    <3>3. rx_port_list' = rx_port_list
      BY <1>1, SetupKept
    <3> QED
      BY <3>1, <3>2, <3>3 DEF Rounds
  <2>2. CASE DrainSkip(t) \/ DrainReset(t)
    BY <1>1, <2>2, DrainNextRounds DEF DrainSkip, DrainReset
  <2>3. CASE DrainSend(t)
    <3>1. rest' = rest /\ Goto(t, "reset")
      BY <2>3 DEF DrainSend, loop
    <3>2. \A u \in Thread : pc'[u] = IF u = t THEN "reset" ELSE pc[u]
      BY <1>2, <3>1 DEF Goto
    <3> QED
      BY <1>1, <3>1, <3>2, SameRounds
  <2>4. CASE RxBurst(t)
    <3>1. pc[t] = "rx" /\ rest' = [rest EXCEPT ![t] = @ \ {Min(@)}]
      BY <2>4 DEF RxBurst
    <3>2. \A u \in Thread \ {t} : pc'[u] = pc[u]
      BY <1>2, <2>4 DEF RxBurst, Goto
    <3>3. \A u \in Lcore : rest'[u] \subseteq rest[u]
      BY <1>2, <3>1
    <3> QED
      BY <1>1, <3>1, <3>2, <3>3, SameRounds
  <2>5. ASSUME NEW b \in Mbuf, Forward(t, b) \/ Consume(t, b)
        PROVE  Rounds'
    <3>1. pc[t] = "pkts" /\ rest' = rest
      BY <2>5 DEF Forward, Consume
    <3>2. \A u \in Thread \ {t} : pc'[u] = pc[u]
      BY <1>2, <2>5 DEF Forward, Consume, Dispatch, Goto
    <3> QED
      BY <1>1, <3>1, <3>2, SameRounds
  <2>6. CASE Transmit(t)
    BY <1>4, <2>6
  <2> QED
    BY <1>5, <2>1, <2>2, <2>3, <2>4, <2>5, <2>6 DEF Core
<1>6. ASSUME NEW t \in Lcore, Tick(t)
      PROVE  Rounds'
  BY <1>1, <1>6, SameRounds DEF Tick
<1>7. CASE PacketOut \/ PacketOutNoBuffer
  <2>1. pc[ANY] = "idle" /\ rest' = rest
    BY <1>7 DEF PacketOut, PacketOutNoBuffer, loop
  <2>2. \A u \in Thread \ {ANY} : pc'[u] = pc[u]
    BY <1>2, <1>7 DEF PacketOut, PacketOutNoBuffer, Dispatch, Goto
  <2> QED
    BY <1>1, <2>1, <2>2, SameRounds
<1>8. ASSUME NEW p \in Port, NicDone(p)
      PROVE  Rounds'
  BY <1>1, <1>8, SameRounds DEF NicDone, loop
<1>9. CASE Next
  <2>1. Transmit(ANY) => Rounds'
    BY <1>4
  <2> QED
    BY <1>5, <1>6, <1>7, <1>8, <1>9, <2>1 DEF Next
<1> QED
  BY <1>3, <1>9

LEMMA MoveOrder ==
    ASSUME SimpleInv, OrderInv, Move
    PROVE  Fresh' /\ Owned' /\ Ordered'
BY QuietOrder, SendOrder, StoresOrder, ReceivesOrder, ForwardsOrder, ConsumesOrder, TakesOrder,
   CompletesOrder DEF Move

InOrderHeld == Simple => Fresh /\ Owned /\ Ordered

LEMMA NextInOrder ==
    ASSUME TypeInv, Held, Rounds, InOrderHeld, [Next]_vars
    PROVE  InOrderHeld'
<1> SUFFICES ASSUME Simple'
             PROVE  Fresh' /\ Owned' /\ Ordered'
  BY DEF InOrderHeld
<1>1. UNCHANGED setup
  BY NextSetup
<1>2. Simple
  <2>1. rx_port_list' = rx_port_list /\ Floods' = Floods
    BY <1>1, SetupKept
  <2> QED
    BY <1>1, <2>1 DEF Simple, Exclusive, Floods
<1>3. SimpleInv /\ OrderInv
  BY <1>2 DEF Held, SimpleInv, InOrderHeld, OrderInv
<1> QED
  BY <1>3, NextMoves, MoveOrder

LEMMA InitOrder ==
    ASSUME Init
    PROVE  Fresh /\ Owned /\ Ordered /\ Rounds
<1>1. Forwarded = {} /\ age = {}
  BY DEF Init, Forwarded
<1>2. \A b, t : ~Received(b, t)
  BY DEF Init, Received
<1>3. \A t \in Lcore : rest[t] = {}
  BY DEF Init
<1> QED
  BY <1>1, <1>2, <1>3 DEF Fresh, Owned, Ordered, Rounds, Mine

\* What stands before another in a transmit queue and the burst behind it is
\* ahead of it.
LEMMA BeforeIsAhead ==
    ASSUME TypeInv, NEW p \in Port, NEW q \in Lcore, NEW b, NEW c,
           Before(nic[p] \o Waiting(q, p), b, c)
    PROVE  Ahead(b, c, q)
<1> DEFINE s == nic[p]
           w == Waiting(q, p)
<1>1. s \in Seq(Mbuf)
  BY DEF TypeInv, TypeOK
<1>2. /\ w \in Seq(Mbuf) /\ WaitLen(q, p) = Len(w)
      /\ \A i \in 1 .. Len(w) : w[i] = m_table[q][p][i]
  BY WaitingIs
<1>3. \A x, i : i \in 1 .. Len(s) /\ s[i] = x => InNic(x, p, i)
  BY DEF InNic
<1>4. \A x, i : i \in 1 .. Len(w) /\ w[i] = x => InBurst(x, q, p, i)
  BY <1>2 DEF InBurst
<1>5. PICK i, j \in DOMAIN (s \o w) : i < j /\ (s \o w)[i] = b /\ (s \o w)[j] = c
  BY DEF Before
<1> HIDE DEF s, w
<1>6. /\ Len(s) \in Nat /\ Len(w) \in Nat
      /\ i \in 1 .. Len(s) + Len(w) /\ j \in 1 .. Len(s) + Len(w)
  BY <1>1, <1>2
<1>7. \A k \in 1 .. Len(s) + Len(w) : (s \o w)[k] = IF k <= Len(s) THEN s[k] ELSE w[k - Len(s)]
  BY <1>1, <1>2
<1>8. CASE j <= Len(s)
  <2>1. i \in 1 .. Len(s) /\ j \in 1 .. Len(s) /\ i <= Len(s)
    BY <1>5, <1>6, <1>8
  <2>2. s[i] = b /\ s[j] = c
    BY <1>5, <1>6, <1>7, <1>8, <2>1
  <2> QED
    BY <1>3, <1>5, <2>1, <2>2 DEF Ahead
<1>9. CASE i <= Len(s) /\ j > Len(s)
  <2>1. i \in 1 .. Len(s) /\ j - Len(s) \in 1 .. Len(w) /\ ~(j <= Len(s))
    BY <1>6, <1>9
  <2>2. s[i] = b /\ w[j - Len(s)] = c
    BY <1>5, <1>6, <1>7, <1>9, <2>1
  <2> QED
    BY <1>3, <1>4, <2>1, <2>2 DEF Ahead
<1>10. CASE i > Len(s)
  <2>1. /\ i - Len(s) \in 1 .. Len(w) /\ ~(i <= Len(s))
        /\ j - Len(s) \in 1 .. Len(w) /\ ~(j <= Len(s))
        /\ i - Len(s) < j - Len(s)
    BY <1>5, <1>6, <1>10
  <2>2. w[i - Len(s)] = b /\ w[j - Len(s)] = c
    BY <1>5, <1>6, <1>7, <2>1
  <2> QED
    BY <1>4, <2>1, <2>2 DEF Ahead
<1> QED
  BY <1>6, <1>8, <1>9, <1>10

\* Packets that came in at one port and leave at another leave in their order:
\* in the driver's queue and the burst behind it no younger packet is ahead.
THEOREM InOrderHolds == Spec => []InOrder
<1>1. Init => TypeInv /\ Held /\ Rounds /\ InOrderHeld
  BY InitTypes, InitPlaces, InitOrder DEF Held, InOrderHeld
<1>2. TypeInv /\ Held /\ Rounds /\ InOrderHeld /\ [Next]_vars
        => TypeInv' /\ Held' /\ Rounds' /\ InOrderHeld'
  BY NextTypes, NextHeld, NextRounds, NextInOrder
<1>3. TypeInv /\ Held /\ InOrderHeld => InOrder
  <2> SUFFICES ASSUME TypeInv, Held, InOrderHeld, Exclusive, ~Floods,
                      NEW p \in Port, NEW q \in Polling, NEW b \in Forwarded, NEW c \in Forwarded,
                      in_port[b] \in rx_port_list[q], in_port[b] = in_port[c],
                      Before(nic[p] \o Waiting(q, p), b, c)
               PROVE  <<c, b>> \notin age
    BY DEF InOrder
  <2>1. q \in Lcore /\ Mine(b, q) /\ Mine(c, q)
    BY DEF Polling, Mine
  <2>2. Ahead(b, c, q)
    BY <2>1, BeforeIsAhead
  <2> QED
    BY <2>1, <2>2 DEF InOrderHeld, Simple, Ordered
<1> QED
  BY <1>1, <1>2, <1>3, PTL DEF Spec

=============================================================================
