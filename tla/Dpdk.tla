-------------------------------- MODULE Dpdk --------------------------------
(***************************************************************************)
(* The DPDK switch: one polling loop per logical core, the bursts it       *)
(* collects per port, the buffers it takes from the pool and gives back,   *)
(* and the agent's thread, which transmits PacketOut messages through the  *)
(* bursts of core 0.  The driver and its rings are external: a burst is    *)
(* accepted as far as there are descriptors, and a buffer is freed when it *)
(* has been sent.                                                          *)
(***************************************************************************)
EXTENDS Integers, Sequences, FiniteSets, FiniteSetsExt, SequencesExt

CONSTANTS
    NPorts,        \* RTE_MAX_ETHPORTS
    NLcores,       \* RTE_MAX_LCORE
    Setups,        \* how the switch is started and used: see Setup
    RxPerLcore,    \* l2fwd_rx_queue_per_lcore, the option -q
    MAX_PKT_BURST,
    NbTxd,         \* nb_txd: descriptors of a port's transmit queue
    RefWrap,       \* 2^16: a reference count has 16 bits
    Mbuf,          \* the buffers there may be in l2fwd_pktmbuf_pool
    NONE           \* no buffer

Port == 0 .. NPorts - 1
Lcore == 0 .. NLcores - 1
ANY == NLcores  \* rte_lcore_id() in a thread that is no lcore
Thread == Lcore \cup {ANY}
FLOOD == -3  \* 0xfffffffd and its like, as signed numbers
CONTROLLER == -2
DROP == -1
Verdict == Port \cup {FLOOD, CONTROLLER, DROP}

\* the enabled lcores and ports (l2fwd_enabled_port_mask), the buffers of the
\* pool, what the program may return, and the out_port of PacketOut messages.
\* Both name enabled ports: the switch does not look (dpdkswitch/main.c, 236 and
\* 283), and indexes tx_mbufs with whatever port it is given.
Setup == [lcores : SUBSET Lcore, ports : SUBSET Port, mbufs : SUBSET Mbuf,
          program : SUBSET Verdict, agent : SUBSET (Port \cup {FLOOD})]

ASSUME DpdkAssumption ==
    /\ NPorts \in Nat \ {0}
    /\ NLcores \in Nat \ {0}
    /\ Setups \subseteq Setup
    /\ RxPerLcore \in Nat \ {0}
    /\ \A s \in Setups :
          /\ s.ports # {} /\ Cardinality(s.ports) <= Cardinality(s.lcores) * RxPerLcore
          /\ (s.program \cup s.agent) \cap Port \subseteq s.ports
    /\ MAX_PKT_BURST \in Nat \ {0}
    /\ NbTxd \in Nat \ {0}
    /\ RefWrap \in Nat /\ RefWrap > NPorts
    /\ NONE \notin Mbuf

VARIABLES
    setup,        \* one of Setups; it never changes
    pool,         \* the buffers in l2fwd_pktmbuf_pool
    refcnt,       \* the reference count of each buffer
    in_port,      \* in the metadata before each packet
    len, m_table, \* tx_mbufs of each lcore and port
    nic,          \* external: the buffers in the transmit queue of each port
    pc,           \* where each thread is
    due,          \* whether drain_tsc has passed since the lcore last drained
    rest,         \* the ports still to drain or to receive from in this round
    pkts,         \* what is left of pkts_burst
    m, port, num, \* arguments of send_packet, and its local len
    flood,        \* the ports still to visit in the FLOOD loop
    age           \* history, if Exclusive: <<b, c>> if b was forwarded no later
                  \* than c, of received buffers that have not come back

bufs == <<pool, refcnt, in_port, age>>
queues == <<len, m_table>>
call == <<m, port, num, flood>>
loop == <<due, rest, pkts>>
vars == <<setup, bufs, queues, nic, pc, loop, call>>

-----------------------------------------------------------------------------
(* main()                                                                  *)

Rank(n, S) == Cardinality({k \in S : k < n})

\* The enabled lcores are filled with the enabled ports, both in ascending order.
rx_port_list ==
    [l \in Lcore |->
        {p \in setup.ports :
            l \in setup.lcores /\ Rank(p, setup.ports) \div RxPerLcore = Rank(l, setup.lcores)}]

\* The agent's thread has the queues of lcore 0 for itself.
Exclusive == rx_port_list[0] = {}

Polling == {l \in Lcore : rx_port_list[l] # {}}

Init ==
    /\ setup \in Setups
    /\ pool = setup.mbufs
    /\ refcnt = [b \in Mbuf |-> 0]
    /\ in_port = [b \in Mbuf |-> 0]
    /\ len = [l \in Lcore |-> [p \in Port |-> 0]]
    /\ m_table = [l \in Lcore |-> [p \in Port |-> [i \in 1 .. MAX_PKT_BURST |-> NONE]]]
    /\ nic = [p \in Port |-> << >>]
    /\ pc = [t \in Thread |-> IF t \in Polling THEN "loop" ELSE "idle"]
    /\ due = [t \in Lcore |-> FALSE]
    /\ rest = [t \in Thread |-> {}]
    /\ pkts = [t \in Thread |-> {}]
    /\ m = [t \in Thread |-> NONE]
    /\ port = [t \in Thread |-> 0]
    /\ num = [t \in Thread |-> 0]
    /\ flood = [t \in Thread |-> {}]
    /\ age = {}

Goto(t, l) == pc' = [pc EXCEPT ![t] = l]
-----------------------------------------------------------------------------
(* Buffers                                                                 *)

Occurrences(s, b) == Cardinality({i \in DOMAIN s : s[i] = b})

\* rte_pktmbuf_free of the buffers of s, one after the other: a buffer whose
\* count reaches zero goes back to the pool (and its metadata is forgotten)
Free(s) ==
    LET back == {b \in Range(s) : refcnt[b] \in 1 .. Occurrences(s, b)}
    IN  /\ refcnt' = [b \in Mbuf |-> (refcnt[b] + RefWrap - Occurrences(s, b)) % RefWrap]
        /\ pool' = pool \cup back
        /\ in_port' = [b \in Mbuf |-> IF b \in back THEN 0 ELSE in_port[b]]
        /\ age' = {r \in age : r[1] \notin back /\ r[2] \notin back}

\* mutant: what the driver did not take is not freed
SendBurstNoFree(p, s) ==
    LET sent == Min({Len(s), NbTxd - Len(nic[p])})
    IN  /\ nic' = [nic EXCEPT ![p] = @ \o SubSeq(s, 1, sent)]
        /\ UNCHANGED bufs

\* l2fwd_send_burst: what the driver does not take is freed
SendBurst(p, s) ==
    LET sent == Min({Len(s), NbTxd - Len(nic[p])})
    IN  /\ nic' = [nic EXCEPT ![p] = @ \o SubSeq(s, 1, sent)]
        /\ Free(SubSeq(s, sent + 1, Len(s)))

\* the port has sent its first buffer
NicDone(p) ==
    /\ nic[p] # << >>
    /\ nic' = [nic EXCEPT ![p] = Tail(@)]
    /\ Free(<<Head(nic[p])>>)
    /\ UNCHANGED <<setup, queues, pc, loop, call>>
-----------------------------------------------------------------------------
(* l2fwd_send_packet and pkt_transmit, by any thread                       *)

\* the agent's thread has no lcore id and uses the queues of lcore 0
Queue(t) == IF t = ANY THEN 0 ELSE t

\* the next packet of the burst, else the next port, else the next round
AfterPacket(t, left) ==
    IF left # {} THEN "pkts" ELSE IF rest[t] # {} THEN "rx" ELSE "loop"

\* back from pkt_transmit; its arguments and locals are gone
Return(t) ==
    /\ Goto(t, IF t = ANY THEN "idle" ELSE AfterPacket(t, pkts[t]))
    /\ m' = [m EXCEPT ![t] = NONE]
    /\ port' = [port EXCEPT ![t] = 0]
    /\ num' = [num EXCEPT ![t] = 0]
    /\ UNCHANGED flood

Read(t) ==
    /\ pc[t] = "read"
    /\ num' = [num EXCEPT ![t] = len[Queue(t)][port[t]]]
    /\ Goto(t, "put")
    /\ UNCHANGED <<setup, bufs, queues, nic, loop, m, port, flood>>

\* mutant: the burst is sent when the table is more than full
FullLate(n) == n > MAX_PKT_BURST

Full(n) == n = MAX_PKT_BURST

\* tx_mbufs[p].len = n.  What the table holds behind its length is read again
\* only if two threads use it, and forgotten otherwise.
SetLen(q, p, n) ==
    /\ len' = [len EXCEPT ![q][p] = n]
    /\ m_table' = IF Exclusive /\ n = 0
                  THEN [m_table EXCEPT ![q][p] = [i \in 1 .. MAX_PKT_BURST |-> NONE]]
                  ELSE m_table

\* store the buffer, and send the burst when it is full
Put(t) ==
    LET q == Queue(t)
        p == port[t]
        n == num[t] + 1
        table == [m_table[q][p] EXCEPT ![n] = m[t]]
    IN  /\ pc[t] = "put"
        /\ m_table' = [m_table EXCEPT ![q][p] = table]
        /\ IF Full(n)
           THEN /\ SendBurst(p, table)
                /\ num' = [num EXCEPT ![t] = 0]
           ELSE /\ num' = [num EXCEPT ![t] = n]
                /\ UNCHANGED <<bufs, nic>>
        /\ Goto(t, "write")
        /\ UNCHANGED <<setup, len, loop, m, port, flood>>

Write(t) ==
    /\ pc[t] = "write"
    /\ SetLen(Queue(t), port[t], num[t])
    /\ IF flood[t] = {} THEN Return(t) ELSE Goto(t, "release") /\ UNCHANGED call
    /\ UNCHANGED <<setup, bufs, nic, loop>>

\* the FLOOD loop: retain the buffer for each port but the one it came from,
\* and release it, for every port
Flood(t) ==
    /\ pc[t] = "flood"
    /\ flood[t] # {}
    /\ LET p == Min(flood[t])
       IN  IF p # in_port[m[t]]
           THEN /\ refcnt' = [refcnt EXCEPT ![m[t]] = (@ + 1) % RefWrap]
                /\ port' = [port EXCEPT ![t] = p]
                /\ Goto(t, "read")
           ELSE /\ Goto(t, "release")
                /\ UNCHANGED <<refcnt, port>>
    /\ UNCHANGED <<setup, pool, age, in_port, queues, nic, loop, m, num, flood>>

Release(t) ==
    /\ pc[t] = "release"
    /\ refcnt' = [refcnt EXCEPT ![m[t]] = (@ + RefWrap - 1) % RefWrap]
    /\ flood' = [flood EXCEPT ![t] = @ \ {Min(@)}]
    /\ Goto(t, "flood")
    /\ UNCHANGED <<setup, pool, age, in_port, queues, nic, loop, m, port, num>>

FloodDone(t) ==
    /\ pc[t] = "flood"
    /\ flood[t] = {}
    /\ Return(t)
    /\ UNCHANGED <<setup, bufs, queues, nic, loop>>

\* where pkt_transmit starts for a buffer that is kept
Dispatch(t, b, v) ==
    /\ m' = [m EXCEPT ![t] = b]
    /\ IF v = FLOOD
       THEN /\ flood' = [flood EXCEPT ![t] = setup.ports]
            /\ Goto(t, "flood")
            /\ UNCHANGED port
       ELSE /\ port' = [port EXCEPT ![t] = v]
            /\ Goto(t, "read")
            /\ UNCHANGED flood

Transmit(t) == Read(t) \/ Put(t) \/ Write(t) \/ Flood(t) \/ Release(t) \/ FloodDone(t)
-----------------------------------------------------------------------------
(* l2fwd_main_loop                                                         *)

Tick(t) ==
    /\ t \in Polling
    /\ ~due[t]
    /\ due' = [due EXCEPT ![t] = TRUE]
    /\ UNCHANGED <<setup, bufs, queues, nic, pc, rest, pkts, call>>

\* mutant: a burst is sent when it is full only
TopNoDrain(t) ==
    /\ pc[t] = "loop"
    /\ Goto(t, "rx")
    /\ rest' = [rest EXCEPT ![t] = rx_port_list[t]]
    /\ UNCHANGED <<setup, bufs, queues, nic, due, pkts, call>>

\* the head of the loop: drain if it is time, then receive
Top(t) ==
    /\ pc[t] = "loop"
    /\ IF due[t]
       THEN Goto(t, "drain") /\ rest' = [rest EXCEPT ![t] = setup.ports]
       ELSE Goto(t, "rx") /\ rest' = [rest EXCEPT ![t] = rx_port_list[t]]
    /\ due' = [due EXCEPT ![t] = FALSE]
    /\ UNCHANGED <<setup, bufs, queues, nic, pkts, call>>

\* the port at hand is done: the next one, or on to the receive queues
DrainNext(t) ==
    IF rest[t] = {Min(rest[t])}
    THEN Goto(t, "rx") /\ rest' = [rest EXCEPT ![t] = rx_port_list[t]]
    ELSE Goto(t, "drain") /\ rest' = [rest EXCEPT ![t] = @ \ {Min(@)}]

DrainSkip(t) ==
    /\ pc[t] = "drain"
    /\ len[t][Min(rest[t])] = 0
    /\ DrainNext(t)
    /\ UNCHANGED <<setup, bufs, queues, nic, due, pkts, call>>

DrainSend(t) ==
    /\ pc[t] = "drain"
    /\ LET p == Min(rest[t])
       IN  /\ len[t][p] > 0
           /\ SendBurst(p, SubSeq(m_table[t][p], 1, len[t][p]))
    /\ Goto(t, "reset")
    /\ UNCHANGED <<setup, queues, loop, call>>

\* mutant: the length of a burst that was sent is kept
DrainNoReset(t) ==
    /\ pc[t] = "reset"
    /\ DrainNext(t)
    /\ UNCHANGED <<setup, bufs, queues, nic, due, pkts, call>>

DrainReset(t) ==
    /\ pc[t] = "reset"
    /\ SetLen(t, Min(rest[t]), 0)
    /\ DrainNext(t)
    /\ UNCHANGED <<setup, bufs, nic, due, pkts, call>>

\* rte_eth_rx_burst on the next port: buffers of the pool come back filled
RxBurst(t) ==
    /\ pc[t] = "rx"
    /\ \E batch \in SUBSET pool :
          /\ Cardinality(batch) <= MAX_PKT_BURST
          /\ pkts' = [pkts EXCEPT ![t] = batch]
          /\ pool' = pool \ batch
          /\ refcnt' = [b \in Mbuf |-> IF b \in batch THEN 1 ELSE refcnt[b]]
          /\ in_port' = [b \in Mbuf |-> IF b \in batch THEN Min(rest[t]) ELSE in_port[b]]
          /\ rest' = [rest EXCEPT ![t] = @ \ {Min(@)}]
          /\ Goto(t, IF batch # {} THEN "pkts" ELSE IF rest'[t] # {} THEN "rx" ELSE "loop")
    /\ UNCHANGED <<setup, age, queues, nic, due, call>>

Forwarded == {b \in Mbuf : <<b, b>> \in age}

\* the next packet of pkts_burst (whose order is chosen here) is to be queued,
\* on one port or on several
Forward(t, b) ==
    /\ pc[t] = "pkts"
    /\ b \in pkts[t]
    /\ pkts' = [pkts EXCEPT ![t] = @ \ {b}]
    /\ age' = IF Exclusive THEN age \cup {<<c, b>> : c \in Forwarded \cup {b}} ELSE age
    /\ \E v \in setup.program \ {CONTROLLER, DROP} : Dispatch(t, b, v)
    /\ UNCHANGED <<setup, pool, refcnt, in_port, queues, nic, due, rest, num>>

\* it is for the controller, or dropped: freed at once
Consume(t, b) ==
    /\ pc[t] = "pkts"
    /\ b \in pkts[t]
    /\ setup.program \cap {CONTROLLER, DROP} # {}
    /\ pkts' = [pkts EXCEPT ![t] = @ \ {b}]
    /\ Free(<<b>>)
    /\ Goto(t, AfterPacket(t, pkts'[t]))
    /\ UNCHANGED <<setup, queues, nic, due, rest, call>>

Core(t) ==
    \/ Top(t) \/ DrainSkip(t) \/ DrainSend(t) \/ DrainReset(t) \/ RxBurst(t)
    \/ \E b \in Mbuf : Forward(t, b) \/ Consume(t, b)
    \/ Transmit(t)
-----------------------------------------------------------------------------
(* transmit(), in the agent's thread                                       *)

PacketOut ==
    /\ pc[ANY] = "idle"
    /\ \E b \in pool, i \in setup.ports, v \in setup.agent :
          /\ pool' = pool \ {b}
          /\ refcnt' = [refcnt EXCEPT ![b] = 1]
          /\ in_port' = [in_port EXCEPT ![b] = i]
          /\ Dispatch(ANY, b, v)
    /\ UNCHANGED <<setup, age, queues, nic, loop, num>>

\* the pool is empty: transmit() copies to NULL and the switch is gone
PacketOutNoBuffer ==
    /\ pc[ANY] = "idle"
    /\ setup.agent # {}
    /\ pool = {}
    /\ Goto(ANY, "crash")
    /\ UNCHANGED <<setup, bufs, queues, nic, loop, call>>

Running == pc[ANY] # "crash"

Next ==
    /\ Running
    /\ \/ \E t \in Lcore : Core(t) \/ Tick(t)
       \/ Transmit(ANY) \/ PacketOut \/ PacketOutNoBuffer
       \/ \E p \in Port : NicDone(p)

Spec == Init /\ [][Next]_vars

\* The lcores run, time passes, and the ports send what they were given.
\* Nothing makes packets or PacketOut messages arrive.
FairSpec ==
    /\ Spec
    /\ \A t \in Lcore : WF_vars(Running /\ Core(t)) /\ WF_vars(Running /\ Tick(t))
    /\ \A p \in Port : WF_vars(Running /\ NicDone(p))
-----------------------------------------------------------------------------
(* Properties                                                              *)

\* Every variable holds what its C type and its use allow.
TypeOK ==
    /\ setup \in Setups
    /\ pool \subseteq Mbuf
    /\ refcnt \in [Mbuf -> 0 .. RefWrap - 1]
    /\ in_port \in [Mbuf -> Port]
    /\ len \in [Lcore -> [Port -> 0 .. MAX_PKT_BURST - 1]]
    /\ m_table \in [Lcore -> [Port -> [1 .. MAX_PKT_BURST -> Mbuf \cup {NONE}]]]
    /\ nic \in [Port -> Seq(Mbuf)]
    /\ \A p \in Port : Len(nic[p]) <= NbTxd
    /\ pc \in [Thread -> {"idle", "crash", "loop", "drain", "reset", "rx", "pkts",
                          "flood", "release", "read", "put", "write"}]
    /\ due \in [Lcore -> BOOLEAN]
    /\ rest \in [Thread -> SUBSET Port]
    /\ pkts \in [Thread -> SUBSET Mbuf]
    /\ m \in [Thread -> Mbuf \cup {NONE}]
    /\ port \in [Thread -> Port]
    /\ num \in [Thread -> 0 .. MAX_PKT_BURST]
    /\ flood \in [Thread -> SUBSET Port]
    /\ age \subseteq Mbuf \X Mbuf

\* No store leaves m_table, although the agent and lcore 0 read and write its
\* length in turns when lcore 0 polls a port, as long as program and controller
\* name enabled ports only, as DpdkAssumption says.
StoreInTable == \A t \in Thread : pc[t] = "put" => num[t] < MAX_PKT_BURST

InHand(t) == IF pc[t] \in {"flood", "release", "read", "put", "write"} THEN {m[t]} ELSE {}

\* thread t has handed the burst of queue q for port p to the driver and has
\* not set its length yet
Sent(t, q, p) ==
    /\ Queue(t) = q
    /\ \/ pc[t] = "write" /\ port[t] = p /\ num[t] = 0
       \/ pc[t] = "reset" /\ Min(rest[t]) = p

Waiting(q, p) ==
    IF \E t \in Thread : Sent(t, q, p) THEN << >>
    ELSE SubSeq(m_table[q][p], 1, len[q][p])

\* how many places hold buffer b: of the transmit queues of the driver, of the
\* bursts that wait, and of what lcores have received
Holders(b) ==
    Cardinality({x \in Port \X (1 .. NbTxd) :
                    x[2] \in DOMAIN nic[x[1]] /\ nic[x[1]][x[2]] = b})
    + Cardinality({x \in Lcore \X Port \X (1 .. MAX_PKT_BURST) :
                      /\ x[3] \in DOMAIN Waiting(x[1], x[2])
                      /\ Waiting(x[1], x[2])[x[3]] = b})
    + Cardinality({t \in Thread : b \in pkts[t]})

\* The reference count of a buffer is the number of places that hold it, and
\* the pool has those that nobody holds: none is lost and none is sent from
\* while it is free ("add the reference count for each port we flood the
\* packet to", "decrement the reference count by one to free it",
\* dpdkswitch/main.c, 263 and 268).  A buffer a thread is working on is left
\* out.
RefsCounted ==
    Exclusive =>
        \A b \in setup.mbufs \ UNION {InHand(t) : t \in Thread} :
            /\ refcnt[b] = Holders(b)
            /\ b \in pool <=> Holders(b) = 0

Floods == FLOOD \in setup.program \cup setup.agent

\* That is so as long as nothing is flooded and the agent's thread shares its
\* bursts with no lcore that polls, whatever the bursts, the drains and the drops
\* of full queues do.
RefsCountedUnlessFloodedOrShared == Exclusive /\ ~Floods => RefsCounted

Before(s, b, c) == \E i, j \in DOMAIN s : i < j /\ s[i] = b /\ s[j] = c

\* Packets that came in at one port and leave at another leave in their order,
\* each once: behind those handed to the driver wait the younger ones.
InOrder ==
    Exclusive /\ ~Floods =>
        \A p \in Port, q \in Polling, b, c \in Forwarded :
            /\ in_port[b] \in rx_port_list[q]
            /\ in_port[b] = in_port[c]
            /\ Before(nic[p] \o Waiting(q, p), b, c)
            => <<c, b>> \notin age

\* What a lcore received goes back to the pool: it does not stay in a burst
\* that is not full.
EveryBufferReturns ==
    Exclusive /\ ~Floods =>
        \A b \in Mbuf : (\E t \in Lcore : b \in pkts[t]) ~> (b \in pool \/ ~Running)
=============================================================================
