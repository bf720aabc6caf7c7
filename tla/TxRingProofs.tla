---------------------------- MODULE TxRingProofs ----------------------------
(***************************************************************************)
(* Proofs about TxRing for a ring of any number of frames and any number   *)
(* of packets: where one thread transmits on the port, whatever the kernel *)
(* and the other thread do meanwhile, the marked frames are a contiguous   *)
(* run from the kernel's head to frame_num, so the ring is a first-in      *)
(* first-out queue and a send() that runs to its end leaves it empty.      *)
(***************************************************************************)
EXTENDS TxRing, FiniteSetTheorems, SequenceTheorems, TLAPS

USE TxRingAssumption

\* thread t is in tx_frame; it has marked its frame and not yet advanced
Filling(t) == pc[t] \in {"check", "copy", "mark", "load", "store"}
Marked(t) == pc[t] \in {"load", "store"}
-----------------------------------------------------------------------------
(* Type correctness                                                        *)

\* In tx_frame there is a packet to transmit.
PacketInHand == \A t \in Thread : Filling(t) => pkt[t] \in Packet

TypeInv == TypeOK /\ PacketInHand

LEMMA InitType == Init => TypeInv
BY DEF Init, TypeInv, TypeOK, PacketInHand, Filling, Thread, Slot

\* Every step keeps the types, whichever threads transmit.
LEMMA NextType == TypeInv /\ [Next]_vars => TypeInv'
<1> SUFFICES ASSUME TypeInv, [Next]_vars
             PROVE  TypeInv'
  OBVIOUS
<1> USE DEF TypeInv, TypeOK, PacketInHand, Filling, Goto, ring, kernel, local, history, Slot
<1>1. ASSUME NEW t \in Thread, TxFrame(t)
      PROVE  TypeInv'
  <2>1. AfterTx(t) \in {"rx", "flush", "idle"}
    BY DEF AfterTx
  <2>2. CASE Ready(t)
    BY <2>2 DEF Ready
  <2>3. CASE Drop(t)
    BY <2>1, <2>3 DEF Drop
  <2>4. CASE Copy(t)
    BY <2>4 DEF Copy
  <2>5. CASE Mark(t)
    BY <2>5 DEF Mark
  <2>6. CASE Load(t)
    BY <2>6 DEF Load
  <2>7. CASE Store(t)
    <3>1. frame_num' \in Slot
      BY <2>7 DEF Store
    <3>2. accepted' \subseteq Packet /\ late' \subseteq accepted'
      BY <2>7 DEF Store, Accept
    <3>3. /\ pc' = [pc EXCEPT ![t] = AfterTx(t)]
          /\ UNCHANGED <<status, frame, head, sent, rx, raw, num, pkt, out, made, writers>>
      BY <2>7 DEF Store
    <3>4. pc' \in [Thread -> {"idle", "poll", "rx", "flush",
                              "check", "copy", "mark", "load", "store"}]
      BY <2>1, <3>3
    <3>5. PacketInHand'
      BY <2>1, <3>3
    <3> QED
      BY <3>1, <3>2, <3>3, <3>4, <3>5
  <2> QED
    BY <1>1, <2>2, <2>3, <2>4, <2>5, <2>6, <2>7 DEF TxFrame
<1>2. ASSUME NEW t \in Thread, KernelSend(t)
      PROVE  TypeInv'
  <2>1. frame[head] \in Packet \cup {0} /\ sent' = Append(sent, frame[head])
    BY <1>2 DEF KernelSend
  <2>2. sent' \in Seq(Packet \cup {0})
    BY <2>1, AppendProperties
  <2>3. head' \in Slot
    BY <1>2 DEF KernelSend
  <2>4. status' \in [Slot -> {"available", "request", "sending"}]
    BY <1>2 DEF KernelSend
  <2> QED
    BY <1>2, <2>2, <2>3, <2>4 DEF KernelSend
<1>3. ASSUME NEW t \in Thread, FlushEnd(t)
      PROVE  TypeInv'
  BY <1>3 DEF FlushEnd
<1>4. CASE KernelDone
  BY <1>4 DEF KernelDone
<1>5. CASE Arrive
  BY <1>5 DEF Arrive
<1>6. CASE Wake
  BY <1>6 DEF Wake, Thread
<1>7. CASE Pass
  BY <1>7 DEF Pass
<1>8. CASE Forward
  BY <1>8 DEF Forward, Thread, Packet
<1>9. CASE RxDone
  BY <1>9 DEF RxDone, Thread
<1>10. CASE PacketOut
  BY <1>10 DEF PacketOut, Thread, Packet
<1>11. CASE UNCHANGED vars
  BY <1>11 DEF vars
<1> QED
  BY <1>1, <1>2, <1>3, <1>4, <1>5, <1>6, <1>7, <1>8, <1>9, <1>10, <1>11
     DEF Next, Dataplane, Agent, Thread

\* Whatever threads transmit on the port, and however they interleave, tx_frame
\* stays inside the ring and every packet in it is one that was made.
THEOREM TypeCorrect == Spec => []TypeOK
<1>1. TypeInv => TypeOK
  BY DEF TypeInv
<1> QED
  BY InitType, NextType, <1>1, PTL DEF Spec
-----------------------------------------------------------------------------
(* Counting around the ring                                                *)

\* the i-th frame from h on
At(h, i) == IF h + i < FrameNr THEN h + i ELSE h + i - FrameNr

\* the n frames from h on
Run(h, n) == {At(h, i) : i \in 0 .. n - 1}

LEMMA Around ==
    ASSUME NEW h \in Slot
    PROVE  /\ \A i \in 0 .. FrameNr : At(h, i) \in Slot /\ (h + i) % FrameNr = At(h, i)
           /\ \A i \in 0 .. FrameNr - 1 : At(At(h, 1), i) = At(h, i + 1)
           /\ \A i \in 0 .. FrameNr - 1 : At(At(h, i), 1) = At(h, i + 1)
           /\ \A i, j \in 0 .. FrameNr - 1 : At(h, i) = At(h, j) => i = j
           /\ At(h, 0) = h /\ At(h, FrameNr) = h
BY DEF At, Slot

\* The frames of a run that fits the ring are different ones.
LEMMA RunSize ==
    ASSUME NEW h \in Slot, NEW n \in 0 .. FrameNr
    PROVE  Cardinality(Run(h, n)) = n
<1> DEFINE f == [i \in 1 .. n |-> At(h, i - 1)]
           T == Run(h, n)
<1>1. f \in [1 .. n -> T]
  BY DEF Run
<1>2. \A i, j \in 1 .. n : f[i] = f[j] => i = j
  <2> SUFFICES ASSUME NEW i \in 1 .. n, NEW j \in 1 .. n, f[i] = f[j]
               PROVE  i = j
    OBVIOUS
  <2>1. i - 1 \in 0 .. FrameNr - 1 /\ j - 1 \in 0 .. FrameNr - 1
    OBVIOUS
  <2>2. At(h, i - 1) = At(h, j - 1)
    OBVIOUS
  <2>3. i - 1 = j - 1
    BY <2>1, <2>2, Around
  <2> QED
    BY <2>3
<1>3. \A s \in T : \E i \in 1 .. n : f[i] = s
  <2> SUFFICES ASSUME NEW k \in 0 .. n - 1
               PROVE  \E i \in 1 .. n : f[i] = At(h, k)
    BY DEF Run
  <2>1. k + 1 \in 1 .. n /\ (k + 1) - 1 = k
    OBVIOUS
  <2> QED
    BY <2>1
<1> HIDE DEF f, T
<1>4. ExistsBijection(1 .. n, T)
  BY <1>1, <1>2, <1>3 DEF ExistsBijection, Bijection, Injection, Surjection, IsInjective
<1> QED
  BY <1>4, FS_CountingElements DEF T

\* A run grows at its end and shrinks at its start.
LEMMA RunGrows ==
    ASSUME NEW h \in Slot, NEW n \in 0 .. FrameNr - 1
    PROVE  /\ Run(h, n + 1) = Run(h, n) \cup {At(h, n)}
           /\ At(h, n) \notin Run(h, n)
<1>1. 0 .. (n + 1) - 1 = (0 .. n - 1) \cup {n}
  OBVIOUS
<1>2. Run(h, n + 1) = Run(h, n) \cup {At(h, n)}
  BY <1>1 DEF Run
<1>3. At(h, n) \notin Run(h, n)
  BY Around DEF Run
<1> QED
  BY <1>2, <1>3

LEMMA RunShrinks ==
    ASSUME NEW h \in Slot, NEW n \in 1 .. FrameNr
    PROVE  /\ h \in Run(h, n)
           /\ Run(At(h, 1), n - 1) = Run(h, n) \ {h}
           /\ At(At(h, 1), n - 1) = At(h, n)
<1>1. At(h, 0) = h /\ 0 \in 0 .. n - 1
  BY Around
<1>2. \A i \in 0 .. n - 2 : At(At(h, 1), i) = At(h, i + 1) /\ At(h, i + 1) # h
  <2> SUFFICES ASSUME NEW i \in 0 .. n - 2
               PROVE  At(At(h, 1), i) = At(h, i + 1) /\ At(h, i + 1) # h
    OBVIOUS
  <2>1. i + 1 \in 0 .. FrameNr - 1 /\ i \in 0 .. FrameNr - 1 /\ 0 \in 0 .. FrameNr - 1
    OBVIOUS
  <2>2. At(h, i + 1) = At(h, 0) => i + 1 = 0
    BY <2>1, Around
  <2> QED
    BY <1>1, <2>1, <2>2, Around
<1>3. Run(At(h, 1), n - 1) \subseteq Run(h, n) \ {h}
  <2> SUFFICES ASSUME NEW i \in 0 .. n - 2
               PROVE  At(At(h, 1), i) \in Run(h, n) \ {h}
    BY DEF Run
  <2>1. i + 1 \in 0 .. n - 1
    OBVIOUS
  <2> QED
    BY <1>2, <2>1 DEF Run
<1>4. Run(h, n) \ {h} \subseteq Run(At(h, 1), n - 1)
  <2> SUFFICES ASSUME NEW i \in 0 .. n - 1, At(h, i) # h
               PROVE  At(h, i) \in Run(At(h, 1), n - 1)
    BY DEF Run
  <2>1. i # 0
    BY <1>1
  <2>2. i - 1 \in 0 .. n - 2 /\ (i - 1) + 1 = i
    BY <2>1
  <2>3. At(At(h, 1), i - 1) = At(h, i)
    BY <1>2, <2>2
  <2> QED
    BY <2>2, <2>3 DEF Run
<1>5. n - 1 \in 0 .. FrameNr - 1 /\ (n - 1) + 1 = n
  OBVIOUS
<1>6. At(At(h, 1), n - 1) = At(h, n)
  BY <1>5, Around
<1> QED
  BY <1>1, <1>3, <1>4, <1>6 DEF Run
-----------------------------------------------------------------------------
(* One thread transmits: what it relies on from check to store             *)

\* No two threads transmit on this port.
Sole == \A t, u \in writers : t = u

\* The frame a thread fills is the one at frame_num, and stays its own: the
\* kernel leaves it alone until it is marked.
Places ==
    \A t \in Thread :
        /\ Filling(t) => t \in writers
        /\ pc[t] \in {"copy", "mark", "load", "store"} => raw[t] = frame_num
        /\ pc[t] \in {"copy", "mark"} => status[frame_num] = "available"
        /\ pc[t] = "mark" => frame[frame_num] = pkt[t]
        /\ pc[t] = "store" => num[t] = frame_num

\* where the next packet goes, once a marked frame is passed
NextFrame == IF \E t \in Thread : Marked(t) THEN At(frame_num, 1) ELSE frame_num

\* The marked frames are the run from the kernel's head to the next frame.
Contiguous(n) == Pending = Run(head, n) /\ NextFrame = At(head, n)

RingInv ==
    /\ TypeInv
    /\ Sole
    /\ Places
    /\ \E n \in 0 .. FrameNr : Contiguous(n)

\* A step that moves a thread among places before the mark, or none at all,
\* and changes no frame's mark, leaves the run as it is.
LEMMA RunKept ==
    ASSUME NEW n, Contiguous(n), UNCHANGED <<frame_num, head>>, Pending' = Pending,
           \A t \in Thread : Marked(t)' <=> Marked(t)
    PROVE  Contiguous(n)'
BY DEF Contiguous, NextFrame

\* If the frame at the kernel's head is not marked, none is.
LEMMA HeadTells ==
    ASSUME RingInv, status[head] # "request"
    PROVE  Pending = {}
<1>1. PICK n \in 0 .. FrameNr : Contiguous(n)
  BY DEF RingInv
<1>2. head \in Slot /\ head \notin Pending
  BY DEF RingInv, TypeInv, TypeOK, Pending
<1>3. n = 0
  BY <1>1, <1>2, RunShrinks DEF Contiguous
<1> QED
  BY <1>1, <1>3 DEF Contiguous, Run

\* Marking the frame at frame_num puts it at the end of the run, for there is
\* room.
LEMMA MarkGrows ==
    ASSUME RingInv, NEW t \in Thread, Mark(t), NEW n \in 0 .. FrameNr, Contiguous(n)
    PROVE  /\ n < FrameNr
           /\ frame_num = At(head, n)
           /\ Pending' = Pending \cup {frame_num}
           /\ frame_num \notin Pending
           /\ Contiguous(n + 1)'
<1> USE DEF RingInv, TypeInv, TypeOK, Filling, Marked
<1>1. /\ pc[t] = "mark" /\ raw[t] = frame_num /\ status[frame_num] = "available"
      /\ head \in Slot /\ frame_num \in Slot
  BY DEF Mark, Places
<1>2. \A u \in Thread : ~Marked(u)
  BY <1>1 DEF Sole, Places
<1>3. frame_num = At(head, n)
  BY <1>2 DEF Contiguous, NextFrame
<1>4. frame_num \notin Pending
  BY <1>1 DEF Pending
<1>5. n < FrameNr
  <2>1. n = FrameNr => head \in Pending /\ frame_num = head
    BY <1>1, <1>3, Around, RunShrinks DEF Contiguous
  <2> QED
    BY <1>4, <2>1
<1>6. status' = [status EXCEPT ![frame_num] = "request"]
  BY <1>1 DEF Mark
<1>7. Pending' = Pending \cup {frame_num}
  BY <1>1, <1>6 DEF Pending
<1>8. Pending' = Run(head, n + 1)
  BY <1>1, <1>3, <1>5, <1>7, RunGrows DEF Contiguous
<1>9. Marked(t)' /\ UNCHANGED <<frame_num, head>>
  BY DEF Mark, Goto, kernel
<1>10. At(frame_num, 1) = At(head, n + 1)
  BY <1>1, <1>3, <1>5, Around
<1>11. Contiguous(n + 1)'
  BY <1>8, <1>9, <1>10 DEF Contiguous, NextFrame
<1> QED
  BY <1>3, <1>4, <1>5, <1>7, <1>11

\* The kernel takes the first frame of the run.
LEMMA SendShrinks ==
    ASSUME RingInv, NEW t \in Thread, KernelSend(t), NEW n \in 0 .. FrameNr, Contiguous(n)
    PROVE  /\ n > 0
           /\ Pending' = Pending \ {head}
           /\ head' = At(head, 1)
           /\ Contiguous(n - 1)'
<1> USE DEF RingInv, TypeInv, TypeOK
<1>1. head \in Slot /\ status[head] = "request" /\ head \in Pending
  BY DEF KernelSend, Pending
<1>2. n > 0
  <2>1. \E i \in 0 .. n - 1 : head = At(head, i)
    BY <1>1 DEF Contiguous, Run
  <2> QED
    BY <2>1
<1>3. Pending' = Pending \ {head}
  BY <1>1 DEF KernelSend, Pending
<1>4. head' = At(head, 1)
  BY <1>1, Around DEF KernelSend
<1>5. Run(At(head, 1), n - 1) = Run(head, n) \ {head} /\ At(At(head, 1), n - 1) = At(head, n)
  BY <1>1, <1>2, RunShrinks
<1>6. NextFrame' = NextFrame
  BY DEF KernelSend, NextFrame, Marked
<1>7. Contiguous(n - 1)'
  BY <1>3, <1>4, <1>5, <1>6 DEF Contiguous
<1> QED
  BY <1>2, <1>3, <1>4, <1>7

\* Nobody but the thread in tx_frame is in it.
LEMMA Alone ==
    ASSUME RingInv, NEW t \in Thread, Filling(t)
    PROVE  \A u \in Thread : Filling(u) => u = t
BY DEF RingInv, Sole, Places

LEMMA AfterTxLeaves ==
    ASSUME NEW t \in Thread
    PROVE  AfterTx(t) \in {"rx", "flush", "idle"}
BY DEF AfterTx

\* Every step of tx_frame keeps the run and what its thread relies on.
LEMMA TxFrameKeepsRing ==
    ASSUME RingInv, NEW t \in Thread, TxFrame(t)
    PROVE  Places' /\ \E n \in 0 .. FrameNr : Contiguous(n)'
<1> USE DEF RingInv, TypeInv, TypeOK, Filling, Marked, Goto
<1>1. PICK n \in 0 .. FrameNr : Contiguous(n)
  OBVIOUS
<1>2. Filling(t) /\ t \in writers /\ \A u \in Thread : u # t => ~Filling(u)
  <2>1. Filling(t)
    BY DEF TxFrame, Ready, Drop, Copy, Mark, Load, Store
  <2> QED
    BY <2>1, Alone DEF Places
<1>3. writers' = writers
  BY DEF TxFrame, Ready, Drop, Copy, Mark, Load, Store
<1>4. CASE Ready(t)
  <2>1. Places'
    BY <1>2, <1>4 DEF Ready, Places, ring
  <2>2. Contiguous(n)'
    BY <1>1, <1>4, RunKept DEF Ready, Pending, ring, kernel
  <2> QED
    BY <2>1, <2>2
<1>5. CASE Drop(t)
  <2>1. Places'
    BY <1>2, <1>5, AfterTxLeaves DEF Drop, Places, ring, local
  <2>2. Contiguous(n)'
    BY <1>1, <1>5, RunKept, AfterTxLeaves DEF Drop, Pending, ring, kernel
  <2> QED
    BY <2>1, <2>2
<1>6. CASE Copy(t)
  <2>1. Places'
    BY <1>2, <1>6 DEF Copy, Places, local
  <2>2. Contiguous(n)'
    BY <1>1, <1>6, RunKept DEF Copy, Pending, kernel
  <2> QED
    BY <2>1, <2>2
<1>7. CASE Mark(t)
  <2>1. Places'
    BY <1>2, <1>7 DEF Mark, Places, local
  <2>2. n + 1 \in 0 .. FrameNr /\ Contiguous(n + 1)'
    BY <1>1, <1>7, MarkGrows
  <2> QED
    BY <2>1, <2>2
<1>8. CASE Load(t)
  <2>1. Places'
    BY <1>2, <1>8 DEF Load, Places, ring
  <2>2. Contiguous(n)'
    BY <1>1, <1>8, RunKept DEF Load, Pending, ring, kernel
  <2> QED
    BY <2>1, <2>2
<1>9. CASE Store(t)
  <2>1. Places'
    BY <1>2, <1>9, AfterTxLeaves DEF Store, Places, ring, local
  <2>2. num[t] = frame_num /\ frame_num \in Slot /\ Marked(t)
    BY <1>9 DEF Store, Places
  <2>3. frame_num' = At(frame_num, 1)
    BY <1>9, <2>2, Around DEF Store
  <2>4. \A u \in Thread : ~Marked(u)'
    BY <1>2, <1>9, AfterTxLeaves DEF Store
  <2>5. Pending' = Pending /\ head' = head
    BY <1>9 DEF Store, Pending, ring, kernel
  <2>6. Contiguous(n)'
    BY <1>1, <2>2, <2>3, <2>4, <2>5 DEF Contiguous, NextFrame
  <2> QED
    BY <2>1, <2>6
<1> QED
  BY <1>4, <1>5, <1>6, <1>7, <1>8, <1>9 DEF TxFrame

\* Every other step that leaves the ring and tx_frame alone, or starts it.
LEMMA OthersKeepRing ==
    ASSUME RingInv, UNCHANGED <<ring, frame_num, head, raw, num, writers>>,
           \/ UNCHANGED <<pc, pkt>>
           \/ \E t \in Thread, l \in {"idle", "poll", "rx", "flush"} :
                  ~Filling(t) /\ Goto(t, l) /\ UNCHANGED pkt
           \/ \E t \in writers, p \in Packet :
                  t \in Thread /\ ~Filling(t) /\ Goto(t, "check") /\ pkt' = [pkt EXCEPT ![t] = p]
    PROVE  Places' /\ \E n \in 0 .. FrameNr : Contiguous(n)'
<1> USE DEF RingInv, TypeInv, TypeOK, Filling, Marked, Goto, ring
<1>1. PICK n \in 0 .. FrameNr : Contiguous(n)
  OBVIOUS
<1>2. Places'
  BY DEF Places
<1>3. \A u \in Thread : Marked(u)' <=> Marked(u)
  OBVIOUS
<1>4. Contiguous(n)'
  BY <1>1, <1>3, RunKept DEF Pending
<1> QED
  BY <1>2, <1>4

\* Every step keeps the ring in order, with one thread transmitting.
LEMMA NextRing ==
    ASSUME RingInv, [Next]_vars
    PROVE  RingInv'
<1>1. TypeInv'
  BY NextType DEF RingInv
<1>2. writers' = writers
  BY DEF Next, Dataplane, Agent, TxFrame, Ready, Drop, Copy, Mark, Load, Store, KernelSend,
         FlushEnd, KernelDone, Arrive, Wake, Pass, Forward, RxDone, PacketOut, vars
<1>3. SUFFICES Places' /\ \E n \in 0 .. FrameNr : Contiguous(n)'
  BY <1>1, <1>2 DEF RingInv, Sole
<1>4. ASSUME NEW t \in Thread, TxFrame(t)
      PROVE  Places' /\ \E n \in 0 .. FrameNr : Contiguous(n)'
  BY <1>4, TxFrameKeepsRing
<1>5. ASSUME NEW t \in Thread, KernelSend(t)
      PROVE  Places' /\ \E n \in 0 .. FrameNr : Contiguous(n)'
  <2>1. PICK n \in 0 .. FrameNr : Contiguous(n)
    BY DEF RingInv
  <2>2. n - 1 \in 0 .. FrameNr /\ Contiguous(n - 1)'
    BY <1>5, <2>1, SendShrinks
  <2>3. Places'
    BY <1>5 DEF KernelSend, Places, RingInv, TypeInv, TypeOK, Filling, local
  <2> QED
    BY <2>2, <2>3
<1>6. CASE KernelDone
  <2>1. PICK n \in 0 .. FrameNr : Contiguous(n)
    BY DEF RingInv
  <2>2. Pending' = Pending
    BY <1>6 DEF KernelDone, Pending, RingInv, TypeInv, TypeOK
  <2>3. Contiguous(n)'
    BY <1>6, <2>1, <2>2, RunKept DEF KernelDone, Marked, kernel
  <2>4. Places'
    BY <1>6 DEF KernelDone, Places, RingInv, TypeInv, TypeOK, Filling, local
  <2> QED
    BY <2>3, <2>4
<1>7. ASSUME NEW t \in Thread, FlushEnd(t)
      PROVE  Places' /\ \E n \in 0 .. FrameNr : Contiguous(n)'
  BY <1>7, OthersKeepRing DEF FlushEnd, Filling, kernel, local
<1>8. CASE Arrive \/ Pass
  BY <1>8, OthersKeepRing DEF Arrive, Pass, kernel, local
<1>9. CASE Wake \/ RxDone
  BY <1>9, OthersKeepRing DEF Wake, RxDone, Filling, Thread, kernel, local
<1>10. CASE Forward
  <2>1. made + 1 \in Packet
    BY <1>10 DEF Forward, Packet, RingInv, TypeInv, TypeOK
  <2> QED
    BY <1>10, <2>1, OthersKeepRing DEF Forward, Filling, Thread, kernel
<1>11. CASE PacketOut
  <2>1. made + 1 \in Packet
    BY <1>11 DEF PacketOut, Packet, RingInv, TypeInv, TypeOK
  <2> QED
    BY <1>11, <2>1, OthersKeepRing DEF PacketOut, Filling, Thread, kernel
<1>12. CASE UNCHANGED vars
  BY <1>12, OthersKeepRing DEF vars, kernel, local
<1> QED
  BY <1>4, <1>5, <1>6, <1>7, <1>8, <1>9, <1>10, <1>11, <1>12
     DEF Next, Dataplane, Agent, Thread

\* The ring starts empty.
LEMMA InitRing ==
    ASSUME \A w \in WriterSets : \A t, u \in w : t = u, Init
    PROVE  RingInv
<1>1. TypeInv
  BY InitType
<1>2. Sole
  BY DEF Init, Sole
<1>3. Places /\ \A t \in Thread : ~Marked(t)
  BY DEF Init, Places, Filling, Marked, Thread
<1>4. Pending = {} /\ head = 0 /\ frame_num = 0 /\ 0 \in Slot
  BY DEF Init, Pending, Slot
<1>5. Contiguous(0)
  BY <1>3, <1>4, Around DEF Contiguous, NextFrame, Run
<1> QED
  BY <1>1, <1>2, <1>3, <1>5 DEF RingInv
-----------------------------------------------------------------------------
(* What the dataplane leaves in the ring when it polls                     *)

\* While the dataplane polls, what is marked came from PacketOut messages to
\* one port, but for the packet in the agent's hand.
PollInv ==
    pc["dp"] = "poll" /\ pc["agent"] # "flush" =>
        \A s \in Pending : frame[s] \in late \/ \E t \in Thread : Marked(t) /\ frame[s] = pkt[t]

\* A step that adds nothing to the ring and lets the agent out of nothing.
LEMMA PollKept ==
    ASSUME PollInv, UNCHANGED <<late, frame>>, Pending' \subseteq Pending,
           pc'["dp"] = "poll" => pc["dp"] = "poll",
           pc["agent"] = "flush" => pc'["agent"] = "flush",
           \A t \in Thread : Marked(t) => Marked(t)' /\ pkt'[t] = pkt[t]
    PROVE  PollInv'
BY DEF PollInv

\* Every step of tx_frame keeps it.
LEMMA TxFrameKeepsPoll ==
    ASSUME RingInv, PollInv, NEW t \in Thread, TxFrame(t)
    PROVE  PollInv'
<1> USE DEF RingInv, TypeInv, TypeOK, Filling, Marked, Goto, Thread
<1>1. Filling(t)
  BY DEF TxFrame, Ready, Drop, Copy, Mark, Load, Store
<1>2. CASE Ready(t)
  BY <1>2, PollKept DEF Ready, Pending, ring, history
<1>3. CASE Drop(t)
  <2>1. AfterTx(t) # "poll"
    BY AfterTxLeaves
  <2> QED
    BY <1>3, <2>1, PollKept DEF Drop, Pending, ring, history, local
<1>4. CASE Copy(t)
  <2>1. \A s \in Pending : frame'[s] = frame[s]
    BY <1>4 DEF Copy, Places, Pending
  <2>2. Pending' = Pending /\ UNCHANGED <<late, pkt>> /\ pc' = [pc EXCEPT ![t] = "mark"]
    BY <1>4 DEF Copy, Pending, history, local
  <2>3. \A u \in Thread : Marked(u) => Marked(u)'
    BY <1>4, <2>2 DEF Copy
  <2>4. pc'["dp"] = "poll" /\ pc'["agent"] # "flush" => pc["dp"] = "poll" /\ pc["agent"] # "flush"
    BY <1>4, <2>2 DEF Copy
  <2>5. \A s \in Pending' : s \in Pending
    BY <2>2
  <2> QED
    BY <2>1, <2>2, <2>3, <2>4, <2>5 DEF PollInv
<1>5. CASE Mark(t)
  <2>1. PICK n \in 0 .. FrameNr : Contiguous(n)
    OBVIOUS
  <2>2. Pending' = Pending \cup {frame_num} /\ frame[frame_num] = pkt[t]
    BY <1>5, <2>1, MarkGrows DEF Mark, Places
  <2>3. UNCHANGED <<frame, late, pkt>> /\ pc' = [pc EXCEPT ![t] = "load"] /\ pc[t] = "mark"
    BY <1>5 DEF Mark, history, local
  <2>4. Marked(t)' /\ \A u \in Thread : Marked(u) => Marked(u)'
    BY <2>3
  <2>5. pc'["dp"] = "poll" /\ pc'["agent"] # "flush" => pc["dp"] = "poll" /\ pc["agent"] # "flush"
    BY <2>3
  <2>6. ASSUME NEW s \in Pending', pc'["dp"] = "poll", pc'["agent"] # "flush"
        PROVE  frame[s] \in late \/ \E u \in Thread : Marked(u)' /\ frame[s] = pkt[u]
    <3>1. CASE s = frame_num
      BY <2>2, <2>4, <3>1
    <3>2. CASE s \in Pending
      BY <2>4, <2>5, <2>6, <3>2 DEF PollInv
    <3> QED
      BY <2>2, <3>1, <3>2
  <2> QED
    BY <2>3, <2>6 DEF PollInv
<1>6. CASE Load(t)
  BY <1>6, PollKept DEF Load, Pending, ring, history
<1>7. CASE Store(t)
  <2> SUFFICES ASSUME pc'["dp"] = "poll", pc'["agent"] # "flush", NEW s \in Pending'
               PROVE  frame'[s] \in late'
    BY DEF PollInv
  <2>1. pc[t] = "store" /\ pc' = [pc EXCEPT ![t] = AfterTx(t)] /\ frame' = frame /\ Pending' = Pending
    BY <1>7 DEF Store, Pending, ring
  <2>2. t = "agent" /\ pc["dp"] = "poll"
    BY <2>1, AfterTxLeaves
  <2>3. out = "unicast"
    BY <2>1, <2>2 DEF AfterTx
  <2>4. late' = late \cup {pkt[t]}
    BY <1>7, <2>2, <2>3 DEF Store, Accept
  <2>5. frame[s] \in late \/ frame[s] = pkt[t]
    BY <2>1, <2>2 DEF PollInv
  <2> QED
    BY <2>1, <2>4, <2>5
<1> QED
  BY <1>2, <1>3, <1>4, <1>5, <1>6, <1>7 DEF TxFrame

LEMMA NextPoll ==
    ASSUME RingInv, PollInv, [Next]_vars
    PROVE  PollInv'
<1> USE DEF RingInv, TypeInv, TypeOK, Marked, Goto, Thread
<1>1. ASSUME NEW t \in Thread, TxFrame(t)
      PROVE  PollInv'
  BY <1>1, TxFrameKeepsPoll
<1>2. ASSUME NEW t \in Thread, KernelSend(t)
      PROVE  PollInv'
  BY <1>2, PollKept DEF KernelSend, Pending, history, local
<1>3. CASE KernelDone
  <2>1. Pending' = Pending
    BY <1>3 DEF KernelDone, Pending
  <2> QED
    BY <1>3, <2>1, PollKept DEF KernelDone, history, local
<1>4. ASSUME NEW t \in Thread, FlushEnd(t)
      PROVE  PollInv'
  <2>1. Pending = {}
    BY <1>4, HeadTells DEF FlushEnd
  <2> QED
    BY <1>4, <2>1 DEF FlushEnd, PollInv, Pending, ring
<1>5. CASE Wake
  BY <1>5 DEF Wake, PollInv
<1>6. CASE RxDone
  BY <1>6 DEF RxDone, PollInv
<1>7. CASE Forward
  BY <1>7 DEF Forward, PollInv
<1>8. CASE PacketOut
  BY <1>8, PollKept DEF PacketOut, Pending, ring, history
<1>9. CASE Arrive \/ Pass \/ UNCHANGED vars
  BY <1>9, PollKept DEF Arrive, Pass, vars, Pending, ring, history, local
<1> QED
  BY <1>1, <1>2, <1>3, <1>4, <1>5, <1>6, <1>7, <1>8, <1>9
     DEF Next, Dataplane, Agent

\* Where one thread transmits on a port, for a ring of any size: the send() that
\* the dataplane makes before it polls empties the ring, however many packets
\* the agent's thread adds meanwhile, and what is in the ring while it polls is
\* from PacketOut messages to one port only.
THEOREM FlushTakesAllHolds ==
    ASSUME \A w \in WriterSets : \A t, u \in w : t = u
    PROVE  Spec => []FlushTakesAll
<1>1. Init => RingInv /\ PollInv
  <2>1. Init => PollInv
    BY DEF Init, PollInv, Thread
  <2> QED
    BY <2>1, InitRing
<1>2. RingInv /\ PollInv /\ [Next]_vars => (RingInv /\ PollInv)'
  BY NextRing, NextPoll
<1>3. RingInv /\ PollInv => FlushTakesAll
  <2> SUFFICES ASSUME RingInv, PollInv, pc["dp"] = "poll", pc["agent"] = "idle", NEW s \in Pending
               PROVE  frame[s] \in late
    BY DEF FlushTakesAll
  <2>1. \A t \in Thread : ~Marked(t)
    BY DEF Marked, Thread
  <2> QED
    BY <2>1 DEF PollInv
<1> QED
  BY <1>1, <1>2, <1>3, PTL DEF Spec
-----------------------------------------------------------------------------
(* The ring implements the queue of TxQueue                                *)

\* Every packet in the ring or taken from it is one that was made, and the one
\* in a thread's hand is neither, until it is marked.
Fresh ==
    /\ \A s \in Pending : frame[s] \in 1 .. made
    /\ \A p \in Range(sent) : p \in 1 .. made
    /\ \A t \in Thread : pkt[t] <= made
    /\ \A t \in Thread : pc[t] \in {"check", "copy", "mark"} =>
           pkt[t] \notin Range(sent) /\ \A s \in Pending : frame[s] # pkt[t]

\* A step that changes no marked frame, and takes nobody's place in tx_frame
\* but that of the one in it.
LEMMA FreshKept ==
    ASSUME Fresh, UNCHANGED <<sent, pkt, made>>, Pending' = Pending,
           \A s \in Pending : frame'[s] = frame[s],
           \A t \in Thread : pc'[t] \in {"check", "copy", "mark"} =>
               pc[t] \in {"check", "copy", "mark"}
    PROVE  Fresh'
BY DEF Fresh

\* A new packet is one more than those made so far.
LEMMA FreshMade ==
    ASSUME TypeInv, Fresh, NEW t \in Thread, Goto(t, "check"), made' = made + 1,
           pkt' = [pkt EXCEPT ![t] = made + 1], UNCHANGED <<ring, sent>>
    PROVE  Fresh'
<1> USE DEF TypeInv, TypeOK, Goto, ring
<1>1. Pending' = Pending /\ frame' = frame /\ made \in Nat
  BY DEF Pending
<1>2. \A u \in Thread : pkt'[u] <= made'
  BY <1>1 DEF Fresh, Packet
<1>3. ASSUME NEW u \in Thread, pc'[u] \in {"check", "copy", "mark"}
      PROVE  pkt'[u] \notin Range(sent') /\ \A s \in Pending' : frame'[s] # pkt'[u]
  BY <1>1, <1>3 DEF Fresh
<1>4. (\A s \in Pending' : frame'[s] \in 1 .. made') /\ \A p \in Range(sent') : p \in 1 .. made'
  BY <1>1 DEF Fresh
<1> QED
  BY <1>2, <1>3, <1>4 DEF Fresh

\* What send() takes is added to what was sent.
LEMMA SentGrows ==
    ASSUME TypeInv, NEW t \in Thread, KernelSend(t)
    PROVE  Range(sent') = Range(sent) \cup {frame[head]}
<1>1. sent \in Seq(Packet \cup {0}) /\ frame[head] \in Packet \cup {0}
  BY DEF TypeInv, TypeOK
<1>2. sent' = Append(sent, frame[head])
  BY DEF KernelSend
<1> HIDE DEF Packet
<1>3. /\ Len(sent') = Len(sent) + 1 /\ DOMAIN sent' = 1 .. Len(sent) + 1
      /\ sent'[Len(sent) + 1] = frame[head]
      /\ \A i \in 1 .. Len(sent) : sent'[i] = sent[i]
      /\ DOMAIN sent = 1 .. Len(sent) /\ Len(sent) \in Nat
  BY <1>1, <1>2, AppendProperties
<1> QED
  BY <1>3 DEF Range

LEMMA NextFresh ==
    ASSUME RingInv, Fresh, [Next]_vars
    PROVE  Fresh'
<1> USE DEF RingInv, TypeInv, TypeOK, Filling, Goto
<1>1. ASSUME NEW t \in Thread, TxFrame(t)
      PROVE  Fresh'
  <2>1. CASE Ready(t) \/ Load(t)
    BY <2>1, FreshKept DEF Ready, Load, Pending, ring, kernel
  <2>2. CASE Drop(t) \/ Store(t)
    BY <2>2, FreshKept, AfterTxLeaves DEF Drop, Store, Pending, ring, kernel, local
  <2>3. CASE Copy(t)
    BY <2>3, FreshKept DEF Copy, Places, Pending, kernel, local
  <2>4. CASE Mark(t)
    <3>1. PICK n \in 0 .. FrameNr : Contiguous(n)
      OBVIOUS
    <3>2. Pending' = Pending \cup {frame_num} /\ frame[frame_num] = pkt[t]
      BY <2>4, <3>1, MarkGrows DEF Mark, Places
    <3>3. /\ UNCHANGED <<frame, sent, made, pkt>> /\ pc' = [pc EXCEPT ![t] = "load"]
          /\ pkt[t] \in 1 .. made
      BY <2>4 DEF Mark, kernel, local, PacketInHand, Fresh, Packet
    <3>4. \A u \in Thread : pc'[u] \notin {"check", "copy", "mark"}
      BY <2>4, <3>3, Alone DEF Mark
    <3> QED
      BY <3>2, <3>3, <3>4 DEF Fresh
  <2> QED
    BY <1>1, <2>1, <2>2, <2>3, <2>4 DEF TxFrame
<1>2. ASSUME NEW t \in Thread, KernelSend(t)
      PROVE  Fresh'
  <2>1. head \in Pending /\ Pending' \subseteq Pending
    BY <1>2 DEF KernelSend, Pending
  <2>2. Range(sent') = Range(sent) \cup {frame[head]}
    BY <1>2, SentGrows
  <2>3. UNCHANGED <<frame, pc, pkt, made>>
    BY <1>2 DEF KernelSend, local
  <2> QED
    BY <2>1, <2>2, <2>3 DEF Fresh
<1>3. CASE KernelDone
  <2>1. Pending' = Pending
    BY <1>3 DEF KernelDone, Pending
  <2> QED
    BY <1>3, <2>1, FreshKept DEF KernelDone, kernel, local
<1>4. ASSUME NEW t \in Thread, FlushEnd(t)
      PROVE  Fresh'
  BY <1>4, FreshKept DEF FlushEnd, Pending, ring, kernel, local
<1>5. CASE Wake \/ RxDone
  BY <1>5, FreshKept DEF Wake, RxDone, Thread, Pending, ring, kernel, local
<1>6. CASE Forward
  BY <1>6, FreshMade DEF Forward, Thread, kernel
<1>7. CASE PacketOut
  BY <1>7, FreshMade DEF PacketOut, Thread, kernel
<1>8. CASE Arrive \/ Pass \/ UNCHANGED vars
  BY <1>8, FreshKept DEF Arrive, Pass, vars, Pending, ring, kernel, local
<1> QED
  BY <1>1, <1>2, <1>3, <1>4, <1>5, <1>6, <1>7, <1>8 DEF Next, Dataplane, Agent, Thread

\* The queue, frame by frame.
QueueRun ==
    \A n \in 0 .. FrameNr :
        Contiguous(n) => Queue = [i \in 1 .. n |-> frame[At(head, i - 1)]]

LEMMA QueueRunHolds == RingInv => QueueRun
<1> SUFFICES ASSUME RingInv, NEW n \in 0 .. FrameNr, Contiguous(n)
             PROVE  Queue = [i \in 1 .. n |-> frame[At(head, i - 1)]]
  BY DEF QueueRun
<1>1. head \in Slot
  BY DEF RingInv, TypeInv, TypeOK
<1>2. Cardinality(Pending) = n
  BY <1>1, RunSize DEF Contiguous
<1>3. \A i \in 1 .. n : (head + i - 1) % FrameNr = At(head, i - 1)
  <2> SUFFICES ASSUME NEW i \in 1 .. n
               PROVE  (head + i - 1) % FrameNr = At(head, i - 1)
    OBVIOUS
  <2>1. i - 1 \in 0 .. FrameNr /\ head + i - 1 = head + (i - 1)
    BY <1>1 DEF Slot
  <2> QED
    BY <1>1, <2>1, Around
<1> HIDE DEF At
<1> QED
  BY <1>2, <1>3 DEF Queue

LEMMA QueueRunPrime == RingInv' => QueueRun'
BY QueueRunHolds, PTL

\* A step that changes no marked frame does not change the queue.
LEMMA QueueKept ==
    ASSUME RingInv, Pending' = Pending, UNCHANGED <<head, sent>>,
           \A s \in Pending : frame'[s] = frame[s]
    PROVE  UNCHANGED Abstract!vars
<1>1. PICK n \in 0 .. FrameNr : Contiguous(n)
  BY DEF RingInv
<1>2. head \in Slot
  BY DEF RingInv, TypeInv, TypeOK
<1>3. Cardinality(Pending) = n
  BY <1>1, <1>2, RunSize DEF Contiguous
<1>4. \A i \in 1 .. n : (head + i - 1) % FrameNr \in Pending
  <2> SUFFICES ASSUME NEW i \in 1 .. n
               PROVE  (head + i - 1) % FrameNr \in Pending
    OBVIOUS
  <2>1. i - 1 \in 0 .. FrameNr /\ i - 1 \in 0 .. n - 1 /\ head + i - 1 = head + (i - 1)
    BY <1>2 DEF Slot
  <2>2. (head + i - 1) % FrameNr = At(head, i - 1)
    BY <1>2, <2>1, Around
  <2> QED
    BY <1>1, <2>1, <2>2 DEF Contiguous, Run
<1>5. Queue' = Queue
  BY <1>3, <1>4 DEF Queue
<1> QED
  BY <1>5 DEF Abstract!vars

\* Marking a frame accepts its packet.
LEMMA MarkAccepts ==
    ASSUME RingInv, RingInv', Fresh, NEW t \in Thread, Mark(t)
    PROVE  Abstract!Next
<1> USE DEF RingInv, TypeInv, TypeOK
<1>1. PICK n \in 0 .. FrameNr : Contiguous(n)
  OBVIOUS
<1>2. /\ n < FrameNr
      /\ frame_num = At(head, n)
      /\ Contiguous(n + 1)'
  BY <1>1, MarkGrows
<1>3. /\ UNCHANGED <<frame, head, sent>>
      /\ frame[frame_num] = pkt[t]
      /\ pkt[t] \in Packet
      /\ pkt[t] \notin Range(sent)
      /\ \A s \in Pending : frame[s] # pkt[t]
  BY DEF Mark, kernel, Places, PacketInHand, Filling, Fresh
<1> DEFINE q == [i \in 1 .. n |-> frame[At(head, i - 1)]]
           r == [i \in 1 .. n + 1 |-> frame[At(head, i - 1)]]
<1>4. Queue = q
  BY <1>1, QueueRunHolds DEF QueueRun
<1>5. Queue' = r
  <2>1. n + 1 \in 0 .. FrameNr
    BY <1>2
  <2> QED
    BY <1>2, <1>3, <2>1, QueueRunPrime DEF QueueRun
<1>6. \A i \in 1 .. n : At(head, i - 1) \in Pending
  <2> SUFFICES ASSUME NEW i \in 1 .. n
               PROVE  At(head, i - 1) \in Pending
    OBVIOUS
  <2>1. i - 1 \in 0 .. n - 1
    OBVIOUS
  <2> QED
    BY <1>1, <2>1 DEF Contiguous, Run
<1>7. q \in Seq(Packet \cup {0}) /\ Len(q) = n /\ DOMAIN q = 1 .. n
  <2>1. \A s \in Pending : frame[s] \in Packet \cup {0}
    BY DEF Pending
  <2> HIDE DEF Packet, At
  <2> QED
    BY <1>6, <2>1
<1>8. r = Append(q, pkt[t])
  <2>1. /\ Append(q, pkt[t]) \in Seq(Packet \cup {0})
        /\ Len(Append(q, pkt[t])) = n + 1
        /\ Append(q, pkt[t])[n + 1] = pkt[t]
        /\ \A i \in 1 .. n : Append(q, pkt[t])[i] = q[i]
    BY <1>3, <1>7, AppendProperties
  <2>2. r[n + 1] = pkt[t]
    <3>1. n + 1 \in 1 .. n + 1 /\ (n + 1) - 1 = n
      OBVIOUS
    <3> QED
      BY <1>2, <1>3, <3>1
  <2>3. \A i \in 1 .. n + 1 : i = n + 1 \/ i \in 1 .. n
    OBVIOUS
  <2>4. \A i \in 1 .. n + 1 : r[i] = Append(q, pkt[t])[i]
    BY <2>1, <2>2, <2>3
  <2>5. ASSUME NEW x \in Seq(Packet \cup {0}), Len(x) = n + 1, \A i \in 1 .. n + 1 : r[i] = x[i]
        PROVE  r = x
    <3>1. x = [i \in 1 .. n + 1 |-> x[i]]
      BY <2>5
    <3> QED
      BY <2>5, <3>1
  <2> HIDE DEF q, r
  <2> QED
    BY <2>1, <2>4, <2>5
<1>9. pkt[t] \notin {q[i] : i \in 1 .. n}
  BY <1>3, <1>6
<1> HIDE DEF q, r
<1>10. Abstract!Accept(pkt[t])
  BY <1>2, <1>3, <1>4, <1>5, <1>7, <1>8, <1>9 DEF Abstract!Accept, Range, Abstract!Range
<1> QED
  BY <1>3, <1>10 DEF Abstract!Next

\* Taking a frame transmits the oldest packet.
LEMMA SendTransmits ==
    ASSUME RingInv, RingInv', NEW t \in Thread, KernelSend(t)
    PROVE  Abstract!Next
<1> USE DEF RingInv, TypeInv, TypeOK
<1>1. PICK n \in 0 .. FrameNr : Contiguous(n)
  OBVIOUS
<1>2. /\ n > 0
      /\ head' = At(head, 1)
      /\ Contiguous(n - 1)'
      /\ head \in Slot
  BY <1>1, SendShrinks
<1>3. frame' = frame /\ sent' = Append(sent, frame[head])
  BY DEF KernelSend
<1> DEFINE q == [i \in 1 .. n |-> frame[At(head, i - 1)]]
           r == [i \in 1 .. n - 1 |-> frame[At(At(head, 1), i - 1)]]
<1>4. Queue = q
  BY <1>1, QueueRunHolds DEF QueueRun
<1>5. Queue' = r
  <2>1. n - 1 \in 0 .. FrameNr
    BY <1>2
  <2> QED
    BY <1>2, <1>3, <2>1, QueueRunPrime DEF QueueRun
<1>6. \A i \in 1 .. n : At(head, i - 1) \in Slot
  BY <1>2, Around
<1>7. q \in Seq(Packet \cup {0}) /\ Len(q) = n /\ q # << >>
  <2>1. \A s \in Slot : frame[s] \in Packet \cup {0}
    OBVIOUS
  <2> HIDE DEF Packet, At, Slot
  <2>2. q \in Seq(Packet \cup {0}) /\ Len(q) = n
    BY <1>6, <2>1
  <2> HIDE DEF q
  <2> QED
    BY <1>2, <2>2, EmptySeq
<1>8. Head(q) = frame[head]
  <2>1. At(head, 0) = head /\ 1 \in 1 .. n /\ 1 - 1 = 0
    BY <1>2, Around
  <2>2. q[1] = frame[head]
    BY <2>1
  <2> HIDE DEF q
  <2> QED
    BY <1>7, <2>2
<1>9. r = Tail(q)
  <2>1. /\ Tail(q) \in Seq(Packet \cup {0})
        /\ Len(Tail(q)) = n - 1
        /\ \A i \in 1 .. n - 1 : Tail(q)[i] = q[i + 1]
    <3> HIDE DEF q
    <3> QED
      BY <1>7, HeadTailProperties
  <2>2. \A i \in 1 .. n - 1 : r[i] = q[i + 1]
    <3> SUFFICES ASSUME NEW i \in 1 .. n - 1
                 PROVE  frame[At(At(head, 1), i - 1)] = frame[At(head, (i + 1) - 1)]
      OBVIOUS
    <3>1. i - 1 \in 0 .. FrameNr - 1 /\ (i - 1) + 1 = (i + 1) - 1
      OBVIOUS
    <3> QED
      BY <1>2, <3>1, Around
  <2>3. \A i \in 1 .. n - 1 : r[i] = Tail(q)[i]
    BY <2>1, <2>2
  <2>4. n - 1 \in Nat /\ DOMAIN r = 1 .. n - 1 /\ DOMAIN Tail(q) = 1 .. n - 1
    BY <1>2, <2>1
  <2>5. ASSUME NEW x \in Seq(Packet \cup {0}), Len(x) = n - 1, \A i \in 1 .. n - 1 : r[i] = x[i]
        PROVE  r = x
    <3>1. DOMAIN x = 1 .. n - 1
      BY <2>4, <2>5
    <3>2. x = [i \in 1 .. n - 1 |-> x[i]]
      BY <3>1, <2>5
    <3> QED
      BY <2>5, <3>2
  <2> HIDE DEF q, r
  <2> QED
    BY <2>1, <2>3, <2>5
<1> HIDE DEF q, r
<1>10. Abstract!Transmit
  BY <1>3, <1>4, <1>5, <1>7, <1>8, <1>9 DEF Abstract!Transmit
<1> QED
  BY <1>10 DEF Abstract!Next

\* Every step of the ring is one of the queue, or none.
LEMMA NextImplements ==
    ASSUME RingInv, RingInv', Fresh, [Next]_vars
    PROVE  [Abstract!Next]_Abstract!vars
<1> USE DEF RingInv, TypeInv, TypeOK
<1>1. ASSUME NEW t \in Thread, TxFrame(t)
      PROVE  [Abstract!Next]_Abstract!vars
  <2>1. CASE Mark(t)
    BY <2>1, MarkAccepts
  <2>2. CASE Copy(t)
    BY <2>2, QueueKept DEF Copy, Places, Pending, kernel
  <2>3. CASE Ready(t) \/ Drop(t) \/ Load(t) \/ Store(t)
    BY <2>3, QueueKept DEF Ready, Drop, Load, Store, Pending, ring, kernel
  <2> QED
    BY <1>1, <2>1, <2>2, <2>3 DEF TxFrame
<1>2. ASSUME NEW t \in Thread, KernelSend(t)
      PROVE  [Abstract!Next]_Abstract!vars
  BY <1>2, SendTransmits
<1>3. CASE KernelDone
  <2>1. Pending' = Pending
    BY <1>3 DEF KernelDone, Pending
  <2> QED
    BY <1>3, <2>1, QueueKept DEF KernelDone, kernel
<1>4. ASSUME NEW t \in Thread, FlushEnd(t)
      PROVE  [Abstract!Next]_Abstract!vars
  BY <1>4, QueueKept DEF FlushEnd, Pending, ring, kernel
<1>5. CASE Arrive \/ Wake \/ Pass \/ RxDone
  BY <1>5, QueueKept DEF Arrive, Wake, Pass, RxDone, Pending, ring, kernel
<1>6. CASE Forward \/ PacketOut \/ UNCHANGED vars
  BY <1>6, QueueKept DEF Forward, PacketOut, vars, Pending, ring, kernel
<1> QED
  BY <1>1, <1>2, <1>3, <1>4, <1>5, <1>6 DEF Next, Dataplane, Agent, Thread

\* Where one thread transmits on a port, the ring is a first-in first-out queue
\* that drops the newcomer only when it is full, for any number of frames, any
\* speed of the device, and send() calls by both threads at any moment.
THEOREM Implements ==
    ASSUME \A w \in WriterSets : \A t, u \in w : t = u
    PROVE  Spec => ImplementsTxQueue
<1>1. Init => RingInv /\ Fresh /\ Abstract!Init
  <2> SUFFICES ASSUME Init
               PROVE  RingInv /\ Fresh /\ Abstract!Init
    OBVIOUS
  <2>1. RingInv
    BY InitRing
  <2>2. Pending = {} /\ sent = << >>
    BY DEF Init, Pending
  <2>3. Fresh
    BY <2>2 DEF Init, Fresh, Range, Thread
  <2>4. Cardinality(Pending) = 0
    BY <2>2, FS_EmptySet
  <2>5. Queue = << >>
    BY <2>4 DEF Queue
  <2> QED
    BY <2>1, <2>2, <2>3, <2>5 DEF Abstract!Init
<1>2. RingInv /\ Fresh /\ [Next]_vars => (RingInv /\ Fresh)'
  BY NextRing, NextFresh
<1>3. RingInv /\ Fresh /\ [Next]_vars => [Abstract!Next]_Abstract!vars
  BY NextRing, NextImplements
<1> QED
  BY <1>1, <1>2, <1>3, PTL DEF Spec, ImplementsTxQueue, Abstract!Spec
=============================================================================
