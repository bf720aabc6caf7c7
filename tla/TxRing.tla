------------------------------- MODULE TxRing -------------------------------
(***************************************************************************)
(* The transmit ring of one port of the software switch: the frames that   *)
(* tx_frame fills and marks, the send() calls that make the kernel take    *)
(* them, and the two threads that may call it.  The dataplane thread       *)
(* drains the receive rings, transmits what the program says, flushes and  *)
(* polls.  The agent thread transmits the controller's PacketOut           *)
(* messages.  Nothing locks the ring.                                      *)
(*                                                                         *)
(* The kernel's side of the ring (AF_PACKET, TPACKET_V2) is external: it   *)
(* keeps a head of its own, takes frames from there while they are marked, *)
(* and releases a frame when the device is done with it, in any order.     *)
(***************************************************************************)
EXTENDS Naturals, Sequences, FiniteSets, Functions

CONSTANTS
    FrameNr,    \* tx_ring->req.tp_frame_nr
    WriterSets, \* the threads that may transmit on this port: sets of "dp", "agent"
    OutPorts,   \* the PacketOut messages sent here: "unicast", "flood"
    MaxPackets, \* bound of the model: packets transmitted in all
    MaxRx       \* bound of the model: frames waiting in the receive ring

Slot == 0 .. FrameNr - 1
Packet == 1 .. MaxPackets
Thread == {"dp", "agent"}

ASSUME TxRingAssumption ==
    /\ FrameNr \in Nat \ {0}
    /\ WriterSets \subseteq SUBSET Thread
    /\ OutPorts \subseteq {"unicast", "flood"}
    /\ MaxPackets \in Nat
    /\ MaxRx \in Nat

VARIABLES
    writers,    \* the threads that transmit on this port; it never changes
    status,     \* tp_status of each frame
    frame,      \* the packet in each frame (0: none yet)
    frame_num,  \* tx_ring->frame_num
    head,       \* external: the frame the kernel takes next
    sent,       \* external: the packets the kernel took, in order
    rx,         \* frames waiting in the receive ring
    pc,         \* where each thread is
    raw,        \* ppd_out.raw: the frame each thread fills
    num,        \* the value of frame_num each thread is about to add 1 to
    pkt,        \* the packet each thread transmits
    out,        \* the kind of PacketOut the agent serves
    made,       \* history: packets handed to tx_frame so far
    accepted,   \* history: packets for which tx_frame returned 0
    late        \* history: those accepted without a send() since the dataplane polls

ring == <<status, frame>>
kernel == <<head, sent>>
local == <<raw, num, pkt, out>>
history == <<accepted, late>>
vars == <<ring, frame_num, kernel, rx, pc, local, made, history, writers>>

Init ==
    /\ writers \in WriterSets
    /\ status = [s \in Slot |-> "available"]
    /\ frame = [s \in Slot |-> 0]
    /\ frame_num = 0
    /\ head = 0
    /\ sent = << >>
    /\ rx = 0
    /\ pc = [t \in Thread |-> IF t = "dp" THEN "rx" ELSE "idle"]
    /\ raw = [t \in Thread |-> 0]
    /\ num = [t \in Thread |-> 0]
    /\ pkt = [t \in Thread |-> 0]
    /\ out = "unicast"
    /\ made = 0
    /\ accepted = {}
    /\ late = {}

Goto(t, l) == pc' = [pc EXCEPT ![t] = l]
-----------------------------------------------------------------------------
(* tx_frame, by either thread                                              *)

\* mutant: flags is not looked at
AfterTxNoFlags(t) == IF t = "dp" THEN "rx" ELSE "idle"

\* where transmit goes on after tx_frame: the dataplane to its next frame,
\* the agent to send() only in the FLOOD case, where flags is looked at
AfterTx(t) == IF t = "dp" THEN "rx" ELSE IF out = "flood" THEN "flush" ELSE "idle"

\* the frame at frame_num is free: take it
Ready(t) ==
    /\ pc[t] = "check"
    /\ status[frame_num] = "available"
    /\ raw' = [raw EXCEPT ![t] = frame_num]
    /\ Goto(t, "copy")
    /\ UNCHANGED <<ring, frame_num, kernel, rx, num, pkt, out, made, history, writers>>

\* mutant: frame_num is advanced for a packet that is dropped, too
DropAdvances(t) ==
    /\ pc[t] = "check"
    /\ status[frame_num] # "available"
    /\ frame_num' = (frame_num + 1) % FrameNr
    /\ Goto(t, AfterTx(t))
    /\ UNCHANGED <<ring, kernel, rx, local, made, history, writers>>

\* it is not: the packet is dropped
Drop(t) ==
    /\ pc[t] = "check"
    /\ status[frame_num] # "available"
    /\ Goto(t, AfterTx(t))
    /\ UNCHANGED <<ring, frame_num, kernel, rx, local, made, history, writers>>

Copy(t) ==
    /\ pc[t] = "copy"
    /\ frame' = [frame EXCEPT ![raw[t]] = pkt[t]]
    /\ Goto(t, "mark")
    /\ UNCHANGED <<status, frame_num, kernel, rx, local, made, history, writers>>

Mark(t) ==
    /\ pc[t] = "mark"
    /\ status' = [status EXCEPT ![raw[t]] = "request"]
    /\ Goto(t, "load")
    /\ UNCHANGED <<frame, frame_num, kernel, rx, local, made, history, writers>>

\* frame_num = (frame_num + 1) % tp_frame_nr, a load and a store
Load(t) ==
    /\ pc[t] = "load"
    /\ num' = [num EXCEPT ![t] = frame_num]
    /\ Goto(t, "store")
    /\ UNCHANGED <<ring, frame_num, kernel, rx, raw, pkt, out, made, history, writers>>

\* tx_frame returns 0
Accept(t) ==
    /\ accepted' = accepted \cup {pkt[t]}
    /\ late' = IF pc["dp"] = "poll" /\ t = "agent" /\ out = "unicast"
               THEN late \cup {pkt[t]}
               ELSE late

\* mutant: frame_num is not reduced modulo tp_frame_nr
StoreUnwrapped(t) ==
    /\ pc[t] = "store"
    /\ frame_num' = num[t] + 1
    /\ Accept(t)
    /\ Goto(t, AfterTx(t))
    /\ UNCHANGED <<ring, kernel, rx, local, made, writers>>

Store(t) ==
    /\ pc[t] = "store"
    /\ frame_num' = (num[t] + 1) % FrameNr
    /\ Accept(t)
    /\ Goto(t, AfterTx(t))
    /\ UNCHANGED <<ring, kernel, rx, local, made, writers>>

TxFrame(t) == Ready(t) \/ Drop(t) \/ Copy(t) \/ Mark(t) \/ Load(t) \/ Store(t)
-----------------------------------------------------------------------------
(* send(fd, NULL, 0, MSG_DONTWAIT)                                         *)

\* the kernel takes the frame at its head
KernelSend(t) ==
    /\ pc[t] = "flush"
    /\ status[head] = "request"
    /\ status' = [status EXCEPT ![head] = "sending"]
    /\ sent' = Append(sent, frame[head])
    /\ head' = (head + 1) % FrameNr
    /\ UNCHANGED <<frame, frame_num, rx, pc, local, made, history, writers>>

\* the frame at its head is not marked: send() returns
FlushEnd(t) ==
    /\ pc[t] = "flush"
    /\ status[head] # "request"
    /\ Goto(t, IF t = "dp" THEN "poll" ELSE "idle")
    /\ UNCHANGED <<ring, frame_num, kernel, rx, local, made, history, writers>>

\* the device is done with a frame
KernelDone ==
    /\ \E s \in Slot :
          /\ status[s] = "sending"
          /\ status' = [status EXCEPT ![s] = "available"]
    /\ UNCHANGED <<frame, frame_num, kernel, rx, pc, local, made, history, writers>>
-----------------------------------------------------------------------------
(* The main loop of the dataplane thread                                   *)

\* a frame arrives at some port
Arrive ==
    /\ rx < MaxRx
    /\ rx' = rx + 1
    /\ UNCHANGED <<ring, frame_num, kernel, pc, local, made, history, writers>>

\* poll() returns: it waits for POLLIN only
Wake ==
    /\ pc["dp"] = "poll"
    /\ rx > 0
    /\ Goto("dp", "rx")
    /\ late' = {}
    /\ UNCHANGED <<ring, frame_num, kernel, rx, local, made, accepted, writers>>

\* the program sends the frame elsewhere, or drops it
Pass ==
    /\ pc["dp"] = "rx"
    /\ rx > 0
    /\ rx' = rx - 1
    /\ UNCHANGED <<ring, frame_num, kernel, pc, local, made, history, writers>>

\* the program sends the frame to this port
Forward ==
    /\ pc["dp"] = "rx"
    /\ rx > 0
    /\ "dp" \in writers
    /\ made < MaxPackets
    /\ made' = made + 1
    /\ rx' = rx - 1
    /\ pkt' = [pkt EXCEPT !["dp"] = made + 1]
    /\ Goto("dp", "check")
    /\ UNCHANGED <<ring, frame_num, kernel, raw, num, out, history, writers>>

\* mutant: poll() is entered without send()
RxDoneNoSend ==
    /\ pc["dp"] = "rx"
    /\ rx = 0
    /\ Goto("dp", "poll")
    /\ UNCHANGED <<ring, frame_num, kernel, rx, local, made, history, writers>>

\* the receive rings are empty: send the pending packets of every port
RxDone ==
    /\ pc["dp"] = "rx"
    /\ rx = 0
    /\ Goto("dp", "flush")
    /\ UNCHANGED <<ring, frame_num, kernel, rx, local, made, history, writers>>
-----------------------------------------------------------------------------
(* The agent thread                                                        *)

\* recv_packet_out: transmit(..., out_port, 1)
PacketOut ==
    /\ pc["agent"] = "idle"
    /\ "agent" \in writers
    /\ made < MaxPackets
    /\ made' = made + 1
    /\ pkt' = [pkt EXCEPT !["agent"] = made + 1]
    /\ out' \in OutPorts
    /\ Goto("agent", "check")
    /\ UNCHANGED <<ring, frame_num, kernel, rx, raw, num, history, writers>>

Dataplane ==
    \/ Wake \/ Pass \/ Forward \/ RxDone
    \/ TxFrame("dp") \/ KernelSend("dp") \/ FlushEnd("dp")
Agent == TxFrame("agent") \/ KernelSend("agent") \/ FlushEnd("agent")

Next == Dataplane \/ Agent \/ PacketOut \/ Arrive \/ KernelDone

Spec == Init /\ [][Next]_vars

\* Both threads are scheduled and the device completes what it was given.
\* Nothing makes frames arrive, nor the controller send.
FairSpec == Spec /\ WF_vars(Dataplane) /\ WF_vars(Agent) /\ WF_vars(KernelDone)
-----------------------------------------------------------------------------
(* Properties                                                              *)

\* Every variable holds what its C type and its use allow.
TypeOK ==
    /\ writers \in WriterSets
    /\ status \in [Slot -> {"available", "request", "sending"}]
    /\ frame \in [Slot -> Packet \cup {0}]
    /\ frame_num \in Slot
    /\ head \in Slot
    /\ sent \in Seq(Packet \cup {0})
    /\ rx \in 0 .. MaxRx
    /\ pc \in [Thread -> {"idle", "poll", "rx", "flush",
                          "check", "copy", "mark", "load", "store"}]
    /\ raw \in [Thread -> Slot]
    /\ num \in [Thread -> Slot]
    /\ pkt \in [Thread -> Packet \cup {0}]
    /\ out \in {"unicast", "flood"}
    /\ made \in 0 .. MaxPackets
    /\ accepted \subseteq Packet
    /\ late \subseteq accepted

Pending == {s \in Slot : status[s] = "request"}

\* the packets marked for transmission, from the kernel's head on
Queue == [i \in 1 .. Cardinality(Pending) |-> frame[(head + i - 1) % FrameNr]]

Abstract == INSTANCE TxQueue WITH queue <- Queue, Capacity <- FrameNr

\* With one thread transmitting, whichever it is, the ring is the queue of TxQueue: marking a
\* frame accepts its packet behind those accepted before, taking a frame
\* transmits the oldest, and a full ring drops the newcomer only.
ImplementsTxQueue == Abstract!Spec

\* When the dataplane polls, it has left nothing behind: send() took every frame
\* that was marked ("Send all the pendings packets for each interface",
\* softswitch/main.c, 455).  Only PacketOut messages to one port, for which
\* nobody calls send(), are in the ring then.
FlushTakesAll ==
    pc["dp"] = "poll" /\ pc["agent"] = "idle" => \A s \in Pending : frame[s] \in late

\* frames stop arriving
Quiet == <>[][rx' <= rx]_vars

\* Every accepted packet is transmitted without another frame having to arrive,
\* which "flags is the hack to force" (softswitch/main.c, 329); a PacketOut to
\* one port is, unless the dataplane is polling: then it is transmitted once
\* a frame does arrive (368).  While frames keep arriving the receive loop
\* need not end, so this is said of runs where they stop.
AcceptedSent == Quiet => \A p \in Packet : p \in accepted ~> p \in Range(sent) \cup late
=============================================================================
