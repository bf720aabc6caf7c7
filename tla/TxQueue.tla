------------------------------ MODULE TxQueue ------------------------------
(***************************************************************************)
(* What the transmit side of a port promises: a bounded first-in first-out *)
(* queue.  A packet that tx_frame accepts is transmitted once, after all   *)
(* packets accepted before it; a packet it does not accept leaves no trace *)
(* (drop-tail).                                                            *)
(***************************************************************************)
EXTENDS Naturals, Sequences, Functions

CONSTANTS Packet, Capacity

VARIABLES queue, sent

vars == <<queue, sent>>

Init == queue = << >> /\ sent = << >>

\* a packet is offered once
Accept(p) ==
    /\ Len(queue) < Capacity
    /\ p \notin Range(queue) \cup Range(sent)
    /\ queue' = Append(queue, p)
    /\ UNCHANGED sent

Transmit ==
    /\ queue # << >>
    /\ sent' = Append(sent, Head(queue))
    /\ queue' = Tail(queue)

Next == Transmit \/ \E p \in Packet : Accept(p)

Spec == Init /\ [][Next]_vars
=============================================================================
