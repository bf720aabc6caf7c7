------------------------------ MODULE Channel ------------------------------
(***************************************************************************)
(* What a connection promises: the messages of one end reach the handlers  *)
(* of the other whole, once each and in the order they were sent.          *)
(***************************************************************************)
EXTENDS Sequences

CONSTANT Message

VARIABLES queue, delivered

vars == <<queue, delivered>>

Init == queue = << >> /\ delivered = << >>

Send(m) ==
    /\ queue' = Append(queue, m)
    /\ UNCHANGED delivered

Deliver ==
    /\ queue # << >>
    /\ delivered' = Append(delivered, Head(queue))
    /\ queue' = Tail(queue)

Next == Deliver \/ \E m \in Message : Send(m)

Spec == Init /\ [][Next]_vars
=============================================================================
