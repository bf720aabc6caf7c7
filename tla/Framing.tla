------------------------------ MODULE Framing ------------------------------
(***************************************************************************)
(* How the two ends of a connection cut its bytes into messages: the       *)
(* controller in dataReceived and _read_packets (protocol.py), which keeps *)
(* what is incomplete, and the agent in the loop of agent_task (agent.c),  *)
(* which does not.  A message is a header of fixed size, which holds the   *)
(* length of the payload that follows; a payload may be empty.  TCP hands  *)
(* the bytes over in pieces of any size.                                   *)
(*                                                                         *)
(* A byte is the number of its message and its position there, so a piece  *)
(* of another message, or of the wrong part of one, is told apart.         *)
(***************************************************************************)
EXTENDS Naturals, Sequences, Functions

CONSTANTS
    HEADER_LENGTH,
    BufSize,    \* sizeof(buf) in agent_task
    Lengths,    \* the lengths that payloads have
    NoHeader,
    MaxSent     \* bound of the model: messages sent in all

ASSUME FramingAssumption ==
    /\ HEADER_LENGTH \in Nat \ {0}
    /\ BufSize \in Nat \ {0}
    /\ Lengths \subseteq Nat
    /\ MaxSent \in Nat
    /\ NoHeader \notin [bytes : Seq(Nat \X Nat), length : Nat]

VARIABLES
    reader,     \* which end reads: "controller" or "agent"
    sent,       \* history: the payload lengths of the messages sent
    wire,       \* external: the bytes TCP has not handed over yet
    buffer,     \* self.buffer; what buf holds from offset to len
    header,     \* the bytes and length of the header that was read, or NoHeader
    handled,    \* history: header and payload of each message handled
    loop,       \* is the reader outside of its loop?
    cut         \* history: the first message a recv() divided

framing == <<reader, sent, wire, buffer, header, handled, loop, cut>>

FramingInit ==
    /\ reader \in {"controller", "agent"}
    /\ sent = << >>
    /\ wire = << >>
    /\ buffer = << >>
    /\ header = NoHeader
    /\ handled = << >>
    /\ loop = "outside"
    /\ cut = MaxSent + 1

\* the bytes of message i from position a to position b
Bytes(i, a, b) == [j \in 1 .. b - a + 1 |-> <<i, a + j - 1>>]

\* the other end packs header and payload into one buffer and sends it
SendMessage(length) ==
    /\ Len(sent) < MaxSent
    /\ sent' = Append(sent, length)
    /\ wire' = wire \o Bytes(Len(sent) + 1, 1, HEADER_LENGTH + length)
    /\ UNCHANGED <<reader, buffer, header, handled, loop, cut>>
-----------------------------------------------------------------------------
(* The controller                                                          *)

\* self.buffer += data
DataReceived(n) ==
    /\ reader = "controller"
    /\ loop = "outside"
    /\ buffer' = buffer \o SubSeq(wire, 1, n)
    /\ wire' = SubSeq(wire, n + 1, Len(wire))
    /\ loop' = "read"
    /\ UNCHANGED <<reader, cut, sent, header, handled>>

\* the lengths that ParseFromString may find in the bytes of a header:
\* that of its message, or any if they are not the header of one
LengthIn(bytes) ==
    LET whole == {i \in DOMAIN sent : bytes = Bytes(i, 1, HEADER_LENGTH)}
    IN IF whole = {} THEN Lengths ELSE {sent[i] : i \in whole}

HeaderReady == header = NoHeader /\ Len(buffer) >= HEADER_LENGTH
PayloadReady == header # NoHeader /\ Len(buffer) >= header.length

\* mutant: a byte of the header is left in the buffer
ReadHeaderShort ==
    /\ reader = "controller"
    /\ loop = "read"
    /\ HeaderReady
    /\ \E length \in LengthIn(SubSeq(buffer, 1, HEADER_LENGTH)) :
          header' = [bytes |-> SubSeq(buffer, 1, HEADER_LENGTH - 1), length |-> length]
    /\ buffer' = SubSeq(buffer, HEADER_LENGTH, Len(buffer))
    /\ UNCHANGED <<reader, cut, sent, wire, handled, loop>>

\* the first if of the loop of _read_packets
ReadHeader ==
    /\ reader = "controller"
    /\ loop = "read"
    /\ HeaderReady
    /\ \E length \in LengthIn(SubSeq(buffer, 1, HEADER_LENGTH)) :
          header' = [bytes |-> SubSeq(buffer, 1, HEADER_LENGTH), length |-> length]
    /\ buffer' = SubSeq(buffer, HEADER_LENGTH + 1, Len(buffer))
    /\ UNCHANGED <<reader, cut, sent, wire, handled, loop>>

\* mutant: the payload is not taken out of the buffer
ReadPayloadKept ==
    /\ reader = "controller"
    /\ loop = "read"
    /\ PayloadReady
    /\ handled' = Append(handled, [header |-> header.bytes,
                                   payload |-> SubSeq(buffer, 1, header.length)])
    /\ header' = NoHeader
    /\ UNCHANGED <<reader, cut, sent, wire, buffer, loop>>

\* the second if: the handlers run, and the header is cleared
ReadPayload ==
    /\ reader = "controller"
    /\ loop = "read"
    /\ PayloadReady
    /\ handled' = Append(handled, [header |-> header.bytes,
                                   payload |-> SubSeq(buffer, 1, header.length)])
    /\ buffer' = SubSeq(buffer, header.length + 1, Len(buffer))
    /\ header' = NoHeader
    /\ UNCHANGED <<reader, cut, sent, wire, loop>>

\* mutant: the loop ends when the buffer is empty, with a header read whose
\* payload is empty
ReadDoneEmpty ==
    /\ reader = "controller"
    /\ loop = "read"
    /\ (~HeaderReady /\ ~PayloadReady) \/ buffer = << >>
    /\ loop' = "outside"
    /\ UNCHANGED <<reader, cut, sent, wire, buffer, header, handled>>

\* the condition of the loop is false
ReadDone ==
    /\ reader = "controller"
    /\ loop = "read"
    /\ ~HeaderReady /\ ~PayloadReady
    /\ loop' = "outside"
    /\ UNCHANGED <<reader, cut, sent, wire, buffer, header, handled>>

Reactor ==
    \/ \E n \in 1 .. Len(wire) : DataReceived(n)
    \/ ReadHeader \/ ReadPayload \/ ReadDone
-----------------------------------------------------------------------------
(* The agent                                                               *)

\* does the wire go on inside a message after n bytes?
Divides(n) == n < Len(wire) /\ wire[n + 1][2] # 1

\* recv(): what an earlier one left behind is overwritten
RecvBytes(n) ==
    /\ reader = "agent"
    /\ loop = "outside"
    /\ n <= BufSize
    /\ buffer' = SubSeq(wire, 1, n)
    /\ wire' = SubSeq(wire, n + 1, Len(wire))
    /\ cut' = IF Divides(n) /\ wire[n + 1][1] < cut THEN wire[n + 1][1] ELSE cut
    /\ loop' = "read"
    /\ UNCHANGED <<reader, sent, header, handled>>

IsHeader(bytes) == \E i \in DOMAIN sent : bytes = Bytes(i, 1, HEADER_LENGTH)

\* header__unpack; nothing is known of what comes of bytes that are no header
UnpackHeader ==
    /\ reader = "agent"
    /\ loop = "read"
    /\ HeaderReady
    /\ LET bytes == SubSeq(buffer, 1, HEADER_LENGTH)
       IN IF IsHeader(bytes)
          THEN /\ \E length \in LengthIn(bytes) : header' = [bytes |-> bytes, length |-> length]
               /\ buffer' = SubSeq(buffer, HEADER_LENGTH + 1, Len(buffer))
               /\ UNCHANGED loop
          ELSE loop' = "astray" /\ UNCHANGED <<buffer, header>>
    /\ UNCHANGED <<reader, cut, sent, wire, handled>>

\* the handler, which unpacks the payload from whatever is in buf and returns
\* the length of what it found
RunHandler ==
    /\ reader = "agent"
    /\ loop = "read"
    /\ header # NoHeader
    /\ IF PayloadReady
       THEN /\ handled' = Append(handled, [header |-> header.bytes,
                                           payload |-> SubSeq(buffer, 1, header.length)])
            /\ buffer' = SubSeq(buffer, header.length + 1, Len(buffer))
            /\ header' = NoHeader
            /\ UNCHANGED loop
       ELSE loop' = "astray" /\ UNCHANGED <<handled, buffer, header>>
    /\ UNCHANGED <<reader, cut, sent, wire>>

\* too few bytes are left for a header: they are dropped
RecvDone ==
    /\ reader = "agent"
    /\ loop = "read"
    /\ header = NoHeader /\ ~HeaderReady
    /\ loop' = "outside"
    /\ buffer' = << >>
    /\ UNCHANGED <<reader, cut, sent, wire, header, handled>>

AgentTask ==
    \/ \E n \in 1 .. Len(wire) : RecvBytes(n)
    \/ UnpackHeader \/ RunHandler \/ RecvDone

FramingNext == Reactor \/ AgentTask \/ \E length \in Lengths : SendMessage(length)

FramingSpec == FramingInit /\ [][FramingNext]_framing

\* TCP hands over what it has, and the end that reads goes on.  Nothing makes
\* the other end send.
FramingFairSpec == FramingSpec /\ WF_framing(Reactor) /\ WF_framing(AgentTask)
-----------------------------------------------------------------------------
(* Properties                                                              *)

Byte == (1 .. MaxSent) \X Nat
HeaderBytes == [1 .. HEADER_LENGTH -> Byte]

\* Every variable holds what its type and its use allow; a header has its
\* full size.
FramingTypeOK ==
    /\ reader \in {"controller", "agent"}
    /\ sent \in Seq(Lengths) /\ Len(sent) <= MaxSent
    /\ wire \in Seq(Byte)
    /\ buffer \in Seq(Byte)
    /\ header \in [bytes : HeaderBytes, length : Lengths] \cup {NoHeader}
    /\ handled \in Seq([header : HeaderBytes, payload : Seq(Byte)])
    /\ loop \in {"outside", "read", "astray"}
    /\ cut \in 1 .. MaxSent + 1

\* message i as its sender made it
Whole(i, length) ==
    [header  |-> Bytes(i, 1, HEADER_LENGTH),
     payload |-> Bytes(i, HEADER_LENGTH + 1, HEADER_LENGTH + length)]

\* the messages handled before the first that was divided
Intact == SubSeq(handled, 1, IF Len(handled) < cut THEN Len(handled) ELSE cut - 1)

Abstract == INSTANCE Channel WITH
    Message <- {Whole(i, length) : i \in 1 .. MaxSent, length \in Lengths},
    queue <- [k \in 1 .. Len(sent) - Len(Intact) |->
                 Whole(Len(Intact) + k, sent[Len(Intact) + k])],
    delivered <- Intact

\* However the bytes are cut, the handlers of the controller get the messages
\* that were sent, each whole, once and in order (protocol.py, 47 to 92); those
\* of the agent do up to the first message that a recv() divides, which it
\* always does with one longer than its buffer ("Not great if we don't receive
\* a full header + payload in one go", agent.c, 540).
ImplementsChannel == Abstract!Spec

\* Every message sent is handled in the end, at the agent every one before the
\* first that was divided: the last one before a silence does not wait for the
\* next, with an empty payload neither (protocol.py, 56; agent.c, 541).
AllHandled ==
    \A i \in 1 .. MaxSent : Len(sent) >= i ~> Len(handled) >= i \/ i >= cut
=============================================================================
