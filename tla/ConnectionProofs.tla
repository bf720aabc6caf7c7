-------------------------- MODULE ConnectionProofs --------------------------
(***************************************************************************)
(* Proofs about the connections of the agents and the controller.          *)
(*                                                                         *)
(* Session: for any number of switches, connections, crashes and broken    *)
(* paths, the controller's registry never leads astray, and it has every   *)
(* switch whose connections were not open side by side.                    *)
(*                                                                         *)
(* Framing: for any header, payloads, buffer and pieces, what the two ends *)
(* cut out of the stream are the messages that were sent, in order.        *)
(***************************************************************************)
EXTENDS Session, Framing, SequenceTheorems, TLAPS

-----------------------------------------------------------------------------
(* Session                                                                 *)

\* An agent that is past connect() has a connection, and it made it itself.
Fds ==
    \A s \in Switch :
        /\ pc[s] \in {"hello", "recv", "close"} => fd[s] # NULL
        /\ fd[s] # NULL => owner[fd[s]] = s

\* The controller has only connections that a switch made.
Made == \A c \in Conn : owner[c] = NULL => c \notin open /\ dpid[c] = NULL

\* A hello says who made the connection.
Named == \A c \in Conn : dpid[c] # NULL => dpid[c] = DpidOf[owner[c]]

\* Connections of one switch that are open side by side are known as such.
Overlaps ==
    \A c, x \in open : owner[c] = owner[x] /\ c # x => c \in overlapped

Distinct == \A s, t \in Switch : DpidOf[s] = DpidOf[t] => s = t

\* A connection whose hello was read is in the registry as long as it is open,
\* if no other of its switch ever was meanwhile.
Registered ==
    Distinct => \A c \in open \ overlapped :
                   dpid[c] # NULL => connections[dpid[c]] = c

Registry == RegistrySound /\ Made /\ Named /\ Overlaps /\ Registered

Inv == TypeOK /\ Fds /\ Registry

LEMMA InitInv == Init => Inv
<1> SUFFICES ASSUME Init PROVE Inv
  OBVIOUS
<1>1. TypeOK
  BY SessionAssumption DEF Init, TypeOK
<1>2. Fds
  BY DEF Init, Fds
<1>3. Registry
  BY DEF Init, Registry, RegistrySound, Made, Named, Overlaps, Registered
<1> QED
  BY <1>1, <1>2, <1>3 DEF Inv
-----------------------------------------------------------------------------
(* What leaves the controller alone, and what it does when it loses one    *)

LEMMA RegistryKept ==
    ASSUME Registry, UNCHANGED <<controller, owner, overlapped>>
    PROVE  Registry'
BY DEF Registry, RegistrySound, Made, Named, Overlaps, Registered, controller

LEMMA FdsKept ==
    ASSUME Fds, UNCHANGED <<pc, fd, owner>>
    PROVE  Fds'
BY DEF Fds

\* Losing a connection takes no entry out of the registry but its own, unless
\* another connection of its switch was open beside it.
LEMMA LoseKeeps ==
    ASSUME Inv, NEW c \in open, Lose(c), UNCHANGED <<owner, overlapped>>
    PROVE  Registry' /\ open' \in SUBSET Conn /\ connections' \in [Dpid -> Conn \cup {NULL}]
<1> USE SessionAssumption DEF Inv, Registry, TypeOK
<1>1. open' = open \ {c} /\ dpid' = dpid
  BY DEF Lose
<1>2. connections' = IF dpid[c] # NULL THEN [connections EXCEPT ![dpid[c]] = NULL]
                                       ELSE connections
  BY DEF Lose, Without
<1>3. connections' \in [Dpid -> Conn \cup {NULL}]
  BY <1>2
<1>4. RegistrySound'
  <2> SUFFICES ASSUME NEW d \in Dpid, connections'[d] # NULL
               PROVE  connections'[d] \in open' /\ dpid'[connections'[d]] = d
    BY DEF RegistrySound
  <2>1. connections'[d] = connections[d] /\ d # dpid[c]
    BY <1>2
  <2>2. connections[d] \in open /\ dpid[connections[d]] = d
    BY <2>1 DEF RegistrySound
  <2> QED
    BY <1>1, <2>1, <2>2
<1>5. Made' /\ Named' /\ Overlaps'
  BY <1>1 DEF Made, Named, Overlaps
<1>6. Registered'
  <2> SUFFICES ASSUME Distinct, NEW x \in open' \ overlapped, dpid[x] # NULL
               PROVE  connections'[dpid[x]] = x
    BY <1>1 DEF Registered, Distinct
  <2>1. x \in open /\ x # c /\ connections[dpid[x]] = x
    BY <1>1 DEF Registered
  <2>2. dpid[x] # dpid[c]
    <3> SUFFICES ASSUME dpid[x] = dpid[c] PROVE FALSE
      OBVIOUS
    <3>1. owner[x] # NULL /\ owner[c] # NULL
      BY <2>1 DEF Made
    <3>2. owner[x] \in Switch /\ owner[c] \in Switch
      BY <2>1, <3>1
    <3>3. owner[x] = owner[c]
      BY <2>1, <3>2 DEF Named, Distinct
    <3> QED
      BY <2>1, <3>3 DEF Overlaps
  <2> QED
    BY <1>2, <2>1, <2>2
<1> QED
  BY <1>1, <1>3, <1>4, <1>5, <1>6
-----------------------------------------------------------------------------
(* The steps                                                               *)

\* send() on the connection of an agent that has one
LEMMA SendTyped ==
    ASSUME TypeOK, NEW s \in Switch, fd[s] # NULL, NEW m \in Message, Send(s, m)
    PROVE  up' \in [Conn -> Seq(Message)] /\ unacked' \subseteq dead
<1>1. fd[s] \in Conn /\ up[fd[s]] \in Seq(Message)
  BY DEF TypeOK
<1>2. Append(up[fd[s]], m) \in Seq(Message)
  BY <1>1
<1> QED
  BY <1>1, <1>2 DEF Send, TypeOK

LEMMA TailTyped ==
    ASSUME NEW S, NEW q \in Seq(S), q # << >>
    PROVE  Tail(q) \in Seq(S) /\ Head(q) \in S
OBVIOUS

LEMMA ConnectInv ==
    ASSUME Inv, NEW s \in Switch, Connect(s)
    PROVE  Inv'
<1> USE SessionAssumption DEF Inv, Registry
<1> PICK c \in Unused :
        /\ fd' = [fd EXCEPT ![s] = c]
        /\ owner' = [owner EXCEPT ![c] = s]
        /\ open' = open \cup {c}
        /\ overlapped' = LET others == OfSwitch(s) \cap open
                         IN IF others = {} THEN overlapped
                            ELSE overlapped \cup others \cup {c}
  BY DEF Connect
<1>1. c \in Conn /\ owner[c] = NULL /\ c \notin open /\ dpid[c] = NULL
  BY DEF Unused, Made
<1>2. UNCHANGED <<leaked, installed, up, down, dead, unacked, dpid, connections, packets, fails>>
  BY DEF Connect
<1>3. pc' = [pc EXCEPT ![s] = "hello"]
  BY DEF Connect, Goto
<1>4. overlapped \subseteq overlapped' /\ overlapped' \subseteq Conn
  BY <1>1 DEF TypeOK, OfSwitch
<1>5. TypeOK'
  BY <1>1, <1>2, <1>3, <1>4 DEF TypeOK
<1>6. Fds'
  <2> SUFFICES ASSUME NEW t \in Switch
               PROVE  /\ pc'[t] \in {"hello", "recv", "close"} => fd'[t] # NULL
                      /\ fd'[t] # NULL => owner'[fd'[t]] = t
    BY DEF Fds
  <2>1. CASE t = s
    BY <1>1, <1>3, <2>1 DEF TypeOK
  <2>2. CASE t # s
    <3>1. pc'[t] = pc[t] /\ fd'[t] = fd[t]
      BY <1>3, <2>2 DEF TypeOK
    <3>2. fd[t] # NULL => owner[fd[t]] = t /\ fd[t] # c
      BY <1>1 DEF Fds
    <3> QED
      BY <1>1, <3>1, <3>2 DEF Fds, TypeOK
  <2> QED
    BY <2>1, <2>2
<1>7. RegistrySound'
  BY <1>2 DEF RegistrySound
<1>8. Made' /\ Named'
  BY <1>1, <1>2 DEF Made, Named, TypeOK
<1>9. Overlaps'
  <2> SUFFICES ASSUME NEW x \in open', NEW y \in open', owner'[x] = owner'[y], x # y
               PROVE  x \in overlapped'
    BY DEF Overlaps
  <2>1. CASE x # c /\ y # c
    <3>1. x \in open /\ y \in open /\ owner[x] = owner[y]
      BY <1>1, <2>1 DEF TypeOK
    <3> QED
      BY <1>4, <3>1 DEF Overlaps
  <2>2. CASE x = c
    <3>1. y \in OfSwitch(s) \cap open
      BY <1>1, <2>2 DEF OfSwitch, TypeOK
    <3> QED
      BY <2>2, <3>1
  <2>3. CASE y = c
    <3>1. x \in OfSwitch(s) \cap open
      BY <1>1, <2>3 DEF OfSwitch, TypeOK
    <3> QED
      BY <3>1
  <2> QED
    BY <2>1, <2>2, <2>3
<1>10. Registered'
  BY <1>1, <1>2, <1>4 DEF Registered, Distinct
<1> QED
  BY <1>5, <1>6, <1>7, <1>8, <1>9, <1>10

LEMMA ReceiveHelloInv ==
    ASSUME Inv, NEW c \in Conn, ReceiveHello(c)
    PROVE  Inv'
<1> USE SessionAssumption DEF Inv, Registry
<1> DEFINE d == DpidOf[owner[c]]
<1>1. c \in open /\ up[c] # << >>
  BY DEF ReceiveHello, Readable
<1>2. owner[c] \in Switch /\ d \in Dpid /\ d # NULL
  BY <1>1 DEF Made, TypeOK
<1>3. dpid' = [dpid EXCEPT ![c] = d] /\ connections' = [connections EXCEPT ![d] = c]
  BY DEF ReceiveHello
<1>4. UNCHANGED <<agent, dead, unacked, owner, open, bounds>>
  BY DEF ReceiveHello
<1>5. TypeOK'
  <2>1. down' \in [Conn -> Seq(Message)]
    <3>1. down[c] \o <<"HELLO", "INSTALL">> \in Seq(Message)
      <4>1. <<"HELLO", "INSTALL">> \in Seq(Message)
        BY DEF Message
      <4> QED
        BY <4>1, ConcatProperties DEF TypeOK
    <3> QED
      BY <3>1 DEF ReceiveHello, TypeOK
  <2>2. up' \in [Conn -> Seq(Message)]
    BY <1>1, TailTyped DEF ReceiveHello, TypeOK
  <2>3. dpid' \in [Conn -> Dpid \cup {NULL}]
    BY <1>2, <1>3 DEF TypeOK
  <2>4. connections' \in [Dpid -> Conn \cup {NULL}]
    BY <1>3 DEF TypeOK
  <2> QED
    BY <1>4, <2>1, <2>2, <2>3, <2>4 DEF TypeOK, agent, bounds
<1>6. Fds'
  BY <1>4, FdsKept DEF agent
<1>7. RegistrySound'
  <2> SUFFICES ASSUME NEW e \in Dpid, connections'[e] # NULL
               PROVE  connections'[e] \in open' /\ dpid'[connections'[e]] = e
    BY DEF RegistrySound
  <2>1. CASE e = d
    BY <1>1, <1>2, <1>3, <1>4, <2>1 DEF TypeOK
  <2>2. CASE e # d
    <3>1. connections'[e] = connections[e]
      BY <1>3, <2>2 DEF TypeOK
    <3>2. connections[e] \in open /\ dpid[connections[e]] = e
      BY <3>1 DEF RegistrySound
    <3>3. connections[e] # c
      BY <2>2, <3>2 DEF Named
    <3> QED
      BY <1>3, <1>4, <3>1, <3>2, <3>3 DEF TypeOK
  <2> QED
    BY <2>1, <2>2
<1>8. Made' /\ Named'
  BY <1>2, <1>3, <1>4 DEF Made, Named, TypeOK
<1>9. Overlaps'
  BY <1>4 DEF Overlaps, bounds
<1>10. Registered'
  <2> SUFFICES ASSUME Distinct, NEW x \in open \ overlapped, dpid'[x] # NULL
               PROVE  connections'[dpid'[x]] = x
    BY <1>4 DEF Registered, Distinct, bounds
  <2>1. CASE x = c
    BY <1>2, <1>3, <2>1 DEF TypeOK
  <2>2. CASE x # c
    <3>1. dpid'[x] = dpid[x] /\ connections[dpid[x]] = x
      BY <1>3, <2>2 DEF Registered, TypeOK
    <3>2. dpid[x] # d
      <4> SUFFICES ASSUME dpid[x] = d PROVE FALSE
        OBVIOUS
      <4>1. owner[x] \in Switch
        BY DEF Made, TypeOK
      <4>2. owner[x] = owner[c]
        BY <1>2, <3>1, <4>1 DEF Named, Distinct, TypeOK
      <4> QED
        BY <1>1, <2>2, <4>2 DEF Overlaps
    <3> QED
      BY <1>3, <3>1, <3>2 DEF TypeOK
  <2> QED
    BY <2>1, <2>2
<1> QED
  BY <1>5, <1>6, <1>7, <1>8, <1>9, <1>10

LEMMA NextInv == Inv /\ [Next]_vars => Inv'
<1> SUFFICES ASSUME Inv, [Next]_vars PROVE Inv'
  OBVIOUS
<1> USE SessionAssumption
\* the steps of a switch that touch neither the registry nor who made what
<1>0. ASSUME UNCHANGED <<controller, owner, overlapped>>, TypeOK', Fds'
      PROVE  Inv'
  BY <1>0, RegistryKept DEF Inv
<1>1. ASSUME NEW s \in Switch, SendHello(s) PROVE Inv'
  <2>1. fd[s] # NULL
    BY <1>1 DEF SendHello, Inv, Fds
  <2>2. up' \in [Conn -> Seq(Message)] /\ unacked' \subseteq dead
    BY <1>1, <2>1, SendTyped DEF SendHello, Inv, Message
  <2>3. TypeOK'
    BY <1>1, <2>2 DEF SendHello, Goto, Inv, TypeOK, controller, bounds
  <2>4. Fds'
    BY <1>1, <2>1 DEF SendHello, Goto, Inv, Fds, TypeOK
  <2> QED
    BY <1>0, <1>1, <2>3, <2>4 DEF SendHello, bounds
<1>2. ASSUME NEW s \in Switch, Recv(s) PROVE Inv'
  <2>1. fd[s] \in Conn /\ fd[s] # NULL
    BY <1>2 DEF Recv, Inv, Fds, TypeOK
  <2>2. down' \in [Conn -> Seq(Message)]
    BY <1>2, <2>1, TailTyped DEF Recv, Inv, TypeOK
  <2>3. up' \in [Conn -> Seq(Message)] /\ unacked' \subseteq dead
    <3>1. CASE UNCHANGED <<up, unacked>>
      BY <3>1 DEF Inv, TypeOK
    <3>2. CASE Send(s, "INSERT_REPLY")
      BY <2>1, <3>2, SendTyped DEF Inv, Message
    <3> QED
      BY <1>2, <3>1, <3>2 DEF Recv
  <2>4. installed' \in [Switch -> BOOLEAN]
    BY <1>2 DEF Recv, Inv, TypeOK
  <2>5. TypeOK'
    BY <1>2, <2>2, <2>3, <2>4 DEF Recv, Inv, TypeOK, controller, bounds
  <2>6. Fds'
    BY <1>2, FdsKept DEF Recv, Inv
  <2> QED
    BY <1>0, <1>2, <2>5, <2>6 DEF Recv, bounds
<1>3. ASSUME NEW s \in Switch, RecvEnd(s) PROVE Inv'
  <2>1. TypeOK'
    BY <1>3 DEF RecvEnd, Goto, Inv, TypeOK, tcp, controller, bounds
  <2>2. Fds'
    BY <1>3 DEF RecvEnd, Goto, Inv, Fds, TypeOK, tcp
  <2> QED
    BY <1>0, <1>3, <2>1, <2>2 DEF RecvEnd, tcp, bounds
<1>4. ASSUME NEW s \in Switch, Close(s) PROVE Inv'
  <2>1. fd[s] # NULL
    BY <1>4 DEF Close, Inv, Fds
  <2>2. up' \in [Conn -> Seq(Message)] /\ unacked' \subseteq dead
    BY <1>4, <2>1, SendTyped DEF Close, Inv, Message
  <2>3. TypeOK'
    BY <1>4, <2>2 DEF Close, Goto, Inv, TypeOK, controller, bounds
  <2>4. Fds'
    BY <1>4 DEF Close, Goto, Inv, Fds, TypeOK
  <2> QED
    BY <1>0, <1>4, <2>3, <2>4 DEF Close, bounds
<1>5. ASSUME NEW s \in Switch, PacketIn(s) PROVE Inv'
  <2>1. up' \in [Conn -> Seq(Message)] /\ unacked' \subseteq dead
    <3>1. CASE fd[s] = NULL
      BY <1>5, <3>1 DEF PacketIn, Inv, TypeOK
    <3>2. CASE fd[s] # NULL
      BY <1>5, <3>2, SendTyped DEF PacketIn, Inv, Message
    <3> QED
      BY <3>1, <3>2
  <2>2. packets' \in 0 .. MaxPackets
    BY <1>5 DEF PacketIn, Inv, TypeOK
  <2>3. TypeOK'
    BY <1>5, <2>1, <2>2 DEF PacketIn, Inv, TypeOK, agent, controller
  <2>4. Fds'
    BY <1>5, FdsKept DEF PacketIn, Inv, agent
  <2> QED
    BY <1>0, <1>5, <2>3, <2>4 DEF PacketIn
<1>6. ASSUME NEW s \in Switch, Crash(s) PROVE Inv'
  <2>1. fails' \in 0 .. MaxFails
    BY <1>6 DEF Crash, Fail, Inv, TypeOK
  <2>2. up' \in [Conn -> Seq(Message)] /\ dead' \subseteq Conn /\ unacked' \subseteq dead'
    <3>1. CASE UNCHANGED <<up, dead, unacked>>
      BY <3>1 DEF Inv, TypeOK
    <3>2. CASE fd[s] # NULL /\ Send(s, "FIN") /\ UNCHANGED dead
      BY <3>2, SendTyped DEF Inv, TypeOK, Message
    <3>3. CASE fd[s] # NULL /\ dead' = dead \cup {fd[s]} /\ UNCHANGED <<up, unacked>>
      BY <3>3 DEF Inv, TypeOK
    <3> QED
      BY <1>6, <3>1, <3>2, <3>3 DEF Crash
  <2>3. TypeOK'
    BY <1>6, <2>1, <2>2 DEF Crash, Goto, Inv, TypeOK, controller
  <2>4. Fds'
    BY <1>6 DEF Crash, Goto, Inv, Fds, TypeOK
  <2> QED
    BY <1>0, <1>6, <2>3, <2>4 DEF Crash
<1>7. ASSUME NEW s \in Switch, Restart(s) PROVE Inv'
  <2>1. TypeOK'
    BY <1>7 DEF Restart, Goto, Inv, TypeOK, tcp, controller, bounds
  <2>2. Fds'
    BY <1>7 DEF Restart, Goto, Inv, Fds, TypeOK, tcp
  <2> QED
    BY <1>0, <1>7, <2>1, <2>2 DEF Restart, tcp, bounds
<1>8. ASSUME NEW c \in Conn, ReceivePacketIn(c) PROVE Inv'
  <2>1. up[c] # << >> /\ UNCHANGED <<agent, dead, unacked, owner, controller, bounds>>
    BY <1>8 DEF ReceivePacketIn, Readable
  <2>2. up' \in [Conn -> Seq(Message)]
    BY <1>8, <2>1, TailTyped DEF ReceivePacketIn, Inv, TypeOK
  <2>3. down' \in [Conn -> Seq(Message)]
    <3>1. PICK answer \in {<<"INSERT", "PACKET_OUT">>, <<"PACKET_OUT">>} :
             down' = [down EXCEPT ![c] = @ \o answer]
      BY <1>8 DEF ReceivePacketIn
    <3>2. answer \in Seq(Message)
      <4>1. <<"INSERT", "PACKET_OUT">> \in Seq(Message) /\ <<"PACKET_OUT">> \in Seq(Message)
        BY DEF Message
      <4> QED
        BY <4>1
    <3>3. down[c] \o answer \in Seq(Message)
      BY <3>2, ConcatProperties DEF Inv, TypeOK
    <3> QED
      BY <3>1, <3>3 DEF Inv, TypeOK
  <2>4. TypeOK'
    BY <2>1, <2>2, <2>3 DEF Inv, TypeOK, agent, controller, bounds
  <2>5. Fds'
    BY <2>1, FdsKept DEF Inv, agent
  <2> QED
    BY <1>0, <2>1, <2>4, <2>5 DEF bounds
<1>9. ASSUME NEW c \in Conn, ReceivePacketInEarly(c) PROVE Inv'
  <2>1. c \in open /\ up[c] # << >> /\ Lose(c)
    BY <1>9 DEF ReceivePacketInEarly, Readable
  <2>2. UNCHANGED <<agent, down, dead, unacked, owner, bounds, dpid>>
    BY <1>9 DEF ReceivePacketInEarly, Lose
  <2>3. Registry' /\ open' \in SUBSET Conn /\ connections' \in [Dpid -> Conn \cup {NULL}]
    BY <2>1, <2>2, LoseKeeps DEF bounds
  <2>4. up' \in [Conn -> Seq(Message)]
    BY <1>9, <2>1, TailTyped DEF ReceivePacketInEarly, Inv, TypeOK
  <2>5. TypeOK'
    BY <2>2, <2>3, <2>4 DEF Inv, TypeOK, agent, bounds
  <2>6. Fds'
    BY <2>2, FdsKept DEF Inv, agent
  <2> QED
    BY <2>3, <2>5, <2>6 DEF Inv
<1>10. ASSUME NEW c \in Conn, ReceiveReply(c) PROVE Inv'
  <2>1. up[c] # << >> /\ UNCHANGED <<agent, down, dead, unacked, owner, controller, bounds>>
    BY <1>10 DEF ReceiveReply, Readable
  <2>2. up' \in [Conn -> Seq(Message)]
    BY <1>10, <2>1, TailTyped DEF ReceiveReply, Inv, TypeOK
  <2>3. TypeOK'
    BY <2>1, <2>2 DEF Inv, TypeOK, agent, controller, bounds
  <2>4. Fds'
    BY <2>1, FdsKept DEF Inv, agent
  <2> QED
    BY <1>0, <2>1, <2>3, <2>4 DEF bounds
<1>11. ASSUME NEW c \in Conn, ConnectionLost(c) PROVE Inv'
  <2>1. c \in open /\ Lose(c)
    BY <1>11 DEF ConnectionLost
  <2>2. UNCHANGED <<agent, tcp, bounds, dpid>>
    BY <1>11 DEF ConnectionLost, Lose
  <2>3. Registry' /\ open' \in SUBSET Conn /\ connections' \in [Dpid -> Conn \cup {NULL}]
    BY <2>1, <2>2, LoseKeeps DEF tcp, bounds
  <2>4. TypeOK'
    BY <2>2, <2>3 DEF Inv, TypeOK, agent, tcp, bounds
  <2>5. Fds'
    BY <2>2, FdsKept DEF Inv, agent, tcp
  <2> QED
    BY <2>3, <2>4, <2>5 DEF Inv
<1>12. ASSUME NEW c \in Conn, Break(c) PROVE Inv'
  <2>1. dead' \subseteq Conn /\ unacked' \subseteq dead'
    BY <1>12 DEF Break, Inv, TypeOK
  <2>2. TypeOK'
    BY <1>12, <2>1 DEF Break, Fail, Inv, TypeOK, agent, controller
  <2>3. Fds'
    BY <1>12, FdsKept DEF Break, Inv, agent
  <2> QED
    BY <1>0, <1>12, <2>2, <2>3 DEF Break
<1>13. ASSUME ControllerRestart PROVE Inv'
  <2>1. TypeOK'
    BY <1>13 DEF ControllerRestart, Fail, Inv, TypeOK, agent, tcp
  <2>2. Fds'
    BY <1>13, FdsKept DEF ControllerRestart, Inv, agent, tcp
  <2>3. Registry'
    BY <1>13 DEF ControllerRestart, Registry, RegistrySound, Made, Named, Overlaps, Registered
  <2> QED
    BY <2>1, <2>2, <2>3 DEF Inv
<1>14. ASSUME NEW s \in Switch, ConnectFail(s) PROVE Inv'
  <2>1. leaked' \in [Switch -> 0 .. MaxFds] /\ fails' \in 0 .. MaxFails
    BY <1>14 DEF ConnectFail, Fail, Inv, TypeOK
  <2>2. TypeOK'
    BY <1>14, <2>1 DEF ConnectFail, Inv, TypeOK, tcp, controller
  <2>3. Fds'
    BY <1>14, FdsKept DEF ConnectFail, Inv, tcp
  <2> QED
    BY <1>0, <1>14, <2>2, <2>3 DEF ConnectFail, tcp
<1>15. CASE UNCHANGED vars
  <2>1. TypeOK'
    BY <1>15 DEF Inv, TypeOK, vars, agent, tcp, controller, bounds
  <2>2. Fds'
    BY <1>15, FdsKept DEF Inv, vars, agent, tcp
  <2> QED
    BY <1>0, <1>15, <2>1, <2>2 DEF vars, tcp, bounds
<1>16. ASSUME NEW s \in Switch, Agent(s) PROVE Inv'
  BY <1>1, <1>2, <1>3, <1>4, <1>16, ConnectInv DEF Agent
<1>17. ASSUME NEW c \in Conn, RunHandlers(c) PROVE Inv'
  BY <1>8, <1>9, <1>10, <1>17, ReceiveHelloInv DEF RunHandlers
<1> QED
  BY <1>5, <1>6, <1>7, <1>11, <1>12, <1>13, <1>14, <1>15, <1>16, <1>17 DEF Next
-----------------------------------------------------------------------------
(* What it implies                                                         *)

\* Whatever fails and in whatever order messages are read, agents and controller
\* keep to their types; an agent never sends on a connection it does not have.
THEOREM TypeCorrect == Spec => []TypeOK
<1>1. Inv => TypeOK
  BY DEF Inv
<1> QED
  BY InitInv, NextInv, <1>1, PTL DEF Spec

\* The registry never leads a command to a connection that is lost, nor to one
\* of another switch, whatever datapath ids the switches were started with.
THEOREM RegistrySoundHolds == Spec => []RegistrySound
<1>1. Inv => RegistrySound
  BY DEF Inv, Registry
<1> QED
  BY InitInv, NextInv, <1>1, PTL DEF Spec

\* If no two switches were given the same datapath id, a switch that was greeted
\* is in the registry with the connection it uses, unless that connection was
\* ever open beside another of the same switch.
THEOREM RegisteredUnlessOverlapHolds ==
    ASSUME Distinct
    PROVE  Spec => []RegisteredUnlessOverlap
<1>1. Inv => RegisteredUnlessOverlap
  <2> SUFFICES ASSUME Inv, NEW s \in Switch, Greeted(s), fd[s] \notin overlapped
               PROVE  connections[DpidOf[s]] = fd[s]
    BY DEF RegisteredUnlessOverlap
  <2>1. fd[s] \in open \ overlapped /\ dpid[fd[s]] = DpidOf[s]
    BY DEF Greeted
  <2>2. DpidOf[s] # NULL
    BY SessionAssumption
  <2> QED
    BY <2>1, <2>2, Distinct DEF Inv, Registry, Registered
<1> QED
  BY InitInv, NextInv, <1>1, PTL DEF Spec

-----------------------------------------------------------------------------
(* Framing: the invariant                                                  *)

\* what is left of the stream at the end that reads: in its buffer, and under way
Rest == buffer \o wire

\* The stream s of messages of these lengths.  Of each of its bytes: it is one of a
\* message that was sent, the rest of that message is behind it, and then the next
\* one begins, if there is one; and no message comes before an earlier one.
Size(lengths, i) == HEADER_LENGTH + lengths[i]

LastOf(s, lengths, k) == k + Size(lengths, s[k][1]) - s[k][2]

Whence(s, lengths, k) ==
    s[k][1] \in 1 .. Len(lengths) /\ s[k][2] \in 1 .. Size(lengths, s[k][1])

Continues(s, lengths, k) ==
    LET last == LastOf(s, lengths, k)
    IN /\ last <= Len(s)
       /\ \A q \in s[k][2] .. Size(lengths, s[k][1]) : s[k + q - s[k][2]] = <<s[k][1], q>>
       /\ last < Len(s) => s[last + 1] = <<s[k][1] + 1, 1>>
       /\ last = Len(s) => s[k][1] = Len(lengths)

Rises(s, k) == \A j \in k .. Len(s) : s[k][1] <= s[j][1]

Follows(s, lengths) ==
    \A k \in 1 .. Len(s) : Whence(s, lengths, k) /\ Continues(s, lengths, k) /\ Rises(s, k)

\* s begins with message i, or ends before it
Begins(s, lengths, i) == IF s = << >> THEN i = Len(lengths) + 1 ELSE s[1] = <<i, 1>>

\* the number of the message that is handled next
Number == Len(handled) + 1

\* Up to the message that was divided, the next one to handle comes next.
Reading ==
    Number < cut =>
        /\ header = NoHeader => Begins(Rest, sent, Number)
        /\ header # NoHeader =>
              /\ Number <= Len(sent)
              /\ header = [bytes |-> Bytes(Number, 1, HEADER_LENGTH), length |-> sent[Number]]
              /\ IF sent[Number] = 0 THEN Begins(Rest, sent, Number + 1)
                 ELSE Rest # << >> /\ Rest[1] = <<Number, HEADER_LENGTH + 1>>

\* Up to there, the messages handled are those that were sent.
Done ==
    \A k \in 1 .. Len(handled) :
        k < cut => k <= Len(sent) /\ handled[k] = Whole(k, sent[k])

\* Then no earlier one is under way, so what is divided later is behind it.
Beyond == Number >= cut => \A j \in 1 .. Len(wire) : wire[j][1] >= cut

\* The controller divides nothing, the agent what it has received a part of.
Cuts ==
    /\ reader = "controller" => cut = MaxSent + 1
    /\ reader = "agent" /\ wire # << >> /\ wire[1][2] # 1 => cut <= wire[1][1]
    /\ reader = "agent" /\ loop = "outside" => buffer = << >> /\ header = NoHeader

FramingInv == FramingTypeOK /\ Follows(Rest, sent) /\ Reading /\ Done /\ Beyond /\ Cuts
-----------------------------------------------------------------------------
(* Sequences                                                               *)

\* What is cut off in front is as it was, and so is the rest.
LEMMA CutParts ==
    ASSUME NEW S, NEW s \in Seq(S), NEW n \in 0 .. Len(s)
    PROVE  /\ SubSeq(s, 1, n) \in Seq(S)
           /\ Len(SubSeq(s, 1, n)) = n
           /\ \A k \in 1 .. n : SubSeq(s, 1, n)[k] = s[k]
           /\ SubSeq(s, n + 1, Len(s)) \in Seq(S)
           /\ Len(SubSeq(s, n + 1, Len(s))) = Len(s) - n
           /\ \A k \in 1 .. Len(s) - n : SubSeq(s, n + 1, Len(s))[k] = s[k + n]
<1>1. Len(s) \in Nat
  OBVIOUS
<1>2. CASE n = Len(s)
  BY <1>1, <1>2
<1>3. CASE n < Len(s)
  BY <1>1, <1>3
<1> QED
  BY <1>1, <1>2, <1>3

\* What two sequences make when they are joined.
LEMMA Joined ==
    ASSUME NEW S, NEW s \in Seq(S), NEW t \in Seq(S)
    PROVE  /\ s \o t \in Seq(S)
           /\ Len(s \o t) = Len(s) + Len(t)
           /\ \A k \in 1 .. Len(s) : (s \o t)[k] = s[k]
           /\ \A k \in 1 .. Len(t) : (s \o t)[Len(s) + k] = t[k]
           /\ \A k \in Len(s) + 1 .. Len(s) + Len(t) : (s \o t)[k] = t[k - Len(s)]
OBVIOUS

\* To cut n elements off a sequence is to cut them off what is joined to it.
LEMMA CutJoined ==
    ASSUME NEW S, NEW s \in Seq(S), NEW t \in Seq(S), NEW n \in 0 .. Len(s)
    PROVE  /\ SubSeq(s, 1, n) = SubSeq(s \o t, 1, n)
           /\ SubSeq(s, n + 1, Len(s)) \o t = SubSeq(s \o t, n + 1, Len(s \o t))
<1>1. s \o t \in Seq(S) /\ Len(s \o t) = Len(s) + Len(t)
  BY Joined
<1>2. n \in 0 .. Len(s \o t) /\ Len(s) \in Nat /\ Len(t) \in Nat
  BY <1>1
<1>3. SubSeq(s, 1, n) = SubSeq(s \o t, 1, n)
  <2>1. \A k \in 1 .. n : (s \o t)[k] = s[k]
    BY Joined
  <2> QED
    BY <1>1, <1>2, <2>1, CutParts, SeqEqual
<1>4. SubSeq(s, n + 1, Len(s)) \o t = SubSeq(s \o t, n + 1, Len(s \o t))
  <2> DEFINE u == SubSeq(s, n + 1, Len(s))
             v == SubSeq(s \o t, n + 1, Len(s \o t))
  <2>1. u \in Seq(S) /\ Len(u) = Len(s) - n /\ \A k \in 1 .. Len(s) - n : u[k] = s[k + n]
    BY CutParts
  <2>2. /\ v \in Seq(S) /\ Len(v) = Len(s) + Len(t) - n
        /\ \A k \in 1 .. Len(s) + Len(t) - n : v[k] = (s \o t)[k + n]
    BY <1>1, <1>2, CutParts
  <2> HIDE DEF u, v
  <2>3. u \o t \in Seq(S) /\ Len(u \o t) = Len(v)
    <3>1. u \o t \in Seq(S) /\ Len(u \o t) = Len(u) + Len(t)
      BY <2>1, Joined
    <3> QED
      BY <1>2, <2>1, <2>2, <3>1
  <2>4. ASSUME NEW k \in 1 .. Len(v)
        PROVE  (u \o t)[k] = v[k]
    <3>1. CASE k <= Len(u)
      BY <1>2, <2>1, <2>2, <2>4, <3>1, Joined
    <3>2. CASE k > Len(u)
      <4>1. (u \o t)[k] = t[k - Len(u)]
        BY <1>2, <2>1, <2>2, <2>4, <3>2, Joined, SMTT(30)
      <4>2. (s \o t)[k + n] = t[k + n - Len(s)]
        BY <1>2, <2>1, <2>2, <2>4, <3>2, Joined
      <4>3. k - Len(u) = k + n - Len(s)
        BY <1>2, <2>1
      <4>4. v[k] = (s \o t)[k + n]
        BY <2>2, <2>4
      <4> QED
        BY ONLY <4>1, <4>2, <4>3, <4>4
    <3> QED
      BY <1>2, <2>1, <2>2, <3>1, <3>2, SMTT(30)
  <2>5. u \o t = v
    BY <2>2, <2>3, <2>4, SeqEqual
  <2> QED
    BY <2>5 DEF u, v
<1> QED
  BY <1>3, <1>4
-----------------------------------------------------------------------------
(* The stream                                                              *)

LEMMA Typed ==
    ASSUME FramingTypeOK
    PROVE  /\ HEADER_LENGTH \in Nat /\ HEADER_LENGTH >= 1
           /\ MaxSent \in Nat
           /\ Len(sent) \in Nat /\ Len(sent) <= MaxSent
           /\ \A i \in 1 .. Len(sent) : sent[i] \in Nat /\ sent[i] \in Lengths
           /\ wire \in Seq(Byte) /\ buffer \in Seq(Byte) /\ Rest \in Seq(Byte)
           /\ Len(Rest) = Len(buffer) + Len(wire)
           /\ Len(wire) \in Nat /\ Len(buffer) \in Nat
<1>1. Rest \in Seq(Byte) /\ Len(Rest) = Len(buffer) + Len(wire)
  BY Joined DEF FramingTypeOK, Rest
<1>2. HEADER_LENGTH \in Nat /\ HEADER_LENGTH >= 1 /\ MaxSent \in Nat /\ Lengths \subseteq Nat
  BY FramingAssumption
<1>3. Len(sent) \in Nat /\ Len(sent) <= MaxSent /\ \A i \in 1 .. Len(sent) : sent[i] \in Lengths
  BY DEF FramingTypeOK
<1>4. wire \in Seq(Byte) /\ buffer \in Seq(Byte) /\ Len(wire) \in Nat /\ Len(buffer) \in Nat
  BY DEF FramingTypeOK
<1> QED
  BY <1>1, <1>2, <1>3, <1>4

LEMMA ByteIs ==
    ASSUME NEW x \in Byte
    PROVE  x[1] \in 1 .. MaxSent /\ x[1] \in 1 .. MaxSent + 1 /\ x[1] \in Nat
<1>1. MaxSent \in Nat
  BY FramingAssumption
<1> QED
  BY <1>1 DEF Byte

LEMMA SizeIs ==
    ASSUME NEW lengths \in Seq(Lengths), Len(lengths) <= MaxSent, NEW i \in 1 .. Len(lengths)
    PROVE  /\ lengths[i] \in Nat
           /\ Size(lengths, i) \in Nat /\ Size(lengths, i) = HEADER_LENGTH + lengths[i]
           /\ Size(lengths, i) >= HEADER_LENGTH
           /\ i \in Nat /\ i <= MaxSent /\ i \in 1 .. MaxSent
<1>1. lengths[i] \in Nat
  <2>1. lengths[i] \in Lengths
    OBVIOUS
  <2>2. Lengths \subseteq Nat
    BY FramingAssumption
  <2> QED
    BY ONLY <2>1, <2>2
<1>2. HEADER_LENGTH \in Nat /\ Len(lengths) \in Nat /\ Len(lengths) <= MaxSent /\ MaxSent \in Nat
  BY FramingAssumption
<1> QED
  BY <1>1, <1>2 DEF Size

LEMMA BytesAre ==
    ASSUME NEW i \in 1 .. MaxSent, NEW a \in Nat, NEW b \in Nat, a <= b + 1
    PROVE  /\ Bytes(i, a, b) \in Seq(Byte)
           /\ Len(Bytes(i, a, b)) = b - a + 1
           /\ \A k \in 1 .. b - a + 1 : Bytes(i, a, b)[k] = <<i, a + k - 1>>
<1>1. b - a + 1 \in Nat
  OBVIOUS
<1>2. \A k \in 1 .. b - a + 1 : <<i, a + k - 1>> \in Byte
  BY DEF Byte
<1> QED
  BY <1>1, <1>2 DEF Bytes

\* What is cut off in front, the rest follows.
LEMMA FollowsCut ==
    ASSUME NEW lengths \in Seq(Lengths), Len(lengths) <= MaxSent,
           NEW s \in Seq(Byte), Follows(s, lengths), NEW n \in 0 .. Len(s),
           NEW t, t = SubSeq(s, n + 1, Len(s))
    PROVE  t \in Seq(Byte) /\ Follows(t, lengths)
<1>1. /\ t \in Seq(Byte) /\ Len(t) = Len(s) - n /\ Len(s) \in Nat
      /\ \A k \in 1 .. Len(s) - n : t[k] = s[k + n]
  BY CutParts
<1>2. ASSUME NEW k \in 1 .. Len(t)
      PROVE  Whence(t, lengths, k) /\ Continues(t, lengths, k) /\ Rises(t, k)
  <2>1. k + n \in 1 .. Len(s) /\ t[k] = s[k + n]
    BY <1>1
  <2>2. Whence(s, lengths, k + n) /\ Continues(s, lengths, k + n) /\ Rises(s, k + n)
    BY <2>1 DEF Follows
  <2>3. Whence(t, lengths, k)
    BY <2>1, <2>2 DEF Whence
  <2>4. PICK i \in Nat, p \in Nat, size \in Nat :
            i = s[k + n][1] /\ p = s[k + n][2] /\ size = Size(lengths, i) /\ p >= 1 /\ p <= size
    <3>1. PICK i \in 1 .. Len(lengths) : i = s[k + n][1]
      BY <2>2 DEF Whence
    <3>2. Size(lengths, i) \in Nat /\ i \in Nat
      BY SizeIs
    <3>3. PICK p \in 1 .. Size(lengths, i) : p = s[k + n][2]
      BY <2>2, <3>1 DEF Whence
    <3> QED
      BY <3>1, <3>2, <3>3, SMTT(30)
  <2>5. LastOf(s, lengths, k + n) = k + n + size - p /\ LastOf(t, lengths, k) = k + size - p
    BY <2>1, <2>4 DEF LastOf
  <2>6. Continues(t, lengths, k)
    <3>1. /\ k + n + size - p <= Len(s)
          /\ \A q \in p .. size : s[k + n + q - p] = <<i, q>>
          /\ k + n + size - p < Len(s) => s[k + n + size - p + 1] = <<i + 1, 1>>
          /\ k + n + size - p = Len(s) => i = Len(lengths)
      BY <2>2, <2>4, <2>5 DEF Continues
    <3>2. k + size - p <= Len(t)
      BY <1>1, <3>1
    <3>3. ASSUME NEW q \in p .. size
          PROVE  t[k + q - p] = <<i, q>>
      <4>1. k + q - p \in 1 .. Len(s) - n
        BY <1>1, <3>2
      <4>2. k + q - p + n = k + n + q - p
        OBVIOUS
      <4> QED
        BY <1>1, <3>1, <4>1, <4>2
    <3>4. ASSUME k + size - p < Len(t)
          PROVE  t[k + size - p + 1] = <<i + 1, 1>>
      <4>0. k \in Nat /\ k >= 1 /\ n \in Nat /\ i \in Nat /\ p \in Nat /\ size \in Nat /\ p <= size
        BY <1>1, <2>4, SMTT(30)
      <4>1. k + size - p + 1 \in 1 .. Len(s) - n /\ k + n + size - p < Len(s)
        BY ONLY <1>1, <3>4, <4>0
      <4>2. k + size - p + 1 + n = k + n + size - p + 1
        OBVIOUS
      <4> QED
        BY <1>1, <3>1, <4>1, <4>2
    <3>5. k + size - p = Len(t) => i = Len(lengths)
      <4>1. k \in Nat /\ n \in Nat /\ p \in Nat /\ size \in Nat
        BY <1>1, <2>4
      <4> QED
        BY ONLY <1>1, <3>1, <4>1
    <3> QED
      BY <2>1, <2>4, <2>5, <3>2, <3>3, <3>4, <3>5 DEF Continues
  <2>7. Rises(t, k)
    <3>1. ASSUME NEW j \in k .. Len(t)
          PROVE  t[k][1] <= t[j][1]
      <4>1. j + n \in k + n .. Len(s) /\ j \in 1 .. Len(s) - n
        <5>1. j \in Nat /\ k \in Nat /\ n \in Nat /\ k >= 1 /\ k <= j /\ j <= Len(t)
          BY <1>1
        <5> QED
          BY ONLY <1>1, <5>1
      <4>2. t[j] = s[j + n]
        BY ONLY <1>1, <4>1
      <4> QED
        BY <2>1, <2>2, <4>1, <4>2 DEF Rises
    <3> QED
      BY <3>1 DEF Rises
  <2> QED
    BY <2>3, <2>6, <2>7
<1> QED
  BY <1>1, <1>2 DEF Follows

\* A message sent follows what was sent before.
Extends(s, lengths, length, t, new, b) ==
    /\ lengths \in Seq(Lengths) /\ Len(lengths) < MaxSent /\ length \in Lengths
    /\ s \in Seq(Byte) /\ Follows(s, lengths)
    /\ new = Append(lengths, length)
    /\ b = Bytes(Len(lengths) + 1, 1, HEADER_LENGTH + length)
    /\ t = s \o b

LEMMA FollowsMore ==
    ASSUME NEW s, NEW lengths, NEW length, NEW t, NEW new, NEW b,
           Extends(s, lengths, length, t, new, b)
    PROVE  /\ b \in Seq(Byte) /\ t \in Seq(Byte) /\ Follows(t, new)
           /\ \A j \in 1 .. Len(b) : b[j][1] = Len(new)
           /\ b # << >> /\ b[1] = <<Len(new), 1>>
<1>0. /\ lengths \in Seq(Lengths) /\ Len(lengths) < MaxSent /\ length \in Lengths
      /\ s \in Seq(Byte) /\ Follows(s, lengths)
      /\ new = Append(lengths, length)
      /\ b = Bytes(Len(lengths) + 1, 1, HEADER_LENGTH + length)
      /\ t = s \o b
  BY DEF Extends
<1> USE <1>0
<1>1. PICK n \in Nat, size \in Nat, l \in Nat :
          /\ n = Len(lengths) /\ size = HEADER_LENGTH + length /\ size >= 1 /\ l = Len(s)
          /\ MaxSent \in Nat
  <2>1. HEADER_LENGTH \in Nat \ {0} /\ length \in Nat /\ MaxSent \in Nat
    BY FramingAssumption
  <2>2. HEADER_LENGTH + length \in Nat /\ HEADER_LENGTH + length >= 1
    BY ONLY <2>1
  <2>3. Len(lengths) \in Nat /\ Len(s) \in Nat
    OBVIOUS
  <2> QED
    BY ONLY <2>1, <2>2, <2>3
<1>2. /\ b \in Seq(Byte) /\ Len(b) = size
      /\ \A k \in 1 .. size : b[k] = <<n + 1, k>>
  <2>1. b = Bytes(n + 1, 1, size) /\ n + 1 \in 1 .. MaxSent
    BY <1>1
  <2>2. /\ b \in Seq(Byte) /\ Len(b) = size - 1 + 1
        /\ \A k \in 1 .. size - 1 + 1 : b[k] = <<n + 1, 1 + k - 1>>
    <3>1. 1 \in Nat /\ 1 <= size + 1
      OBVIOUS
    <3> QED
      BY ONLY <2>1, <3>1, size \in Nat, BytesAre
  <2> QED
    BY ONLY <2>2, size \in Nat
<1>3. /\ new \in Seq(Lengths) /\ Len(new) = n + 1 /\ new[n + 1] = length
      /\ \A i \in 1 .. n : new[i] = lengths[i]
  BY <1>1
<1>4. /\ t \in Seq(Byte) /\ Len(t) = l + size
      /\ \A k \in 1 .. l : t[k] = s[k]
      /\ \A k \in 1 .. size : t[l + k] = <<n + 1, k>>
      /\ \A k \in l + 1 .. l + size : t[k] = <<n + 1, k - l>>
  <2>1. /\ t \in Seq(Byte) /\ Len(t) = l + size
        /\ \A k \in 1 .. l : t[k] = s[k]
        /\ \A k \in 1 .. size : t[l + k] = b[k]
    <3>1. /\ t \in Seq(Byte) /\ Len(t) = Len(s) + Len(b)
          /\ \A k \in 1 .. Len(s) : t[k] = s[k]
          /\ \A k \in 1 .. Len(b) : t[Len(s) + k] = b[k]
      BY <1>2, Joined
    <3> QED
      BY ONLY <1>2, <1>1, <3>1
  <2>2. \A k \in 1 .. size : t[l + k] = <<n + 1, k>>
    BY <1>2, <2>1
  <2>3. ASSUME NEW k \in l + 1 .. l + size
        PROVE  t[k] = <<n + 1, k - l>>
    <3>1. k - l \in 1 .. size /\ l + (k - l) = k
      BY <2>1
    <3> QED
      BY <2>2, <3>1
  <2> QED
    BY <2>1, <2>2, <2>3
\* of the bytes there were
<1>5. ASSUME NEW k \in 1 .. l
      PROVE  Whence(t, new, k) /\ Continues(t, new, k) /\ Rises(t, k)
  <2>0. Len(t) = l + size /\ Len(t) \in Nat
    BY <1>4
  <2>1. Whence(s, lengths, k) /\ Continues(s, lengths, k) /\ Rises(s, k) /\ t[k] = s[k]
    BY <1>4, <1>1 DEF Follows
  <2>2. PICK i \in 1 .. n : i = s[k][1]
    BY <1>1, <2>1 DEF Whence
  <2>3. Size(lengths, i) \in Nat /\ Size(new, i) = Size(lengths, i)
    <3>1. Size(lengths, i) \in Nat
      <4>1. lengths \in Seq(Lengths) /\ Len(lengths) <= MaxSent /\ i \in 1 .. Len(lengths)
        BY <1>1
      <4> QED
        BY ONLY <4>1, SizeIs
    <3>2. new[i] = lengths[i]
      BY ONLY <1>3, i \in 1 .. n
    <3> QED
      BY ONLY <3>1, <3>2 DEF Size
  <2>4. PICK p \in Nat, full \in Nat : p = s[k][2] /\ full = Size(lengths, i) /\ p >= 1 /\ p <= full
    BY <2>1, <2>2, <2>3 DEF Whence
  <2>5. LastOf(s, lengths, k) = k + full - p /\ LastOf(t, new, k) = k + full - p
    BY <2>1, <2>2, <2>3, <2>4 DEF LastOf
  <2>6. /\ k + full - p <= l
        /\ \A q \in p .. full : s[k + q - p] = <<i, q>>
        /\ k + full - p < l => s[k + full - p + 1] = <<i + 1, 1>>
        /\ k + full - p = l => i = n
    BY <1>1, <2>1, <2>2, <2>4, <2>5 DEF Continues
  <2>7. /\ k \in Nat /\ k >= 1 /\ k <= l /\ i \in Nat /\ i <= n
        /\ l \in Nat /\ p \in Nat /\ full \in Nat /\ n \in Nat /\ size \in Nat /\ size >= 1
        /\ 1 <= p /\ p <= full /\ k + full - p <= l
    BY <1>1, <1>4, <2>4, <2>6, SMTT(30)
  <2>8. Whence(t, new, k)
    <3>1. t[k][1] = i /\ i \in 1 .. Len(new)
      BY ONLY <1>3, <2>1, <2>2, <2>7
    <3>2. t[k][2] = p /\ p \in 1 .. Size(new, i)
      BY ONLY <2>1, <2>3, <2>4, <2>7
    <3> QED
      BY ONLY <3>1, <3>2 DEF Whence
  <2>9. \A q \in p .. full : t[k + q - p] = <<i, q>>
    <3>1. \A q \in p .. full : k + q - p \in 1 .. l
      BY ONLY <2>7
    <3> QED
      BY ONLY <1>4, <2>6, <3>1
  <2>10. t[k + full - p + 1] = <<i + 1, 1>> /\ k + full - p < Len(t)
    <3>1. CASE k + full - p < l
      <4>1. k + full - p + 1 \in 1 .. l
        BY ONLY <2>7, <3>1
      <4> QED
        BY ONLY <1>4, <2>6, <3>1, <4>1
    <3>2. CASE k + full - p = l
      <4>1. t[l + 1] = <<n + 1, 1>>
        BY ONLY <1>4, <2>7
      <4>2. i = n
        BY ONLY <2>6, <3>2
      <4>3. t[k + full - p + 1] = t[l + 1]
        BY ONLY <3>2
      <4>4. k + full - p < Len(t)
        BY ONLY <2>0, <2>7, <3>2
      <4> QED
        BY ONLY <4>1, <4>2, <4>3, <4>4
    <3> QED
      BY ONLY <2>0, <2>7, <3>1, <3>2, SMTT(30)
  <2>11. Continues(t, new, k)
    <3>1. k + full - p <= Len(t) /\ k + full - p # Len(t)
      BY ONLY <2>0, <2>7
    <3>2. t[k][1] = i /\ t[k][2] = p /\ Size(new, i) = full
      BY ONLY <2>1, <2>2, <2>3, <2>4
    <3> QED
      BY ONLY <2>5, <2>9, <2>10, <3>1, <3>2 DEF Continues
  <2>12. Rises(t, k)
    <3>1. ASSUME NEW j \in k .. Len(t)
          PROVE  t[k][1] <= t[j][1]
      <4>1. CASE j <= l
        BY <1>4, <1>1, <2>1, <2>7, <4>1 DEF Rises
      <4>2. CASE j > l
        <5>1. t[j] = <<n + 1, j - l>>
          BY ONLY <1>4, <2>7, <4>2, j \in k .. Len(t)
        <5>2. t[k][1] = i
          BY ONLY <2>1, <2>2
        <5> QED
          BY ONLY <2>7, <5>1, <5>2
      <4> QED
        BY <2>0, <2>7, <4>1, <4>2
    <3> QED
      BY <3>1 DEF Rises
  <2> QED
    BY <2>8, <2>11, <2>12
\* of those that come in
<1>6. ASSUME NEW p \in 1 .. size
      PROVE  /\ Whence(t, new, l + p) /\ Continues(t, new, l + p)
             /\ Rises(t, l + p)
  <2>1. t[l + p] = <<n + 1, p>> /\ Size(new, n + 1) = size
    BY <1>1, <1>3, <1>4 DEF Size
  <2>2. Whence(t, new, l + p)
    <3>1. n + 1 \in 1 .. Len(new)
      BY <1>1, <1>3
    <3> QED
      BY ONLY <1>1, <2>1, <3>1, p \in 1 .. size DEF Whence
  <2>3. LastOf(t, new, l + p) = Len(t)
    BY <1>1, <1>4, <2>1, SMTT(30) DEF LastOf
  <2>4. \A q \in p .. size : t[l + p + q - p] = <<n + 1, q>>
    <3>1. \A q \in p .. size : l + p + q - p = l + q /\ q \in 1 .. size
      BY <1>4
    <3> QED
      BY <1>4, <3>1
  <2>5. Continues(t, new, l + p)
    <3>1. t[l + p][1] = n + 1 /\ t[l + p][2] = p
      BY ONLY <2>1
    <3>2. Len(t) \in Nat /\ n + 1 = Len(new)
      BY <1>3, <1>4
    <3> QED
      BY ONLY <2>1, <2>3, <2>4, <3>1, <3>2 DEF Continues
  <2>6. Rises(t, l + p)
    <3>1. ASSUME NEW j \in l + p .. Len(t)
          PROVE  t[j][1] = n + 1
      <4>1. j \in l + 1 .. l + size
        BY ONLY <1>4, l \in Nat, p \in 1 .. size, size \in Nat, j \in l + p .. Len(t)
      <4> QED
        BY ONLY <1>4, <4>1
    <3>2. t[l + p][1] = n + 1 /\ n \in Nat
      BY ONLY <2>1, n \in Nat
    <3> QED
      BY ONLY <3>1, <3>2 DEF Rises
  <2> QED
    BY <2>2, <2>5, <2>6
<1>7. Follows(t, new)
  <2> SUFFICES ASSUME NEW k \in 1 .. Len(t)
               PROVE  Whence(t, new, k) /\ Continues(t, new, k) /\ Rises(t, k)
    BY DEF Follows
  <2>1. CASE k <= l
    BY <1>4, <1>5, <2>1
  <2>2. CASE k > l
    <3>1. k - l \in 1 .. size /\ l + (k - l) = k
      BY <1>1, <1>4, <2>2
    <3> QED
      BY <1>6, <3>1
  <2> QED
    BY <1>4, <2>1, <2>2
<1> QED
  BY <1>1, <1>2, <1>3, <1>4, <1>7

\* The first c bytes of the stream, those of message i from a to b, are taken, and t
\* is left.
Takes(s, lengths, i, a, b, c, t) ==
    /\ lengths \in Seq(Lengths) /\ Len(lengths) <= MaxSent
    /\ s \in Seq(Byte) /\ Follows(s, lengths) /\ s # << >>
    /\ s[1] = <<i, a>> /\ b \in Nat /\ a <= b /\ b <= Size(lengths, i)
    /\ c = b - a + 1
    /\ t = SubSeq(s, c + 1, Len(s))

\* They are bytes of one message, and what is behind them is the rest of that
\* message, or begins with the next.
LEMMA Taken ==
    ASSUME NEW s, NEW lengths, NEW i, NEW a, NEW b, NEW c, NEW t,
           Takes(s, lengths, i, a, b, c, t)
    PROVE  /\ i \in 1 .. Len(lengths) /\ c \in 1 .. Len(s)
           /\ SubSeq(s, 1, c) = Bytes(i, a, b)
           /\ b < Size(lengths, i) => t # << >> /\ t[1] = <<i, b + 1>>
           /\ b = Size(lengths, i) => Begins(t, lengths, i + 1)
<1>0. /\ lengths \in Seq(Lengths) /\ Len(lengths) <= MaxSent
      /\ s \in Seq(Byte) /\ Follows(s, lengths) /\ s # << >>
      /\ s[1] = <<i, a>> /\ b \in Nat /\ a <= b /\ b <= Size(lengths, i)
      /\ c = b - a + 1
      /\ t = SubSeq(s, c + 1, Len(s))
  BY DEF Takes
<1> USE <1>0
<1>1. PICK l \in Nat, m \in Nat : l = Len(s) /\ l >= 1 /\ m = Len(lengths)
  BY EmptySeq
<1>2. Whence(s, lengths, 1) /\ Continues(s, lengths, 1) /\ s[1][1] = i /\ s[1][2] = a
  BY <1>1 DEF Follows
<1>3. i \in 1 .. Len(lengths) /\ a \in 1 .. Size(lengths, i)
  BY <1>2 DEF Whence
<1>4. PICK full \in Nat : full = Size(lengths, i)
  BY <1>3, SizeIs
<1>5. /\ 1 + full - a <= l
      /\ \A q \in a .. full : s[1 + q - a] = <<i, q>>
      /\ 1 + full - a < l => s[1 + full - a + 1] = <<i + 1, 1>>
      /\ 1 + full - a = l => i = m
  BY <1>1, <1>2, <1>4 DEF Continues, LastOf
<1>6. /\ l \in Nat /\ m \in Nat /\ full \in Nat /\ i \in Nat /\ a \in Nat /\ b \in Nat /\ c \in Nat
      /\ 1 <= a /\ a <= b /\ b <= full /\ c = b - a + 1 /\ 1 + full - a <= l /\ c <= l /\ 1 <= c
  <2>1. a \in Nat /\ 1 <= a /\ i \in Nat
    BY <1>1, <1>3, <1>4
  <2>2. b \in Nat /\ a <= b /\ b <= full /\ full \in Nat /\ l \in Nat /\ m \in Nat /\ c = b - a + 1
    BY <1>1, <1>4
  <2> QED
    BY ONLY <1>5, <2>1, <2>2
<1>7. /\ SubSeq(s, 1, c) \in Seq(Byte) /\ Len(SubSeq(s, 1, c)) = c
      /\ \A k \in 1 .. c : SubSeq(s, 1, c)[k] = s[k]
      /\ t \in Seq(Byte) /\ Len(t) = l - c /\ \A k \in 1 .. l - c : t[k] = s[k + c]
  <2>1. c \in 0 .. Len(s)
    BY <1>1, <1>6
  <2> QED
    BY <1>1, <2>1, CutParts
<1>8. SubSeq(s, 1, c) = Bytes(i, a, b)
  <2>1. i \in 1 .. MaxSent /\ a \in Nat /\ b \in Nat /\ a <= b + 1
    <3>1. i \in 1 .. MaxSent
      BY <1>3, SizeIs
    <3> QED
      BY ONLY <1>6, <3>1
  <2>2. /\ Bytes(i, a, b) \in Seq(Byte) /\ Len(Bytes(i, a, b)) = c
        /\ \A k \in 1 .. c : Bytes(i, a, b)[k] = <<i, a + k - 1>>
    <3>1. /\ Bytes(i, a, b) \in Seq(Byte) /\ Len(Bytes(i, a, b)) = b - a + 1
          /\ \A k \in 1 .. b - a + 1 : Bytes(i, a, b)[k] = <<i, a + k - 1>>
      BY ONLY <2>1, BytesAre
    <3>2. b - a + 1 = c
      BY ONLY <1>6
    <3> QED
      BY ONLY <3>1, <3>2
  <2>3. ASSUME NEW k \in 1 .. c
        PROVE  s[k] = <<i, a + k - 1>>
    <3>1. a + k - 1 \in a .. full /\ 1 + (a + k - 1) - a = k
      BY ONLY <1>6, k \in 1 .. c
    <3> QED
      BY ONLY <1>5, <3>1
  <2> QED
    <3>1. \A k \in 1 .. Len(SubSeq(s, 1, c)) : SubSeq(s, 1, c)[k] = Bytes(i, a, b)[k]
      BY ONLY <1>7, <2>2, <2>3
    <3> QED
      BY ONLY <1>7, <2>2, <3>1, SeqEqual
<1>9. ASSUME b < full
      PROVE  t # << >> /\ t[1] = <<i, b + 1>>
  <2>1. l - c >= 1 /\ 1 \in 1 .. l - c
    BY ONLY <1>6, <1>9
  <2>2. t[1] = s[1 + c]
    BY ONLY <1>7, <2>1
  <2>3. b + 1 \in a .. full /\ 1 + (b + 1) - a = 1 + c
    BY ONLY <1>6, <1>9
  <2>4. s[1 + c] = <<i, b + 1>>
    BY ONLY <1>5, <2>3
  <2>5. t # << >>
    <3>1. Len(t) # 0
      BY ONLY <1>6, <1>7, <2>1
    <3> QED
      BY <3>1, EmptySeq
  <2> QED
    BY <2>2, <2>4, <2>5
<1>10. ASSUME b = full
       PROVE  Begins(t, lengths, i + 1)
  <2>1. CASE t = << >>
    <3>1. 1 + full - a = l
      <4>1. Len(t) = 0
        BY <2>1, EmptySeq
      <4> QED
        BY ONLY <1>6, <1>7, <1>10, <4>1, SMTT(30)
    <3> QED
      BY <1>1, <1>5, <1>6, <2>1, <3>1 DEF Begins
  <2>2. CASE t # << >>
    <3>1. l - c >= 1 /\ 1 \in 1 .. l - c
      <4>1. Len(t) # 0
        BY <1>7, <2>2, EmptySeq
      <4> QED
        BY ONLY <1>6, <1>7, <4>1
    <3>2. t[1] = s[1 + c]
      BY ONLY <1>7, <3>1
    <3>3. 1 + full - a < l /\ 1 + full - a + 1 = 1 + c
      BY ONLY <1>6, <1>10, <3>1
    <3>4. s[1 + c] = <<i + 1, 1>>
      BY ONLY <1>5, <3>3
    <3> QED
      BY <2>2, <3>2, <3>4 DEF Begins
  <2> QED
    BY <2>1, <2>2
<1>11. c \in 1 .. Len(s)
  BY <1>1, <1>6
<1> QED
  BY <1>3, <1>4, <1>8, <1>9, <1>10, <1>11

\* What was cut off is joined again.
LEMMA CutWhole ==
    ASSUME NEW S, NEW s \in Seq(S), NEW n \in 0 .. Len(s)
    PROVE  SubSeq(s, 1, n) \o SubSeq(s, n + 1, Len(s)) = s
<1>1. Len(s) \in Nat
  OBVIOUS
<1>2. 1 \in 1 .. Len(s) + 1 /\ n \in 1 - 1 .. Len(s) /\ Len(s) \in n .. Len(s)
  BY <1>1
<1>3. SubSeq(s, 1, n) \o SubSeq(s, n + 1, Len(s)) = SubSeq(s, 1, Len(s))
  BY <1>2, ConcatAdjacentSubSeq
<1>4. SubSeq(s, 1, Len(s)) = s
  BY SubSeqFull
<1> QED
  BY ONLY <1>3, <1>4
-----------------------------------------------------------------------------
(* The types                                                               *)

\* What is taken for a header has its size.
LEMMA HeaderBytesAre ==
    ASSUME FramingTypeOK, HeaderReady
    PROVE  /\ SubSeq(buffer, 1, HEADER_LENGTH) \in HeaderBytes
           /\ HEADER_LENGTH \in 0 .. Len(buffer)
           /\ SubSeq(buffer, HEADER_LENGTH + 1, Len(buffer)) \in Seq(Byte)
<1>1. HEADER_LENGTH \in 0 .. Len(buffer) /\ buffer \in Seq(Byte)
  BY Typed DEF HeaderReady
<1> DEFINE bytes == SubSeq(buffer, 1, HEADER_LENGTH)
<1>2. bytes \in Seq(Byte) /\ Len(bytes) = HEADER_LENGTH
  BY <1>1, CutParts
<1>3. SubSeq(buffer, HEADER_LENGTH + 1, Len(buffer)) \in Seq(Byte)
  BY <1>1, CutParts
<1> HIDE DEF bytes
<1>4. bytes \in [1 .. HEADER_LENGTH -> Byte]
  BY <1>2
<1> QED
  BY <1>1, <1>3, <1>4 DEF HeaderBytes, bytes

\* What is read is a header.
LEMMA HeaderTyped ==
    ASSUME FramingTypeOK, NEW bytes \in HeaderBytes, NEW length \in Lengths
    PROVE  /\ [bytes |-> bytes, length |-> length] \in [bytes : HeaderBytes, length : Lengths]
           /\ [bytes |-> bytes, length |-> length] # NoHeader
<1>1. bytes \in Seq(Nat \X Nat)
  <2>1. bytes \in [1 .. HEADER_LENGTH -> Byte] /\ HEADER_LENGTH \in Nat
    BY Typed DEF HeaderBytes
  <2>2. Byte \subseteq Nat \X Nat
    BY Typed DEF Byte
  <2>3. bytes \in [1 .. HEADER_LENGTH -> Nat \X Nat]
    BY <2>1, <2>2
  <2> QED
    BY <2>1, <2>3
<1>2. length \in Nat
  BY FramingAssumption
<1>3. [bytes |-> bytes, length |-> length] \in [bytes : Seq(Nat \X Nat), length : Nat]
  BY <1>1, <1>2
<1> QED
  BY <1>3, FramingAssumption

LEMMA LengthTyped ==
    ASSUME FramingTypeOK, NEW bytes, NEW length \in LengthIn(bytes)
    PROVE  length \in Lengths
BY DEF LengthIn, FramingTypeOK

LEMMA HeaderIs ==
    ASSUME FramingTypeOK, header # NoHeader
    PROVE  header.bytes \in HeaderBytes /\ header.length \in Lengths /\ header.length \in Nat
<1>1. header \in [bytes : HeaderBytes, length : Lengths]
  BY DEF FramingTypeOK
<1> QED
  BY <1>1, FramingAssumption

\* What a handler gets and leaves.
LEMMA PayloadIs ==
    ASSUME FramingTypeOK, PayloadReady
    PROVE  /\ [header |-> header.bytes, payload |-> SubSeq(buffer, 1, header.length)]
                  \in [header : HeaderBytes, payload : Seq(Byte)]
           /\ header.length \in 0 .. Len(buffer)
           /\ SubSeq(buffer, header.length + 1, Len(buffer)) \in Seq(Byte)
<1>1. header.bytes \in HeaderBytes /\ header.length \in Nat
  BY HeaderIs DEF PayloadReady
<1>2. header.length \in 0 .. Len(buffer) /\ buffer \in Seq(Byte)
  BY <1>1, Typed DEF PayloadReady
<1>3. /\ SubSeq(buffer, 1, header.length) \in Seq(Byte)
      /\ SubSeq(buffer, header.length + 1, Len(buffer)) \in Seq(Byte)
  BY <1>2, CutParts
<1> QED
  BY <1>1, <1>2, <1>3

LEMMA WireCut ==
    ASSUME FramingTypeOK, NEW n \in 1 .. Len(wire)
    PROVE  /\ SubSeq(wire, 1, n) \in Seq(Byte) /\ SubSeq(wire, n + 1, Len(wire)) \in Seq(Byte)
           /\ Divides(n) => wire[n + 1][1] \in 1 .. MaxSent + 1
<1>1. n \in 0 .. Len(wire) /\ wire \in Seq(Byte) /\ MaxSent \in Nat /\ Len(wire) \in Nat
  BY Typed
<1>2. ASSUME Divides(n)
      PROVE  wire[n + 1][1] \in 1 .. MaxSent + 1
  <2>1. n + 1 \in 1 .. Len(wire)
    BY <1>1, <1>2 DEF Divides
  <2>2. wire[n + 1] \in Byte
    BY <1>1, <2>1
  <2> QED
    BY <1>1, <2>2, ByteIs
<1> QED
  BY <1>1, <1>2, CutParts

-----------------------------------------------------------------------------
(* The steps                                                               *)

\* What the two ends do alike: a header is taken out of the buffer,
TakesHeader ==
    /\ HeaderReady
    /\ loop = "read"
    /\ \E length \in LengthIn(SubSeq(buffer, 1, HEADER_LENGTH)) :
          header' = [bytes |-> SubSeq(buffer, 1, HEADER_LENGTH), length |-> length]
    /\ buffer' = SubSeq(buffer, HEADER_LENGTH + 1, Len(buffer))
    /\ UNCHANGED <<reader, cut, sent, wire, handled, loop>>

\* a payload is, and handled,
TakesPayload ==
    /\ PayloadReady
    /\ loop = "read"
    /\ handled' = Append(handled, [header |-> header.bytes,
                                   payload |-> SubSeq(buffer, 1, header.length)])
    /\ buffer' = SubSeq(buffer, header.length + 1, Len(buffer))
    /\ header' = NoHeader
    /\ UNCHANGED <<reader, cut, sent, wire, loop>>

\* and the loop is left, or nothing is known any more.
Leaves ==
    /\ loop' \in {"outside", "astray"}
    /\ reader = "agent" => loop' = "astray"
    /\ UNCHANGED <<reader, cut, sent, wire, buffer, header, handled>>

LEMMA Steps ==
    ASSUME [FramingNext]_framing
    PROVE  \/ \E length \in Lengths : SendMessage(length)
           \/ \E n \in 1 .. Len(wire) : DataReceived(n)
           \/ \E n \in 1 .. Len(wire) : RecvBytes(n)
           \/ TakesHeader
           \/ TakesPayload
           \/ Leaves
           \/ RecvDone
           \/ UNCHANGED framing
<1>1. ReadHeader => TakesHeader
  BY DEF ReadHeader, TakesHeader
<1>2. ReadPayload => TakesPayload
  BY DEF ReadPayload, TakesPayload
<1>3. ReadDone => Leaves
  BY DEF ReadDone, Leaves
<1>4. UnpackHeader => TakesHeader \/ Leaves
  BY DEF UnpackHeader, TakesHeader, Leaves
<1>5. RunHandler => TakesPayload \/ Leaves
  BY DEF RunHandler, TakesPayload, Leaves
<1> QED
  BY <1>1, <1>2, <1>3, <1>4, <1>5 DEF FramingNext, Reactor, AgentTask

LEMMA TypeStep ==
    FramingTypeOK /\ [FramingNext]_framing => FramingTypeOK'
<1> SUFFICES ASSUME FramingTypeOK, [FramingNext]_framing
             PROVE  FramingTypeOK'
  OBVIOUS
<1>1. ASSUME NEW length \in Lengths, SendMessage(length)
      PROVE  FramingTypeOK'
  <2>1. Len(sent) < MaxSent /\ Len(sent) \in Nat /\ HEADER_LENGTH \in Nat /\ length \in Nat /\ MaxSent \in Nat
    BY <1>1, Typed, FramingAssumption DEF SendMessage
  <2>2. Bytes(Len(sent) + 1, 1, HEADER_LENGTH + length) \in Seq(Byte)
    <3>1. /\ Len(sent) + 1 \in 1 .. MaxSent /\ 1 \in Nat
          /\ HEADER_LENGTH + length \in Nat /\ 1 <= HEADER_LENGTH + length + 1
      BY ONLY <2>1
    <3> QED
      BY ONLY <3>1, BytesAre
  <2>3. sent' \in Seq(Lengths) /\ Len(sent') <= MaxSent
    BY <1>1, <2>1 DEF SendMessage, FramingTypeOK
  <2>4. wire' \in Seq(Byte)
    BY <1>1, <2>2, Joined, Typed DEF SendMessage
  <2> QED
    BY <1>1, <2>3, <2>4 DEF SendMessage, FramingTypeOK
<1>2. ASSUME NEW n \in 1 .. Len(wire), DataReceived(n)
      PROVE  FramingTypeOK'
  <2>1. buffer' \in Seq(Byte) /\ wire' \in Seq(Byte)
    BY <1>2, WireCut, Joined, Typed DEF DataReceived
  <2> QED
    BY <1>2, <2>1 DEF DataReceived, FramingTypeOK
<1>3. CASE TakesHeader
  <2>1. buffer' \in Seq(Byte)
    BY <1>3, HeaderBytesAre DEF TakesHeader
  <2>2. header' \in [bytes : HeaderBytes, length : Lengths]
    BY <1>3, HeaderBytesAre, LengthTyped, HeaderTyped DEF TakesHeader
  <2> QED
    BY <1>3, <2>1, <2>2 DEF TakesHeader, FramingTypeOK
<1>4. CASE TakesPayload
  <2>1. buffer' \in Seq(Byte) /\ handled' \in Seq([header : HeaderBytes, payload : Seq(Byte)])
    BY <1>4, PayloadIs DEF TakesPayload, FramingTypeOK
  <2> QED
    BY <1>4, <2>1 DEF TakesPayload, FramingTypeOK
<1>5. ASSUME NEW n \in 1 .. Len(wire), RecvBytes(n)
      PROVE  FramingTypeOK'
  <2>1. buffer' \in Seq(Byte) /\ wire' \in Seq(Byte) /\ cut' \in 1 .. MaxSent + 1
    BY <1>5, WireCut DEF RecvBytes, FramingTypeOK
  <2> QED
    BY <1>5, <2>1 DEF RecvBytes, FramingTypeOK
<1>6. CASE Leaves
  BY <1>6 DEF Leaves, FramingTypeOK
<1>7. CASE RecvDone
  BY <1>7 DEF RecvDone, FramingTypeOK
<1>8. CASE UNCHANGED framing
  BY <1>8 DEF framing, FramingTypeOK
<1> QED
  BY <1>1, <1>2, <1>3, <1>4, <1>5, <1>6, <1>7, <1>8, Steps
-----------------------------------------------------------------------------
(* Each step keeps the invariant                                           *)

\* The first of what is joined is the first there is.
LEMMA JoinedFirst ==
    ASSUME NEW S, NEW s \in Seq(S), NEW t \in Seq(S)
    PROVE  /\ s = << >> => s \o t = t
           /\ s # << >> => s \o t # << >> /\ (s \o t)[1] = s[1]
<1>1. Len(s \o t) = Len(s) + Len(t) /\ Len(s) \in Nat /\ Len(t) \in Nat
  BY Joined
<1>2. ASSUME s # << >>
      PROVE  s \o t # << >> /\ (s \o t)[1] = s[1]
  <2>1. Len(s) >= 1
    BY <1>2, EmptySeq
  <2>2. (s \o t)[1] = s[1]
    BY <1>1, <2>1, Joined
  <2>3. Len(s \o t) # 0
    BY <1>1, <2>1
  <2> QED
    BY <2>2, <2>3, EmptySeq
<1> QED
  BY <1>2, ConcatEmptySeq

\* What begins with message i still does when more is behind it.
LEMMA BeginsMore ==
    ASSUME NEW s \in Seq(Byte), NEW b \in Seq(Byte), NEW lengths, NEW i, Begins(s, lengths, i),
           b # << >>, b[1] = <<Len(lengths) + 1, 1>>, NEW new
    PROVE  Begins(s \o b, new, i)
<1>1. CASE s = << >>
  BY <1>1, JoinedFirst DEF Begins
<1>2. CASE s # << >>
  BY <1>2, JoinedFirst DEF Begins
<1> QED
  BY <1>1, <1>2

\* Only what is sent can make the stream longer, and it is the next message.
LEMMA SendStep ==
    ASSUME FramingInv, NEW length \in Lengths, SendMessage(length)
    PROVE  /\ Follows(Rest, sent)' /\ Reading' /\ Done' /\ Beyond' /\ Cuts'
<1> USE DEF FramingInv
<1>1. PICK b : /\ b = Bytes(Len(sent) + 1, 1, HEADER_LENGTH + length)
               /\ wire' = wire \o b /\ sent' = Append(sent, length) /\ Len(sent) < MaxSent
               /\ UNCHANGED <<reader, buffer, header, handled, loop, cut>>
  BY DEF SendMessage
<1>2. PICK n \in Nat : /\ n = Len(sent) /\ Len(sent') = n + 1
                       /\ \A i \in 1 .. n : sent'[i] = sent[i]
                       /\ sent \in Seq(Lengths)
  BY <1>1 DEF FramingTypeOK
<1>3. /\ b \in Seq(Byte) /\ Follows(Rest \o b, sent')
      /\ \A j \in 1 .. Len(b) : b[j][1] = n + 1
      /\ b # << >> /\ b[1] = <<n + 1, 1>>
  <2>1. Rest \in Seq(Byte) /\ Follows(Rest, sent)
    BY Typed
  <2>2. Extends(Rest, sent, length, Rest \o b, sent', b)
    BY <1>1, <1>2, <2>1 DEF Extends
  <2>3. /\ b \in Seq(Byte) /\ Follows(Rest \o b, sent')
        /\ \A j \in 1 .. Len(b) : b[j][1] = Len(sent')
        /\ b # << >> /\ b[1] = <<Len(sent'), 1>>
    BY ONLY <2>2, FollowsMore
  <2> QED
    BY ONLY <1>2, <2>3
<1>4. Rest' = Rest \o b
  <2>1. Rest' = buffer \o (wire \o b)
    BY <1>1 DEF Rest
  <2>2. buffer \o (wire \o b) = (buffer \o wire) \o b
    <3>1. buffer \in Seq(Byte) /\ wire \in Seq(Byte) /\ b \in Seq(Byte)
      BY <1>3, Typed
    <3> QED
      BY ONLY <3>1, ConcatAssociative
  <2> QED
    BY <2>1, <2>2 DEF Rest
<1>5. Follows(Rest, sent)'
  BY <1>3, <1>4
<1>6. Number' = Number /\ Number \in Nat /\ cut' = cut /\ cut \in Nat /\ Len(handled) \in Nat /\ cut >= 1
  BY <1>1 DEF Number, FramingTypeOK
<1>7. Reading'
  <2> SUFFICES ASSUME Number < cut
               PROVE  /\ header = NoHeader => Begins(Rest', sent', Number)
                      /\ header # NoHeader =>
                            /\ Number <= Len(sent')
                            /\ header = [bytes |-> Bytes(Number, 1, HEADER_LENGTH), length |-> sent'[Number]]
                            /\ IF sent'[Number] = 0 THEN Begins(Rest', sent', Number + 1)
                               ELSE Rest' # << >> /\ Rest'[1] = <<Number, HEADER_LENGTH + 1>>
    BY <1>1, <1>6 DEF Reading
  <2>1. ASSUME NEW i, Begins(Rest, sent, i)
        PROVE  Begins(Rest', sent', i)
    BY <1>2, <1>3, <1>4, <2>1, BeginsMore, Typed
  <2>2. ASSUME header # NoHeader
        PROVE  /\ Number <= Len(sent')
               /\ header = [bytes |-> Bytes(Number, 1, HEADER_LENGTH), length |-> sent'[Number]]
               /\ IF sent'[Number] = 0 THEN Begins(Rest', sent', Number + 1)
                  ELSE Rest' # << >> /\ Rest'[1] = <<Number, HEADER_LENGTH + 1>>
    <3>1. /\ Number <= n
          /\ header = [bytes |-> Bytes(Number, 1, HEADER_LENGTH), length |-> sent[Number]]
          /\ IF sent[Number] = 0 THEN Begins(Rest, sent, Number + 1)
             ELSE Rest # << >> /\ Rest[1] = <<Number, HEADER_LENGTH + 1>>
      BY <1>2, <2>2 DEF Reading
    <3>2. Number \in 1 .. n /\ Number <= n + 1
      BY <1>2, <1>6, <3>1 DEF Number
    <3>3. sent'[Number] = sent[Number]
      BY <1>2, <3>2
    <3>4. CASE sent[Number] = 0
      BY <1>2, <2>1, <3>1, <3>2, <3>3, <3>4
    <3>5. CASE sent[Number] # 0
      <4>1. Rest \o b # << >> /\ (Rest \o b)[1] = Rest[1]
        BY <1>3, <3>1, <3>5, JoinedFirst, Typed
      <4> QED
        BY <1>2, <1>4, <3>1, <3>2, <3>3, <3>5, <4>1
    <3> QED
      BY <3>4, <3>5
  <2> QED
    BY <2>1, <2>2 DEF Reading
<1>8. Done'
  <2> SUFFICES ASSUME NEW k \in 1 .. Len(handled), k < cut
               PROVE  k <= n + 1 /\ handled[k] = Whole(k, sent'[k])
    BY <1>1, <1>2 DEF Done
  <2>1. k <= n /\ handled[k] = Whole(k, sent[k])
    BY <1>2 DEF Done
  <2>2. k \in 1 .. n
    BY <1>2, <1>6, <2>1
  <2> QED
    BY <1>2, <2>1, <2>2
<1>9. Beyond'
  <2> SUFFICES ASSUME Number >= cut, NEW j \in 1 .. Len(wire')
               PROVE  wire'[j][1] >= cut
    BY <1>1, <1>6 DEF Beyond
  <2>1. /\ Len(wire') = Len(wire) + Len(b) /\ Len(wire) \in Nat /\ Len(b) \in Nat
        /\ \A k \in 1 .. Len(wire) : wire'[k] = wire[k]
        /\ \A k \in Len(wire) + 1 .. Len(wire) + Len(b) : wire'[k] = b[k - Len(wire)]
    BY <1>1, <1>3, Typed, Joined, SMTT(30)
  <2>2. CASE j <= Len(wire)
    BY <2>1, <2>2 DEF Beyond
  <2>3. CASE j > Len(wire)
    <3>1. wire'[j][1] = n + 1
      <4>1. wire'[j] = b[j - Len(wire)] /\ j - Len(wire) \in 1 .. Len(b)
        BY <2>1, <2>3
      <4> QED
        BY <1>3, <4>1
    <3>2. cut - 1 <= n
      <4>1. CASE cut = 1
        BY <4>1
      <4>2. CASE cut # 1
        <5>1. cut - 1 \in 1 .. Len(handled) /\ cut - 1 < cut
          BY <1>6, <4>2 DEF Number
        <5> QED
          BY <1>2, <5>1 DEF Done
      <4> QED
        BY <4>1, <4>2
    <3> QED
      BY <1>2, <1>6, <3>1, <3>2
  <2> QED
    BY <2>1, <2>2, <2>3
<1>10. Cuts'
  <2>1. ASSUME reader = "agent", wire' # << >>, wire'[1][2] # 1
        PROVE  cut <= wire'[1][1]
    <3>1. CASE wire = << >>
      <4>1. wire' = b
        BY <1>1, <1>3, <3>1, JoinedFirst, Typed
      <4> QED
        BY <1>3, <2>1, <4>1
    <3>2. CASE wire # << >>
      <4>1. wire'[1] = wire[1]
        BY <1>1, <1>3, <3>2, JoinedFirst, Typed
      <4> QED
        BY <2>1, <3>2, <4>1 DEF Cuts
    <3> QED
      BY <3>1, <3>2
  <2> QED
    BY <1>1, <2>1 DEF Cuts
<1> QED
  BY <1>5, <1>7, <1>8, <1>9, <1>10

\* The controller moves bytes along the stream.
LEMMA ReceivedStep ==
    ASSUME FramingInv, NEW n \in 1 .. Len(wire), DataReceived(n)
    PROVE  /\ Follows(Rest, sent)' /\ Reading' /\ Done' /\ Beyond' /\ Cuts'
<1> USE DEF FramingInv
<1>1. /\ reader = "controller" /\ reader' = reader /\ cut' = cut /\ sent' = sent /\ header' = header
      /\ handled' = handled /\ buffer' = buffer \o SubSeq(wire, 1, n)
      /\ wire' = SubSeq(wire, n + 1, Len(wire))
  BY DEF DataReceived
<1>2. wire \in Seq(Byte) /\ buffer \in Seq(Byte) /\ n \in 0 .. Len(wire) /\ Len(wire) \in Nat
  BY Typed
<1>3. Rest' = Rest
  <2>1. PICK h, w : h = SubSeq(wire, 1, n) /\ w = SubSeq(wire, n + 1, Len(wire))
    OBVIOUS
  <2>2. h \in Seq(Byte) /\ w \in Seq(Byte)
    BY <1>2, <2>1, CutParts
  <2>3. h \o w = wire
    BY ONLY <1>2, <2>1, CutWhole
  <2>4. Rest' = (buffer \o h) \o w
    BY <1>1, <2>1 DEF Rest
  <2>5. (buffer \o h) \o w = buffer \o (h \o w)
    <3>1. buffer \in Seq(Byte) /\ h \in Seq(Byte) /\ w \in Seq(Byte)
      BY <1>2, <2>2
    <3> QED
      BY ONLY <3>1, ConcatAssociative
  <2> QED
    BY <2>3, <2>4, <2>5 DEF Rest
<1>4. Follows(Rest, sent)' /\ Reading' /\ Done'
  BY <1>1, <1>3 DEF Reading, Done, Number
<1>5. Beyond'
  <2> SUFFICES ASSUME Number >= cut, NEW j \in 1 .. Len(wire')
               PROVE  wire'[j][1] >= cut
    BY <1>1 DEF Beyond, Number
  <2>1. j + n \in 1 .. Len(wire) /\ wire'[j] = wire[j + n]
    <3>1. Len(wire') = Len(wire) - n /\ \A k \in 1 .. Len(wire) - n : wire'[k] = wire[k + n]
      BY <1>1, <1>2, CutParts
    <3> QED
      BY <1>2, <3>1
  <2> QED
    BY <2>1 DEF Beyond
<1>6. Cuts'
  BY <1>1 DEF Cuts
<1> QED
  BY <1>4, <1>5, <1>6

\* The agent does too; what it divides is not behind it already.
LEMMA RecvStep ==
    ASSUME FramingInv, NEW n \in 1 .. Len(wire), RecvBytes(n)
    PROVE  /\ Follows(Rest, sent)' /\ Reading' /\ Done' /\ Beyond' /\ Cuts'
<1> USE DEF FramingInv
<1>1. /\ reader = "agent" /\ loop = "outside" /\ reader' = reader /\ sent' = sent /\ header' = header
      /\ handled' = handled /\ buffer' = SubSeq(wire, 1, n)
      /\ wire' = SubSeq(wire, n + 1, Len(wire)) /\ loop' = "read"
      /\ cut' = IF Divides(n) /\ wire[n + 1][1] < cut THEN wire[n + 1][1] ELSE cut
  BY DEF RecvBytes
<1>2. buffer = << >> /\ header = NoHeader
  BY <1>1 DEF Cuts
<1>3. wire \in Seq(Byte) /\ n \in 0 .. Len(wire) /\ Len(wire) \in Nat /\ n >= 1 /\ wire # << >>
  BY Typed, EmptySeq
<1>4. Rest = wire /\ Rest' = wire
  <2>1. SubSeq(wire, 1, n) \o SubSeq(wire, n + 1, Len(wire)) = wire
    BY ONLY <1>3, CutWhole
  <2> QED
    BY <1>1, <1>2, <1>3, <2>1, ConcatEmptySeq DEF Rest
<1>5. /\ Number' = Number /\ Number \in Nat /\ cut \in Nat /\ MaxSent \in Nat /\ Len(handled) \in Nat
      /\ \A j \in 1 .. Len(wire) : wire[j][1] \in Nat
  <2>1. Number' = Number /\ Len(handled) \in Nat /\ Number \in Nat
    BY <1>1 DEF Number, FramingTypeOK
  <2>2. MaxSent \in Nat /\ cut \in Nat
    BY Typed DEF FramingTypeOK
  <2>3. ASSUME NEW j \in 1 .. Len(wire)
        PROVE  wire[j][1] \in Nat
    <3>1. wire[j] \in Byte
      BY <1>3
    <3> QED
      BY <3>1, ByteIs
  <2> QED
    BY <2>1, <2>2, <2>3
<1>6. cut' \in Nat /\ cut' <= cut
  <2>1. CASE Divides(n)
    <3>1. wire[n + 1][1] \in Nat
      BY <2>1, WireCut, <1>5
    <3> QED
      BY <1>1, <1>5, <3>1
  <2>2. CASE ~Divides(n)
    BY <1>1, <1>5, <2>2
  <2> QED
    BY <2>1, <2>2
<1>7. Follows(Rest, sent)'
  BY <1>1, <1>4
<1>8. Reading'
  <2>1. Number < cut' => Number < cut
    BY <1>5, <1>6
  <2>2. Number < cut => Begins(Rest, sent, Number)
    BY <1>2 DEF Reading
  <2> QED
    BY <1>1, <1>2, <1>4, <1>5, <2>1, <2>2 DEF Reading
<1>9. Done'
  <2> SUFFICES ASSUME NEW k \in 1 .. Len(handled), k < cut'
               PROVE  k <= Len(sent) /\ handled[k] = Whole(k, sent[k])
    BY <1>1 DEF Done
  <2>1. k < cut
    BY <1>5, <1>6
  <2> QED
    BY <2>1 DEF Done
<1>10. ASSUME NEW j \in 1 .. Len(wire')
       PROVE  /\ j + n \in n + 1 .. Len(wire) /\ n + 1 \in 1 .. Len(wire) /\ n < Len(wire)
              /\ wire'[j] = wire[j + n] /\ wire[n + 1][1] <= wire[j + n][1]
  <2>1. Len(wire') = Len(wire) - n /\ \A k \in 1 .. Len(wire) - n : wire'[k] = wire[k + n]
    BY <1>1, <1>3, CutParts
  <2>2. /\ j + n \in n + 1 .. Len(wire) /\ n + 1 \in 1 .. Len(wire) /\ n < Len(wire)
        /\ wire'[j] = wire[j + n]
    BY <1>3, <2>1
  <2>3. Rises(wire, n + 1)
    BY <1>4, <2>2 DEF Follows
  <2> QED
    BY <2>2, <2>3 DEF Rises
<1>11. Beyond'
  <2> SUFFICES ASSUME Number >= cut', NEW j \in 1 .. Len(wire')
               PROVE  wire'[j][1] >= cut'
    BY <1>1, <1>5 DEF Beyond
  <2>1. /\ j + n \in 1 .. Len(wire) /\ n + 1 \in 1 .. Len(wire)
        /\ wire'[j] = wire[j + n] /\ wire[n + 1][1] <= wire[j + n][1]
    BY <1>3, <1>10
  <2>2. PICK w \in Nat, v \in Nat : w = wire[n + 1][1] /\ v = wire[j + n][1] /\ w <= v
    BY <1>5, <2>1
  <2>3. CASE Number >= cut
    <3>1. v >= cut
      BY <2>1, <2>2, <2>3 DEF Beyond
    <3> QED
      BY <1>5, <1>6, <2>1, <2>2, <3>1
  <2>4. CASE Number < cut
    <3>1. cut' = w
      BY <1>1, <1>5, <1>6, <2>2, <2>4
    <3> QED
      BY <2>1, <2>2, <3>1
  <2> QED
    BY <1>5, <2>3, <2>4
<1>12. Cuts'
  <2> SUFFICES ASSUME wire' # << >>, wire'[1][2] # 1
               PROVE  cut' <= wire'[1][1]
    BY <1>1 DEF Cuts
  <2>1. 1 \in 1 .. Len(wire')
    BY <1>1, WireCut, EmptySeq
  <2>2. wire'[1] = wire[n + 1] /\ n < Len(wire) /\ n + 1 \in 1 .. Len(wire)
    <3>1. 1 + n = n + 1
      BY <1>3
    <3> QED
      BY <1>10, <2>1, <3>1
  <2>3. Divides(n)
    BY <2>2 DEF Divides
  <2>4. wire[n + 1][1] \in Nat
    BY <1>5, <2>2
  <2> QED
    BY <1>1, <1>5, <2>2, <2>3, <2>4
<1> QED
  BY <1>7, <1>8, <1>9, <1>11, <1>12

\* The bytes that are taken out of the buffer are those that are next in the
\* stream.
LEMMA RestCut ==
    ASSUME FramingInv, NEW n \in 0 .. Len(buffer), buffer' = SubSeq(buffer, n + 1, Len(buffer)),
           wire' = wire, sent' = sent
    PROVE  /\ SubSeq(buffer, 1, n) = SubSeq(Rest, 1, n)
           /\ Rest' = SubSeq(Rest, n + 1, Len(Rest))
           /\ Rest' \in Seq(Byte) /\ Follows(Rest', sent)
<1> USE DEF FramingInv
<1>1. buffer \in Seq(Byte) /\ wire \in Seq(Byte) /\ Rest \in Seq(Byte) /\ n \in 0 .. Len(Rest)
  BY Typed
<1>2. /\ SubSeq(buffer, 1, n) = SubSeq(Rest, 1, n)
      /\ SubSeq(buffer, n + 1, Len(buffer)) \o wire = SubSeq(Rest, n + 1, Len(Rest))
  BY <1>1, CutJoined DEF Rest
<1>3. Rest' = SubSeq(Rest, n + 1, Len(Rest))
  <2>1. Rest' = buffer' \o wire'
    BY DEF Rest
  <2> QED
    BY <1>2, <2>1
<1>4. sent \in Seq(Lengths) /\ Len(sent) <= MaxSent /\ Follows(Rest, sent)
  BY DEF FramingTypeOK
<1>5. Rest' \in Seq(Byte) /\ Follows(Rest', sent)
  BY <1>1, <1>3, <1>4, FollowsCut
<1> QED
  BY <1>2, <1>3, <1>5

\* The header that is taken is that of the message that is next.
LEMMA HeaderTaken ==
    ASSUME FramingInv, TakesHeader, Number < cut
    PROVE  /\ Number \in 1 .. Len(sent)
           /\ header' = [bytes |-> Bytes(Number, 1, HEADER_LENGTH), length |-> sent[Number]]
           /\ IF sent[Number] = 0 THEN Begins(Rest', sent, Number + 1)
              ELSE Rest' # << >> /\ Rest'[1] = <<Number, HEADER_LENGTH + 1>>
<1> USE DEF FramingInv
<1>1. /\ header = NoHeader /\ HEADER_LENGTH \in 0 .. Len(buffer) /\ HEADER_LENGTH \in Nat
      /\ HEADER_LENGTH >= 1 /\ buffer' = SubSeq(buffer, HEADER_LENGTH + 1, Len(buffer))
      /\ wire' = wire /\ sent' = sent
  BY HeaderBytesAre, Typed DEF TakesHeader, HeaderReady
<1>2. /\ SubSeq(buffer, 1, HEADER_LENGTH) = SubSeq(Rest, 1, HEADER_LENGTH)
      /\ Rest' = SubSeq(Rest, HEADER_LENGTH + 1, Len(Rest))
  BY <1>1, RestCut
<1>3. Rest \in Seq(Byte) /\ Rest # << >> /\ Rest[1] = <<Number, 1>>
  <2>1. Rest \in Seq(Byte) /\ Len(Rest) # 0
    BY <1>1, Typed
  <2>2. Begins(Rest, sent, Number)
    BY <1>1 DEF Reading
  <2> QED
    BY <2>1, <2>2, EmptySeq DEF Begins
<1>4. sent \in Seq(Lengths) /\ Len(sent) <= MaxSent /\ Follows(Rest, sent)
  BY DEF FramingTypeOK
<1>5. Number \in 1 .. Len(sent)
  <2>1. 1 \in 1 .. Len(Rest)
    BY <1>3, EmptySeq
  <2>2. Rest[1][1] \in 1 .. Len(sent)
    BY <1>4, <2>1 DEF Follows, Whence
  <2> QED
    BY <1>3, <2>2
<1>6. /\ sent[Number] \in Nat
      /\ Size(sent, Number) = HEADER_LENGTH + sent[Number]
      /\ Number \in 1 .. MaxSent
  BY <1>4, <1>5, SizeIs
<1>7. /\ SubSeq(Rest, 1, HEADER_LENGTH) = Bytes(Number, 1, HEADER_LENGTH)
      /\ HEADER_LENGTH < Size(sent, Number) => Rest' # << >> /\ Rest'[1] = <<Number, HEADER_LENGTH + 1>>
      /\ HEADER_LENGTH = Size(sent, Number) => Begins(Rest', sent, Number + 1)
  <2>1. /\ HEADER_LENGTH <= Size(sent, Number) /\ 1 <= HEADER_LENGTH
        /\ HEADER_LENGTH = HEADER_LENGTH - 1 + 1
    BY <1>1, <1>6
  <2>2. Takes(Rest, sent, Number, 1, HEADER_LENGTH, HEADER_LENGTH, Rest')
    BY <1>1, <1>2, <1>3, <1>4, <2>1 DEF Takes
  <2> QED
    BY ONLY <2>2, Taken
<1>8. IF sent[Number] = 0 THEN Begins(Rest', sent, Number + 1)
      ELSE Rest' # << >> /\ Rest'[1] = <<Number, HEADER_LENGTH + 1>>
  BY <1>1, <1>6, <1>7
<1>9. header' = [bytes |-> Bytes(Number, 1, HEADER_LENGTH), length |-> sent[Number]]
  <2>1. ASSUME NEW i \in DOMAIN sent, Bytes(Number, 1, HEADER_LENGTH) = Bytes(i, 1, HEADER_LENGTH)
        PROVE  i = Number
    <3>1. Bytes(Number, 1, HEADER_LENGTH)[1] = <<Number, 1>> /\ Bytes(i, 1, HEADER_LENGTH)[1] = <<i, 1>>
      BY <1>1 DEF Bytes
    <3> QED
      BY <2>1, <3>1
  <2>2. LengthIn(Bytes(Number, 1, HEADER_LENGTH)) = {sent[Number]}
    <3>1. Number \in DOMAIN sent
      BY <1>4, <1>5
    <3> QED
      BY <2>1, <3>1 DEF LengthIn
  <2>3. SubSeq(buffer, 1, HEADER_LENGTH) = Bytes(Number, 1, HEADER_LENGTH)
    BY <1>2, <1>7
  <2> QED
    BY <2>2, <2>3 DEF TakesHeader
<1> QED
  BY <1>5, <1>8, <1>9

LEMMA HeaderStep ==
    ASSUME FramingInv, TakesHeader
    PROVE  /\ Follows(Rest, sent)' /\ Reading' /\ Done' /\ Beyond' /\ Cuts'
<1> USE DEF FramingInv
<1>1. /\ wire' = wire /\ sent' = sent /\ handled' = handled /\ cut' = cut /\ reader' = reader
      /\ loop = "read" /\ loop' = loop /\ HEADER_LENGTH \in 0 .. Len(buffer)
      /\ buffer' = SubSeq(buffer, HEADER_LENGTH + 1, Len(buffer))
  BY HeaderBytesAre DEF TakesHeader
<1>2. Follows(Rest, sent)'
  BY <1>1, RestCut
<1>3. Reading'
  <2>1. header' # NoHeader
    <3>1. PICK length \in LengthIn(SubSeq(buffer, 1, HEADER_LENGTH)) :
              header' = [bytes |-> SubSeq(buffer, 1, HEADER_LENGTH), length |-> length]
      BY DEF TakesHeader
    <3>2. SubSeq(buffer, 1, HEADER_LENGTH) \in HeaderBytes /\ length \in Lengths
      BY HeaderBytesAre, LengthTyped DEF TakesHeader
    <3> QED
      BY <3>1, <3>2, HeaderTyped
  <2>2. ASSUME Number < cut
        PROVE  /\ Number <= Len(sent)
               /\ header' = [bytes |-> Bytes(Number, 1, HEADER_LENGTH), length |-> sent[Number]]
               /\ IF sent[Number] = 0 THEN Begins(Rest', sent, Number + 1)
                  ELSE Rest' # << >> /\ Rest'[1] = <<Number, HEADER_LENGTH + 1>>
    <3>1. Number \in 1 .. Len(sent) /\ Len(sent) \in Nat
      BY <2>2, HeaderTaken, Typed
    <3> QED
      BY <2>2, <3>1, HeaderTaken
  <2>3. Number' = Number
    BY <1>1 DEF Number
  <2> QED
    BY <1>1, <2>1, <2>2, <2>3 DEF Reading
<1>4. Done' /\ Beyond' /\ Cuts'
  BY <1>1 DEF Done, Beyond, Cuts, Number
<1> QED
  BY <1>2, <1>3, <1>4

\* No byte is taken of an empty payload.
LEMMA NoBytes ==
    ASSUME NEW i \in 1 .. MaxSent, NEW b \in Nat, NEW s \in Seq(Byte)
    PROVE  /\ SubSeq(s, 1, 0) = Bytes(i, b + 1, b)
           /\ SubSeq(s, 0 + 1, Len(s)) = s
<1>1. SubSeq(s, 1, 0) \in Seq(Byte) /\ Len(SubSeq(s, 1, 0)) = 0
  <2>1. 0 \in 0 .. Len(s)
    OBVIOUS
  <2> QED
    BY <2>1, CutParts
<1>2. Bytes(i, b + 1, b) \in Seq(Byte) /\ Len(Bytes(i, b + 1, b)) = 0
  <2>1. b + 1 \in Nat /\ b - (b + 1) + 1 = 0 /\ b + 1 <= b + 1
    OBVIOUS
  <2> QED
    BY <2>1, BytesAre
<1>3. SubSeq(s, 0 + 1, Len(s)) = s
  BY SubSeqFull
<1> QED
  BY <1>1, <1>2, <1>3, EmptySeq

\* The payload that is taken is that of the message whose header was read, and the
\* next message is behind it.
LEMMA PayloadTaken ==
    ASSUME FramingInv, TakesPayload, Number < cut
    PROVE  /\ Number \in 1 .. Len(sent)
           /\ handled' = Append(handled, Whole(Number, sent[Number]))
           /\ Begins(Rest', sent, Number + 1)
<1> USE DEF FramingInv
<1>1. /\ header # NoHeader /\ header.length \in 0 .. Len(buffer)
      /\ buffer' = SubSeq(buffer, header.length + 1, Len(buffer))
      /\ wire' = wire /\ sent' = sent
  BY PayloadIs DEF TakesPayload, PayloadReady
<1>2. /\ Number \in 1 .. Len(sent)
      /\ header.bytes = Bytes(Number, 1, HEADER_LENGTH) /\ header.length = sent[Number]
      /\ IF sent[Number] = 0 THEN Begins(Rest, sent, Number + 1)
         ELSE Rest # << >> /\ Rest[1] = <<Number, HEADER_LENGTH + 1>>
  <2>1. Number \in Nat /\ Number >= 1 /\ Len(sent) \in Nat
    BY Typed DEF Number, FramingTypeOK
  <2> QED
    BY <1>1, <2>1 DEF Reading
<1>3. /\ SubSeq(buffer, 1, header.length) = SubSeq(Rest, 1, header.length)
      /\ Rest' = SubSeq(Rest, header.length + 1, Len(Rest))
  BY <1>1, RestCut
<1>4. /\ sent \in Seq(Lengths) /\ Len(sent) <= MaxSent /\ Follows(Rest, sent) /\ Rest \in Seq(Byte)
      /\ HEADER_LENGTH \in Nat
  BY Typed DEF FramingTypeOK
<1>5. PICK length \in Nat : length = sent[Number]
  BY <1>2, <1>4, SizeIs
<1>6. Size(sent, Number) = HEADER_LENGTH + length /\ Number \in 1 .. MaxSent
  BY <1>2, <1>4, <1>5, SizeIs
<1>7. /\ SubSeq(Rest, 1, length) = Bytes(Number, HEADER_LENGTH + 1, HEADER_LENGTH + length)
      /\ Begins(Rest', sent, Number + 1)
  <2>1. CASE length = 0
    <3>1. /\ SubSeq(Rest, 1, 0) = Bytes(Number, HEADER_LENGTH + 1, HEADER_LENGTH)
          /\ SubSeq(Rest, 0 + 1, Len(Rest)) = Rest
      BY <1>4, <1>6, NoBytes
    <3>2. Rest' = Rest
      BY <1>2, <1>3, <1>5, <2>1, <3>1
    <3>3. HEADER_LENGTH + length = HEADER_LENGTH
      BY <1>4, <2>1
    <3> QED
      BY <1>2, <1>5, <2>1, <3>1, <3>2, <3>3
  <2>2. CASE length # 0
    <3>1. Rest # << >> /\ Rest[1] = <<Number, HEADER_LENGTH + 1>>
      BY <1>2, <1>5, <2>2
    <3>2. /\ HEADER_LENGTH + length \in Nat /\ HEADER_LENGTH + 1 <= HEADER_LENGTH + length
          /\ length = (HEADER_LENGTH + length) - (HEADER_LENGTH + 1) + 1
          /\ HEADER_LENGTH + length <= Size(sent, Number)
      <4>1. HEADER_LENGTH \in Nat /\ length \in Nat /\ length # 0
        BY <1>4, <2>2
      <4>2. /\ HEADER_LENGTH + length \in Nat /\ HEADER_LENGTH + 1 <= HEADER_LENGTH + length
            /\ HEADER_LENGTH + length <= HEADER_LENGTH + length
        BY ONLY <4>1
      <4>3. (HEADER_LENGTH + length) - (HEADER_LENGTH + 1) + 1 = length
        BY ONLY <4>1
      <4> QED
        BY ONLY <1>6, <4>2, <4>3
    <3>3. Rest' = SubSeq(Rest, length + 1, Len(Rest))
      BY <1>2, <1>3, <1>5
    <3>4. Takes(Rest, sent, Number, HEADER_LENGTH + 1, HEADER_LENGTH + length, length, Rest')
      BY ONLY <1>4, <3>1, <3>2, <3>3 DEF Takes
    <3> QED
      BY ONLY <1>6, <3>4, Taken
  <2> QED
    BY <2>1, <2>2
<1>8. handled' = Append(handled, Whole(Number, sent[Number]))
  BY <1>2, <1>3, <1>5, <1>7 DEF TakesPayload, Whole
<1> QED
  BY <1>2, <1>7, <1>8

LEMMA PayloadStep ==
    ASSUME FramingInv, TakesPayload
    PROVE  /\ Follows(Rest, sent)' /\ Reading' /\ Done' /\ Beyond' /\ Cuts'
<1> USE DEF FramingInv
<1>1. /\ wire' = wire /\ sent' = sent /\ cut' = cut /\ reader' = reader
      /\ loop = "read" /\ loop' = loop /\ header' = NoHeader
      /\ header.length \in 0 .. Len(buffer)
      /\ buffer' = SubSeq(buffer, header.length + 1, Len(buffer))
  BY PayloadIs DEF TakesPayload
<1>2. Follows(Rest, sent)' /\ Rest' \in Seq(Byte) /\ Follows(Rest', sent)
  BY <1>1, RestCut
<1>3. PICK m : handled' = Append(handled, m)
  BY DEF TakesPayload
<1>4. PICK l \in Nat : /\ l = Len(handled) /\ Len(handled') = l + 1 /\ Number = l + 1 /\ Number' = l + 2
                       /\ handled'[l + 1] = m /\ \A k \in 1 .. l : handled'[k] = handled[k]
                       /\ cut \in Nat
  <2>1. /\ handled \in Seq([header : HeaderBytes, payload : Seq(Byte)])
        /\ Len(handled) \in Nat /\ cut \in Nat
    BY DEF FramingTypeOK
  <2>2. /\ Len(handled') = Len(handled) + 1 /\ handled'[Len(handled) + 1] = m
        /\ \A k \in 1 .. Len(handled) : handled'[k] = handled[k]
    BY <1>3, <2>1
  <2>3. Number = Len(handled) + 1 /\ Number' = Len(handled) + 2
    BY <2>1, <2>2 DEF Number
  <2> QED
    BY ONLY <2>1, <2>2, <2>3
<1>5. ASSUME l + 1 < cut
      PROVE  /\ l + 1 <= Len(sent) /\ m = Whole(l + 1, sent[l + 1])
             /\ Begins(Rest', sent, l + 2)
  <2>1. /\ Number \in 1 .. Len(sent)
        /\ handled' = Append(handled, Whole(Number, sent[Number]))
        /\ Begins(Rest', sent, Number + 1)
    BY <1>4, <1>5, PayloadTaken
  <2>2. m = Whole(l + 1, sent[l + 1])
    <3>1. handled'[Len(handled) + 1] = Whole(Number, sent[Number])
      BY <2>1 DEF FramingTypeOK
    <3> QED
      BY <1>4, <3>1
  <2>3. Number + 1 = l + 2 /\ Len(sent) \in Nat
    BY <1>4, Typed
  <2> QED
    BY <1>4, <2>1, <2>2, <2>3
<1>6. Reading'
  <2>1. l + 2 < cut => Begins(Rest', sent, l + 2)
    BY <1>4, <1>5
  <2> QED
    BY <1>1, <1>4, <2>1 DEF Reading
<1>7. Done'
  <2> SUFFICES ASSUME NEW k \in 1 .. l + 1, k < cut
               PROVE  k <= Len(sent) /\ handled'[k] = Whole(k, sent[k])
    BY <1>1, <1>4 DEF Done
  <2>1. CASE k \in 1 .. l
    BY <1>4, <2>1 DEF Done
  <2>2. CASE k = l + 1
    BY <1>4, <1>5, <2>2
  <2> QED
    BY <1>4, <2>1, <2>2
<1>8. Beyond'
  <2> SUFFICES ASSUME l + 2 >= cut, NEW j \in 1 .. Len(wire)
               PROVE  wire[j][1] >= cut
    BY <1>1, <1>4 DEF Beyond
  <2>1. CASE l + 1 >= cut
    BY <1>4, <2>1 DEF Beyond
  <2>2. CASE l + 1 < cut
    <3>1. cut = l + 2
      BY <1>4, <2>2
    <3>2. Begins(Rest', sent, cut)
      BY <1>5, <2>2, <3>1
    <3>3. /\ Len(Rest') = Len(buffer') + Len(wire) /\ Len(buffer') \in Nat /\ Len(wire) \in Nat
          /\ \A k \in 1 .. Len(wire) : Rest'[Len(buffer') + k] = wire[k]
      <4>1. buffer' \in Seq(Byte) /\ wire \in Seq(Byte)
        BY <1>1, PayloadIs, Typed DEF TakesPayload
      <4>2. Rest' = buffer' \o wire
        BY <1>1 DEF Rest
      <4> QED
        BY <4>1, <4>2, Joined
    <3>4. Len(buffer') + j \in 1 .. Len(Rest') /\ 1 \in 1 .. Len(Rest')
      BY <3>3
    <3>5. Rest'[1] = <<cut, 1>>
      <4>1. Rest' # << >>
        BY <3>4, EmptySeq
      <4> QED
        BY <3>2, <4>1 DEF Begins
    <3>6. Rest'[1][1] <= Rest'[Len(buffer') + j][1]
      BY <1>2, <3>4 DEF Follows, Rises
    <3>7. Rest'[Len(buffer') + j] = wire[j]
      BY <3>3
    <3>8. cut <= wire[j][1] /\ wire[j] \in Byte
      BY <3>5, <3>6, <3>7, Typed
    <3> QED
      BY <1>4, <3>8, ByteIs
  <2> QED
    BY <1>4, <2>1, <2>2
<1>9. Cuts'
  BY <1>1 DEF Cuts
<1> QED
  BY <1>2, <1>6, <1>7, <1>8, <1>9

LEMMA LeaveStep ==
    ASSUME FramingInv, Leaves
    PROVE  /\ Follows(Rest, sent)' /\ Reading' /\ Done' /\ Beyond' /\ Cuts'
<1>1. /\ UNCHANGED <<reader, cut, sent, wire, buffer, header, handled>>
      /\ reader = "agent" => loop' # "outside"
  BY DEF Leaves
<1>2. Follows(Rest, sent)'
  BY <1>1 DEF Rest, FramingInv
<1>3. Reading' /\ Done' /\ Beyond'
  BY <1>1 DEF Reading, Done, Beyond, Number, Rest, FramingInv
<1>4. Cuts'
  BY <1>1 DEF Cuts, FramingInv
<1> QED
  BY <1>2, <1>3, <1>4

\* Up to the message that was divided there is nothing to drop: what is too short for
\* a header would be the beginning of one, and its message divided.
LEMMA DropStep ==
    ASSUME FramingInv, RecvDone
    PROVE  /\ Follows(Rest, sent)' /\ Reading' /\ Done' /\ Beyond' /\ Cuts'
<1> USE DEF FramingInv
<1>1. /\ reader = "agent" /\ header = NoHeader /\ buffer' = << >>
      /\ UNCHANGED <<reader, cut, sent, wire, header, handled>>
      /\ Len(buffer) < HEADER_LENGTH
  BY Typed DEF RecvDone, HeaderReady
<1>2. /\ buffer \in Seq(Byte) /\ wire \in Seq(Byte) /\ Rest \in Seq(Byte)
      /\ Len(Rest) = Len(buffer) + Len(wire)
      /\ Len(buffer) \in 0 .. Len(buffer) /\ Len(buffer) \in Nat /\ HEADER_LENGTH \in Nat
      /\ Len(buffer) \in 0 .. Len(Rest)
  BY Typed
<1>3. Rest' = wire /\ wire = SubSeq(Rest, Len(buffer) + 1, Len(Rest))
  <2>1. Rest' = wire
    BY <1>1, <1>2, ConcatEmptySeq DEF Rest
  <2>2. SubSeq(buffer, Len(buffer) + 1, Len(buffer)) \o wire = SubSeq(Rest, Len(buffer) + 1, Len(Rest))
    BY <1>2, CutJoined DEF Rest
  <2>3. SubSeq(buffer, Len(buffer) + 1, Len(buffer)) = << >>
    BY <1>2, SubSeqEmpty
  <2> QED
    BY <1>2, <2>1, <2>2, <2>3, ConcatEmptySeq
<1>4. sent \in Seq(Lengths) /\ Len(sent) <= MaxSent /\ Follows(Rest, sent)
  BY DEF FramingTypeOK
<1>5. Follows(Rest, sent)'
  <2>1. Follows(wire, sent)
    BY <1>2, <1>3, <1>4, FollowsCut
  <2> QED
    BY <1>1, <1>3, <2>1
<1>6. Reading'
  <2>1. ASSUME Number < cut
        PROVE  Rest' = Rest
    <3>1. Begins(Rest, sent, Number)
      BY <1>1, <2>1 DEF Reading
    <3>2. CASE buffer = << >>
      BY <1>2, <1>3, <3>2, ConcatEmptySeq DEF Rest
    <3>3. CASE buffer # << >>
      <4>1. Rest # << >> /\ Rest[1] = <<Number, 1>> /\ Len(buffer) >= 1
        <5>1. Rest # << >>
          BY <1>2, <3>3, JoinedFirst DEF Rest
        <5> QED
          BY <1>2, <3>1, <3>3, <5>1, EmptySeq DEF Begins
      <4>2. Number \in 1 .. Len(sent)
        <5>1. 1 \in 1 .. Len(Rest)
          BY <1>2, <4>1, EmptySeq
        <5>2. Rest[1][1] \in 1 .. Len(sent)
          BY <1>4, <5>1 DEF Follows, Whence
        <5> QED
          BY <4>1, <5>2
      <4>3. Len(buffer) < Size(sent, Number)
        <5>1. Size(sent, Number) \in Nat /\ Size(sent, Number) >= HEADER_LENGTH
          BY <1>4, <4>2, SizeIs
        <5> QED
          BY <1>1, <1>2, <5>1
      <4>4. Takes(Rest, sent, Number, 1, Len(buffer), Len(buffer), wire)
        <5>1. /\ Len(buffer) <= Size(sent, Number) /\ 1 <= Len(buffer)
              /\ Len(buffer) = Len(buffer) - 1 + 1
          <6>1. Size(sent, Number) \in Nat
            BY <1>4, <4>2, SizeIs
          <6> QED
            BY <1>2, <4>1, <4>3, <6>1
        <5> QED
          BY <1>2, <1>3, <1>4, <4>1, <5>1 DEF Takes
      <4>5. wire # << >> /\ wire[1] = <<Number, Len(buffer) + 1>>
        BY ONLY <4>3, <4>4, Taken
      <4>6. cut <= Number
        <5>1. wire[1][2] # 1 /\ wire[1][1] = Number
          BY <1>2, <4>1, <4>5
        <5> QED
          BY <1>1, <4>5, <5>1 DEF Cuts
      <4>7. cut \in Nat /\ Number \in Nat
        BY <4>2 DEF FramingTypeOK
      <4> QED
        BY <2>1, <4>6, <4>7
    <3> QED
      BY <3>2, <3>3
  <2> QED
    BY <1>1, <2>1 DEF Reading, Number
<1>7. Done' /\ Beyond'
  BY <1>1 DEF Done, Beyond, Number
<1>8. Cuts'
  BY <1>1 DEF Cuts
<1> QED
  BY <1>5, <1>6, <1>7, <1>8

LEMMA FramingInvStep ==
    FramingInv /\ [FramingNext]_framing => FramingInv'
<1> SUFFICES ASSUME FramingInv, [FramingNext]_framing
             PROVE  FramingInv'
  OBVIOUS
<1>1. FramingTypeOK'
  BY TypeStep DEF FramingInv
<1>2. /\ Follows(Rest, sent)' /\ Reading' /\ Done' /\ Beyond' /\ Cuts'
  <2>1. CASE UNCHANGED framing
    BY <2>1 DEF FramingInv, framing, Rest, Reading, Done, Beyond, Cuts, Number
  <2> QED
    BY <2>1, Steps, SendStep, ReceivedStep, RecvStep, HeaderStep, PayloadStep, LeaveStep, DropStep
<1> QED
  BY <1>1, <1>2 DEF FramingInv

LEMMA FramingInvInit ==
    FramingInit => FramingInv
<1> SUFFICES ASSUME FramingInit
             PROVE  FramingInv
  OBVIOUS
<1>1. Rest = << >> /\ Len(Rest) = 0 /\ Len(wire) = 0 /\ Number = 1 /\ MaxSent \in Nat
  BY FramingAssumption DEF FramingInit, Rest, Number
<1>2. FramingTypeOK
  BY <1>1 DEF FramingInit, FramingTypeOK
<1>3. Follows(Rest, sent) /\ Begins(Rest, sent, Number)
  BY <1>1 DEF FramingInit, Follows, Begins
<1>4. Reading /\ Done /\ Beyond /\ Cuts
  BY <1>1, <1>3 DEF FramingInit, Reading, Done, Beyond, Cuts
<1> QED
  BY <1>2, <1>3, <1>4 DEF FramingInv

\* However the bytes are cut, what is in the buffer and under way stays the messages
\* that were sent, in order, and up to the first that a recv() divided those that
\* were handled are those that were sent (protocol.py, 47 to 92; agent.c, 530 to 592).
THEOREM FramingInvariant == FramingSpec => []FramingInv
<1> QED
  BY FramingInvInit, FramingInvStep, PTL DEF FramingSpec

\* Every variable keeps its type: what is read as a header always has its full size.
THEOREM FramingTypeCorrect == FramingSpec => []FramingTypeOK
<1>1. FramingInv => FramingTypeOK
  BY DEF FramingInv
<1> QED
  BY <1>1, FramingInvariant, PTL
-----------------------------------------------------------------------------
(* The channel                                                             *)

\* what is in the channel when n of the messages of these lengths are delivered
QueueOf(lengths, n) == [k \in 1 .. Len(lengths) - n |-> Whole(n + k, lengths[n + k])]

\* The queue of the channel, when the next message is sent and when one is delivered.
LEMMA QueueIs ==
    ASSUME NEW lengths \in Seq(Lengths), NEW n \in 0 .. Len(lengths), NEW q, q = QueueOf(lengths, n)
    PROVE  \E W : /\ q \in Seq(W) /\ Len(q) = Len(lengths) - n
                  /\ \A k \in 1 .. Len(lengths) - n : q[k] = Whole(n + k, lengths[n + k])
<1>1. PICK m \in Nat : m = Len(lengths) - n
  OBVIOUS
<1>2. q = [k \in 1 .. m |-> Whole(n + k, lengths[n + k])]
  BY <1>1 DEF QueueOf
<1>3. PICK W : W = {Whole(n + k, lengths[n + k]) : k \in 1 .. m}
  OBVIOUS
<1>4. \A k \in 1 .. m : Whole(n + k, lengths[n + k]) \in W
  BY ONLY <1>3
<1>5. q \in [1 .. m -> W]
  BY ONLY <1>2, <1>4
<1>6. q \in Seq(W) /\ Len(q) = m
  BY ONLY <1>5, m \in Nat
<1> QED
  BY <1>1, <1>2, <1>6

LEMMA QueueSent ==
    ASSUME NEW lengths \in Seq(Lengths), NEW length, NEW n \in 0 .. Len(lengths)
    PROVE  QueueOf(Append(lengths, length), n)
               = Append(QueueOf(lengths, n), Whole(Len(lengths) + 1, length))
<1> DEFINE new == Append(lengths, length)
<1>1. PICK l \in Nat : l = Len(lengths) /\ n \in Nat /\ n <= l /\ l - n \in Nat
  OBVIOUS
<1>2. Len(new) = l + 1 /\ new[l + 1] = length /\ \A k \in 1 .. l : new[k] = lengths[k]
  BY <1>1
<1>3. PICK q, W : /\ q = QueueOf(lengths, n) /\ q \in Seq(W) /\ Len(q) = l - n
                  /\ \A k \in 1 .. l - n : q[k] = Whole(n + k, lengths[n + k])
  BY <1>1, QueueIs
<1> HIDE DEF new
<1> DEFINE t == Append(q, Whole(l + 1, length))
<1>4. /\ DOMAIN t = 1 .. l - n + 1 /\ t = [k \in 1 .. l - n + 1 |-> t[k]]
      /\ t[l - n + 1] = Whole(l + 1, length) /\ \A k \in 1 .. l - n : t[k] = q[k]
  <2>1. PICK x, V : x = Whole(l + 1, length) /\ q \in Seq(V) /\ x \in V
    <3>1. PICK x : x = Whole(l + 1, length)
      OBVIOUS
    <3>2. q \in Seq(W \cup {x}) /\ x \in W \cup {x}
      BY ONLY <1>3
    <3> QED
      BY ONLY <3>1, <3>2
  <2>2. /\ t \in Seq(V) /\ Len(t) = Len(q) + 1 /\ t[Len(q) + 1] = x
        /\ \A k \in 1 .. Len(q) : t[k] = q[k]
    BY ONLY <2>1, AppendProperties DEF t
  <2> HIDE DEF t
  <2>3. DOMAIN t = 1 .. Len(q) + 1 /\ t = [k \in DOMAIN t |-> t[k]]
    BY ONLY <2>2
  <2> QED
    BY ONLY <1>3, <2>1, <2>2, <2>3
<1>5. QueueOf(new, n) = [k \in 1 .. l - n + 1 |-> Whole(n + k, new[n + k])]
  BY <1>1, <1>2 DEF QueueOf
<1> HIDE DEF t
<1>6. ASSUME NEW k \in 1 .. l - n + 1
      PROVE  t[k] = Whole(n + k, new[n + k])
  <2>1. CASE k = l - n + 1
    <3>1. n + k = l + 1
      BY <1>1, <2>1
    <3> QED
      BY <1>2, <1>4, <2>1, <3>1
  <2>2. CASE k # l - n + 1
    <3>1. k \in 1 .. l - n /\ n + k \in 1 .. l
      BY <1>1, <2>2
    <3> QED
      BY <1>2, <1>3, <1>4, <3>1
  <2> QED
    BY <2>1, <2>2
<1>7. QueueOf(new, n) = t
  BY <1>4, <1>5, <1>6
<1> QED
  BY <1>1, <1>3, <1>7 DEF new, t

LEMMA QueueDelivered ==
    ASSUME NEW lengths \in Seq(Lengths), NEW n \in Nat, n + 1 <= Len(lengths)
    PROVE  /\ QueueOf(lengths, n) # << >>
           /\ Head(QueueOf(lengths, n)) = Whole(n + 1, lengths[n + 1])
           /\ Tail(QueueOf(lengths, n)) = QueueOf(lengths, n + 1)
<1>1. PICK l \in Nat : l = Len(lengths) /\ n + 1 <= l /\ l - n \in Nat /\ l - n >= 1 /\ l - (n + 1) \in Nat
  OBVIOUS
<1>2. PICK q, W : /\ q = QueueOf(lengths, n) /\ q \in Seq(W) /\ Len(q) = l - n
                  /\ \A k \in 1 .. l - n : q[k] = Whole(n + k, lengths[n + k])
  <2>1. n \in 0 .. Len(lengths)
    BY <1>1
  <2> QED
    BY <1>1, <2>1, QueueIs
<1>3. QueueOf(lengths, n + 1) = [k \in 1 .. l - (n + 1) |-> Whole(n + 1 + k, lengths[n + 1 + k])]
  BY <1>1 DEF QueueOf
<1>4. q # << >> /\ Head(q) = q[1]
  <2>1. Len(q) # 0
    BY <1>1, <1>2
  <2> QED
    BY <1>2, <2>1, EmptySeq
<1>5. Tail(q) = [k \in 1 .. l - (n + 1) |-> q[k + 1]]
  <2>1. Tail(q) \in Seq(W) /\ Len(Tail(q)) = Len(q) - 1 /\ \A k \in 1 .. Len(q) - 1 : Tail(q)[k] = q[k + 1]
    BY ONLY <1>2, <1>4, HeadTailProperties
  <2>2. Len(q) - 1 = l - (n + 1)
    BY <1>1, <1>2
  <2>3. Tail(q) = [k \in 1 .. Len(Tail(q)) |-> Tail(q)[k]]
    <3>1. \A u \in Seq(W) : u = [k \in 1 .. Len(u) |-> u[k]]
      OBVIOUS
    <3> QED
      BY ONLY <2>1, <3>1, Zenon
  <2> QED
    BY ONLY <2>1, <2>2, <2>3
<1>6. ASSUME NEW k \in 1 .. l - (n + 1)
      PROVE  q[k + 1] = Whole(n + 1 + k, lengths[n + 1 + k])
  <2>1. k + 1 \in 1 .. l - n /\ n + (k + 1) = n + 1 + k
    BY <1>1
  <2> QED
    BY <1>2, <2>1
<1>7. 1 \in 1 .. l - n
  BY <1>1
<1> QED
  BY <1>2, <1>3, <1>4, <1>5, <1>6, <1>7

\* The messages handled whole are as many as were sent, or fewer.
LEMMA IntactIs ==
    ASSUME FramingInv
    PROVE  /\ Number <= cut => Intact = handled /\ Len(Intact) = Len(handled)
           /\ Number > cut => Intact = SubSeq(handled, 1, cut - 1) /\ Len(Intact) = cut - 1
           /\ Len(Intact) \in Nat /\ Len(Intact) <= Len(sent) /\ Len(sent) \in Nat
           /\ Len(handled) \in Nat /\ cut \in Nat \ {0}
           /\ Len(Intact) <= Len(handled) /\ Len(Intact) < cut
<1> USE DEF FramingInv
<1>1. /\ handled \in Seq([header : HeaderBytes, payload : Seq(Byte)])
      /\ Len(handled) \in Nat /\ cut \in Nat \ {0} /\ Len(sent) \in Nat /\ Number = Len(handled) + 1
  BY Typed DEF FramingTypeOK, Number
<1>2. ASSUME Number <= cut
      PROVE  Intact = handled /\ Len(Intact) = Len(handled)
  <2>1. Intact = SubSeq(handled, 1, Len(handled))
    BY <1>1, <1>2 DEF Intact
  <2> QED
    BY <1>1, <2>1, SubSeqFull
<1>3. ASSUME Number > cut
      PROVE  Intact = SubSeq(handled, 1, cut - 1) /\ Len(Intact) = cut - 1
  <2>1. Intact = SubSeq(handled, 1, cut - 1)
    BY <1>1, <1>3 DEF Intact
  <2>2. cut - 1 \in 0 .. Len(handled)
    BY <1>1, <1>3
  <2> QED
    BY <1>1, <2>1, <2>2, CutParts
<1>4. /\ Len(Intact) \in Nat /\ Len(Intact) <= Len(handled) /\ Len(Intact) < cut
  BY <1>1, <1>2, <1>3
<1>5. Len(Intact) <= Len(sent)
  <2>1. CASE Len(Intact) = 0
    BY <1>1, <2>1
  <2>2. CASE Len(Intact) # 0
    <3>1. Len(Intact) \in 1 .. Len(handled)
      BY <1>1, <1>4, <2>2
    <3> QED
      BY <1>4, <3>1 DEF Done
  <2> QED
    BY <2>1, <2>2
<1> QED
  BY <1>1, <1>2, <1>3, <1>4, <1>5

\* A recv() never divides a message that was handled before.
LEMMA RecvCut ==
    ASSUME FramingInv, NEW n \in 1 .. Len(wire), RecvBytes(n)
    PROVE  /\ Number <= cut => Number <= cut'
           /\ Number > cut => cut' = cut
<1> USE DEF FramingInv
<1>1. /\ reader = "agent" /\ loop = "outside"
      /\ cut' = IF Divides(n) /\ wire[n + 1][1] < cut THEN wire[n + 1][1] ELSE cut
  BY DEF RecvBytes
<1>2. /\ wire \in Seq(Byte) /\ Len(wire) \in Nat /\ wire # << >> /\ Number \in Nat /\ cut \in Nat
      /\ Number <= cut \/ Number > cut
  BY Typed, EmptySeq DEF FramingTypeOK, Number
<1>3. Rest = wire /\ header = NoHeader
  BY <1>1, <1>2, ConcatEmptySeq DEF Rest, Cuts
<1>4. ASSUME Divides(n)
      PROVE  wire[n + 1][1] \in Nat /\ (Number >= cut => wire[n + 1][1] >= cut)
             /\ (Number < cut => wire[n + 1][1] >= Number)
  <2>1. n + 1 \in 1 .. Len(wire) /\ 1 \in 1 .. Len(wire)
    BY <1>2, <1>4 DEF Divides
  <2>2. wire[n + 1][1] \in Nat
    BY <1>2, <2>1, ByteIs
  <2>3. Number >= cut => wire[n + 1][1] >= cut
    BY <2>1 DEF Beyond
  <2>4. ASSUME Number < cut
        PROVE  wire[n + 1][1] >= Number
    <3>1. wire[1] = <<Number, 1>>
      BY <1>2, <1>3, <2>4 DEF Reading, Begins
    <3>2. wire[1][1] <= wire[n + 1][1]
      BY <1>3, <2>1 DEF Follows, Rises
    <3> QED
      BY <1>2, <2>2, <3>1, <3>2
  <2> QED
    BY <2>2, <2>3, <2>4
<1>5. CASE Divides(n)
  BY <1>1, <1>2, <1>4, <1>5
<1>6. CASE ~Divides(n)
  BY <1>1, <1>2, <1>6
<1> QED
  BY <1>5, <1>6

\* They change only when a message is handled.
LEMMA IntactSame ==
    ASSUME FramingInv, handled' = handled,
           Number <= cut => Number <= cut', Number > cut => cut' = cut, cut' \in Nat
    PROVE  Intact' = Intact
<1>1. Len(handled) \in Nat /\ cut \in Nat /\ Number = Len(handled) + 1
  BY DEF FramingInv, FramingTypeOK, Number
<1>2. CASE Number <= cut
  <2>1. Len(handled) < cut /\ Len(handled) < cut'
    BY <1>1, <1>2
  <2> QED
    BY <2>1 DEF Intact
<1>3. CASE Number > cut
  BY <1>3 DEF Intact
<1> QED
  BY <1>1, <1>2, <1>3

\* A payload that is handled is the one that the channel delivers, up to the first
\* message that was divided.
LEMMA PayloadIntact ==
    ASSUME FramingInv, TakesPayload
    PROVE  /\ Number < cut => /\ Len(Intact) + 1 <= Len(sent)
                              /\ Intact' = Append(Intact, Whole(Len(Intact) + 1, sent[Len(Intact) + 1]))
           /\ Number >= cut => Intact' = Intact
<1> USE DEF FramingInv
<1>1. PICK m : /\ handled' = Append(handled, m) /\ cut' = cut
               /\ m \in [header : HeaderBytes, payload : Seq(Byte)]
  BY PayloadIs DEF TakesPayload
<1>2. PICK S : handled \in Seq(S) /\ m \in S
  BY <1>1 DEF FramingTypeOK
<1>3. PICK l \in Nat : l = Len(handled) /\ Number = l + 1 /\ cut \in Nat /\ cut >= 1
  BY DEF FramingTypeOK, Number
<1>4. handled' \in Seq(S) /\ Len(handled') = l + 1 /\ \A k \in 1 .. l : handled'[k] = handled[k]
  BY <1>1, <1>2, <1>3
<1>5. ASSUME Number < cut
      PROVE  /\ Len(Intact) + 1 <= Len(sent)
             /\ Intact' = Append(Intact, Whole(Len(Intact) + 1, sent[Len(Intact) + 1]))
  <2>1. /\ Number \in 1 .. Len(sent)
        /\ handled' = Append(handled, Whole(Number, sent[Number]))
    BY <1>5, PayloadTaken
  <2>2. Intact = handled /\ Len(Intact) = l
    BY <1>3, <1>5, IntactIs
  <2>3. Intact' = handled'
    <3>1. Len(handled') < cut'
      BY <1>1, <1>3, <1>4, <1>5
    <3>2. Intact' = SubSeq(handled', 1, Len(handled'))
      BY <3>1 DEF Intact
    <3> QED
      BY <1>4, <3>2, SubSeqFull
  <2>4. l + 1 <= Len(sent)
    BY <1>3, <2>1, Typed
  <2> QED
    BY <1>3, <2>1, <2>2, <2>3, <2>4
<1>6. ASSUME Number >= cut
      PROVE  Intact' = Intact
  <2>1. cut - 1 \in 0 .. l /\ cut - 1 \in 0 .. l + 1
    BY <1>3, <1>6
  <2>2. Intact' = SubSeq(handled', 1, cut - 1)
    <3>1. ~(Len(handled') < cut')
      BY <1>1, <1>3, <1>4, <1>6
    <3> QED
      BY <1>1, <3>1 DEF Intact
  <2>3. Intact = SubSeq(handled, 1, cut - 1)
    <3>1. CASE l < cut
      <4>1. l = cut - 1
        BY <1>3, <1>6, <3>1
      <4> QED
        BY <1>3, <3>1, <4>1 DEF Intact
    <3>2. CASE ~(l < cut)
      BY <1>3, <3>2 DEF Intact
    <3> QED
      BY <3>1, <3>2
  <2>4. /\ SubSeq(handled, 1, cut - 1) \in Seq(S) /\ Len(SubSeq(handled, 1, cut - 1)) = cut - 1
        /\ \A k \in 1 .. cut - 1 : SubSeq(handled, 1, cut - 1)[k] = handled[k]
    BY <1>2, <1>3, <2>1, CutParts
  <2>5. /\ SubSeq(handled', 1, cut - 1) \in Seq(S) /\ Len(SubSeq(handled', 1, cut - 1)) = cut - 1
        /\ \A k \in 1 .. cut - 1 : SubSeq(handled', 1, cut - 1)[k] = handled'[k]
    BY <1>4, <2>1, CutParts
  <2>6. \A k \in 1 .. cut - 1 : handled'[k] = handled[k]
    BY <1>3, <1>4, <2>1
  <2>7. SubSeq(handled', 1, cut - 1) = SubSeq(handled, 1, cut - 1)
    BY <2>4, <2>5, <2>6, SeqEqual
  <2> QED
    BY <2>2, <2>3, <2>7
<1> QED
  BY <1>5, <1>6

\* the queue that the bytes under way and in the buffer stand for
Queued == QueueOf(sent, Len(Intact))

LEMMA ChannelSend ==
    ASSUME FramingInv, NEW length \in Lengths, SendMessage(length)
    PROVE  Abstract!Next
<1> USE DEF FramingInv
<1>1. /\ sent' = Append(sent, length) /\ handled' = handled /\ cut' = cut
      /\ Len(sent) < MaxSent /\ Len(sent) \in Nat /\ MaxSent \in Nat /\ cut \in Nat
      /\ sent \in Seq(Lengths)
  BY Typed DEF SendMessage, FramingTypeOK
<1>2. Intact' = Intact
  BY <1>1 DEF Intact
<1>3. Len(Intact) \in 0 .. Len(sent)
  BY IntactIs
<1>4. Queued' = Append(Queued, Whole(Len(sent) + 1, length))
  <2>1. Queued' = QueueOf(Append(sent, length), Len(Intact))
    BY <1>1, <1>2 DEF Queued
  <2>2. QueueOf(Append(sent, length), Len(Intact))
            = Append(QueueOf(sent, Len(Intact)), Whole(Len(sent) + 1, length))
    BY <1>1, <1>3, QueueSent
  <2> QED
    BY <2>1, <2>2 DEF Queued
<1>5. Whole(Len(sent) + 1, length) \in {Whole(i, l) : i \in 1 .. MaxSent, l \in Lengths}
  <2>1. Len(sent) + 1 \in 1 .. MaxSent
    BY <1>1
  <2> QED
    BY <2>1
<1>6. Abstract!Send(Whole(Len(sent) + 1, length))
  BY <1>2, <1>4 DEF Abstract!Send, Queued, QueueOf
<1> QED
  BY <1>5, <1>6 DEF Abstract!Next

LEMMA ChannelStutter ==
    ASSUME Intact' = Intact, sent' = sent
    PROVE  UNCHANGED Abstract!vars
BY DEF Abstract!vars

LEMMA ChannelStep ==
    ASSUME FramingInv, [FramingNext]_framing
    PROVE  Abstract!Next \/ UNCHANGED Abstract!vars
<1> USE DEF FramingInv
<1>1. ASSUME NEW length \in Lengths, SendMessage(length)
      PROVE  Abstract!Next
  BY <1>1, ChannelSend
<1>2. ASSUME handled' = handled, sent' = sent,
             Number <= cut => Number <= cut', Number > cut => cut' = cut
      PROVE  UNCHANGED Abstract!vars
  <2>1. cut' \in Nat
    BY TypeStep, Typed DEF FramingTypeOK
  <2>2. Intact' = Intact
    BY <1>2, <2>1, IntactSame
  <2> QED
    BY <1>2, <2>2, ChannelStutter
<1>3. ASSUME handled' = handled, sent' = sent, cut' = cut
      PROVE  UNCHANGED Abstract!vars
  BY <1>2, <1>3
<1>4. ASSUME NEW n \in 1 .. Len(wire), DataReceived(n)
      PROVE  UNCHANGED Abstract!vars
  BY <1>3, <1>4 DEF DataReceived
<1>5. ASSUME NEW n \in 1 .. Len(wire), RecvBytes(n)
      PROVE  UNCHANGED Abstract!vars
  <2>1. handled' = handled /\ sent' = sent
    BY <1>5 DEF RecvBytes
  <2>2. (Number <= cut => Number <= cut') /\ (Number > cut => cut' = cut)
    BY <1>5, RecvCut
  <2> QED
    BY <1>2, <2>1, <2>2
<1>6. CASE TakesHeader
  BY <1>3, <1>6 DEF TakesHeader
<1>7. CASE TakesPayload
  <2>1. sent' = sent /\ Number \in Nat /\ cut \in Nat /\ Len(Intact) \in Nat /\ sent \in Seq(Lengths)
    BY <1>7, IntactIs DEF TakesPayload, FramingTypeOK, Number
  <2>2. CASE Number < cut
    <3>1. /\ Len(Intact) + 1 <= Len(sent)
          /\ Intact' = Append(Intact, Whole(Len(Intact) + 1, sent[Len(Intact) + 1]))
      BY <1>7, <2>2, PayloadIntact
    <3>2. /\ Queued # << >> /\ Head(Queued) = Whole(Len(Intact) + 1, sent[Len(Intact) + 1])
          /\ Tail(Queued) = QueueOf(sent, Len(Intact) + 1)
      BY <2>1, <3>1, QueueDelivered DEF Queued
    <3>3. Len(Intact') = Len(Intact) + 1
      <4>1. handled \in Seq([header : HeaderBytes, payload : Seq(Byte)]) /\ Intact = handled
        BY <2>1, <2>2, IntactIs DEF FramingTypeOK
      <4> QED
        BY <3>1, <4>1
    <3>4. Queued' = Tail(Queued)
      BY <2>1, <3>2, <3>3 DEF Queued
    <3>5. Abstract!Deliver
      BY <3>1, <3>2, <3>4 DEF Abstract!Deliver, Queued, QueueOf
    <3> QED
      BY <3>5 DEF Abstract!Next
  <2>3. CASE Number >= cut
    BY <1>7, <2>1, <2>3, PayloadIntact, ChannelStutter
  <2> QED
    BY <2>1, <2>2, <2>3
<1>8. CASE Leaves
  BY <1>3, <1>8 DEF Leaves
<1>9. CASE RecvDone
  BY <1>3, <1>9 DEF RecvDone
<1>10. CASE UNCHANGED framing
  BY <1>3, <1>10 DEF framing
<1> QED
  BY <1>1, <1>4, <1>5, <1>6, <1>7, <1>8, <1>9, <1>10, Steps

LEMMA ChannelInit == FramingInit => Abstract!Init
<1> SUFFICES ASSUME FramingInit
             PROVE  Abstract!Init
  OBVIOUS
<1>1. handled = << >> /\ sent = << >> /\ Len(handled) = 0 /\ Len(sent) = 0 /\ cut \in Nat /\ cut >= 1
  BY FramingAssumption DEF FramingInit
<1>2. Intact = << >>
  BY <1>1, SubSeqEmpty DEF Intact
<1>3. Len(Intact) = 0 /\ 1 .. Len(sent) - Len(Intact) = {}
  BY <1>1, <1>2
<1> QED
  BY <1>2, <1>3 DEF Abstract!Init

\* However the bytes are cut, the connection is the channel: the handlers of the
\* controller get every message whole, once and in order (protocol.py, 47 to 92), and
\* those of the agent do up to the first that a recv() divides (agent.c, 540).
THEOREM FramingImplements == FramingSpec => ImplementsChannel
<1>1. FramingInv /\ [FramingNext]_framing => [Abstract!Next]_Abstract!vars
  BY ChannelStep
<1> QED
  BY <1>1, ChannelInit, FramingInvariant, PTL DEF FramingSpec, ImplementsChannel, Abstract!Spec
=============================================================================
