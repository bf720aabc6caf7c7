------------------------------ MODULE Session ------------------------------
(***************************************************************************)
(* The sessions between the switches and the controller: the agent's       *)
(* connect, hello and receive loop (agent_task), the packets that the      *)
(* dataplane's thread sends on the same socket (agent_packetin), and the   *)
(* controller's registry of connections, which its event handlers keep.    *)
(* The controller runs simpleswitch.py.                                    *)
(*                                                                         *)
(* TCP is external.  It delivers the messages of a connection in order; a  *)
(* path may die without either end being told, and each end then finds out *)
(* by itself, at any time or never.  It is sure to find out only if it has *)
(* sent what nobody acknowledges: neither end sets a timeout or keepalive. *)
(* Messages are whole, and an INSTALL loads: Framing models how they are   *)
(* cut, and Ubpf the installs that fail.                                   *)
(***************************************************************************)
EXTENDS Naturals, Sequences, FiniteSets

CONSTANTS
    Switch,
    Dpid,       \* the datapath ids
    DpidOf,     \* the datapath id each switch was started with
    NULL,
    MaxFds,     \* external: the descriptors a process gets for its connections
    MaxConn,    \* bound of the model: connections made in all
    MaxFails,   \* bound of the model: crashes, broken paths and failed
                \* connects in all
    MaxPackets  \* bound of the model: packets sent to the controller in all

Conn == 1 .. MaxConn

ASSUME SessionAssumption ==
    /\ DpidOf \in [Switch -> Dpid]
    /\ NULL \notin Conn \cup Dpid \cup Switch
    /\ MaxFds \in Nat
    /\ MaxConn \in Nat
    /\ MaxFails \in Nat
    /\ MaxPackets \in Nat

VARIABLES
    pc,         \* where each agent is in agent_task; "off" if there is none
    fd,         \* the connection behind each agent.fd, or NULL
    leaked,     \* the descriptors of failed connects, which nobody closes
    installed,  \* has each switch a program? (ubpf_fn # NULL)
    up, down,   \* external: the messages under way on each connection
    dead,       \* external: the connections whose path is broken
    unacked,    \* external: those of them on which the switch's kernel sends
                \* again and again what nobody acknowledges
    owner,      \* history: the switch that made each connection, or NULL
    open,       \* the connections the controller has not lost
    dpid,       \* the attribute dpid of each connection, or NULL if unset
    connections,\* the registry: the connection of each datapath id, or NULL
    overlapped, \* history: connections open beside another of their switch
    packets,    \* how many packets went to the controller
    fails       \* how many crashes, broken paths and failed connects

agent == <<pc, fd, leaked, installed>>
tcp == <<up, down, dead, unacked, owner>>
controller == <<open, dpid, connections>>
bounds == <<overlapped, packets, fails>>
vars == <<agent, tcp, controller, bounds>>

Init ==
    /\ pc = [s \in Switch |-> "connect"]
    /\ fd = [s \in Switch |-> NULL]
    /\ leaked = [s \in Switch |-> 0]
    /\ installed = [s \in Switch |-> FALSE]
    /\ up = [c \in Conn |-> << >>]
    /\ down = [c \in Conn |-> << >>]
    /\ dead = {}
    /\ unacked = {}
    /\ owner = [c \in Conn |-> NULL]
    /\ open = {}
    /\ dpid = [c \in Conn |-> NULL]
    /\ connections = [d \in Dpid |-> NULL]
    /\ overlapped = {}
    /\ packets = 0
    /\ fails = 0

Goto(s, l) == pc' = [pc EXCEPT ![s] = l]
Unused == {c \in Conn : owner[c] = NULL}
OfSwitch(s) == {c \in Conn : owner[c] = s}
-----------------------------------------------------------------------------
(* The agent's thread: agent_task                                          *)

\* socket() has a descriptor, connect() returns 0, and the controller has the
\* connection to accept
Connect(s) ==
    /\ pc[s] = "connect"
    /\ leaked[s] < MaxFds
    /\ \E c \in Unused :
          /\ \A x \in Unused : c <= x
          /\ fd' = [fd EXCEPT ![s] = c]
          /\ owner' = [owner EXCEPT ![c] = s]
          /\ open' = open \cup {c}
          /\ overlapped' = LET others == OfSwitch(s) \cap open
                           IN IF others = {} THEN overlapped
                              ELSE overlapped \cup others \cup {c}
    /\ Goto(s, "hello")
    /\ UNCHANGED <<leaked, installed, up, down, dead, unacked, dpid, connections, packets, fails>>

Fail == fails < MaxFails /\ fails' = fails + 1

\* mutant: a connect() that failed is taken to have worked
ConnectUnchecked(s) ==
    /\ Fail
    /\ pc[s] = "connect"
    /\ leaked[s] < MaxFds
    /\ fd' = [fd EXCEPT ![s] = 0]
    /\ Goto(s, "hello")
    /\ UNCHANGED <<leaked, installed, tcp, controller, overlapped, packets>>

\* connect() fails: close() is only behind a connection that was made, so that
\* the next try takes another descriptor.  Once there is none left, socket()
\* fails for ever, and the loop does nothing but wait (agent.c, 519 and 569).
ConnectFail(s) ==
    /\ Fail
    /\ pc[s] = "connect"
    /\ leaked[s] < MaxFds
    /\ leaked' = [leaked EXCEPT ![s] = @ + 1]
    /\ UNCHANGED <<pc, fd, installed, tcp, controller, overlapped, packets>>

Send(s, m) ==
    /\ up' = [up EXCEPT ![fd[s]] = Append(@, m)]
    /\ unacked' = unacked \cup ({fd[s]} \cap dead)

SendHello(s) ==
    /\ pc[s] = "hello"
    /\ Send(s, "HELLO")
    /\ Goto(s, "recv")
    /\ UNCHANGED <<fd, leaked, installed, down, dead, owner, controller, bounds>>

\* recv() returns a message, and its handler runs
Recv(s) ==
    /\ pc[s] = "recv"
    /\ fd[s] \notin dead
    /\ down[fd[s]] # << >>
    /\ down' = [down EXCEPT ![fd[s]] = Tail(@)]
    /\ LET m == Head(down[fd[s]])
       IN /\ installed' = IF m = "INSTALL" THEN [installed EXCEPT ![s] = TRUE] ELSE installed
          /\ IF m = "INSERT" THEN Send(s, "INSERT_REPLY") ELSE UNCHANGED <<up, unacked>>
    /\ UNCHANGED <<pc, fd, leaked, dead, owner, controller, bounds>>

\* recv() returns 0 or -1: the controller closed, or the path is dead
RecvEnd(s) ==
    /\ pc[s] = "recv"
    /\ fd[s] \notin open \/ fd[s] \in dead
    /\ Goto(s, "close")
    /\ UNCHANGED <<fd, leaked, installed, tcp, controller, bounds>>

\* close(), sleep(5), and again
Close(s) ==
    /\ pc[s] = "close"
    /\ Send(s, "FIN")
    /\ fd' = [fd EXCEPT ![s] = NULL]
    /\ Goto(s, "connect")
    /\ UNCHANGED <<leaked, installed, down, dead, owner, controller, bounds>>
-----------------------------------------------------------------------------
(* The dataplane's thread: the program returns CONTROLLER                  *)

\* agent_packetin: send() on agent.fd, whatever the agent's thread is doing.
\* Without a connection behind it the packet is lost; a descriptor that is
\* closed and taken again between load and send() leads to the new connection,
\* before or after its hello.
PacketIn(s) ==
    /\ installed[s]
    /\ packets < MaxPackets
    /\ packets' = packets + 1
    /\ IF fd[s] = NULL THEN UNCHANGED <<up, unacked>> ELSE Send(s, "PACKET_IN")
    /\ UNCHANGED <<agent, down, dead, owner, controller, overlapped, fails>>
-----------------------------------------------------------------------------
(* The controller: one event at a time (application.py, simpleswitch.py)   *)

\* mutant: the entry of a lost connection is not deleted
WithoutNone(c) == connections

\* connection_closed: del connections[connection.dpid].  It raises, and
\* changes nothing, when there is no such attribute or no such entry.
Without(c) ==
    IF dpid[c] # NULL THEN [connections EXCEPT ![dpid[c]] = NULL] ELSE connections

Lose(c) ==
    /\ open' = open \ {c}
    /\ connections' = Without(c)
    /\ UNCHANGED dpid

Readable(c) == c \in open \ dead /\ up[c] # << >>

\* mutant: the entry of a switch is only made when there is none, and an
\* entry that is there is taken to mean that the program is installed
ReceiveHelloOnce(c) ==
    /\ Readable(c) /\ Head(up[c]) = "HELLO"
    /\ LET d == DpidOf[owner[c]]
       IN /\ dpid' = [dpid EXCEPT ![c] = d]
          /\ connections' = IF connections[d] = NULL THEN [connections EXCEPT ![d] = c]
                            ELSE connections
          /\ down' = [down EXCEPT ![c] = IF connections[d] = NULL
                                         THEN @ \o <<"HELLO", "INSTALL">>
                                         ELSE Append(@, "HELLO")]
    /\ up' = [up EXCEPT ![c] = Tail(@)]
    /\ UNCHANGED <<agent, dead, unacked, owner, open, bounds>>

\* mutant: the connection is not entered in the registry
ReceiveHelloUnregistered(c) ==
    /\ Readable(c) /\ Head(up[c]) = "HELLO"
    /\ dpid' = [dpid EXCEPT ![c] = DpidOf[owner[c]]]
    /\ down' = [down EXCEPT ![c] = @ \o <<"HELLO", "INSTALL">>]
    /\ up' = [up EXCEPT ![c] = Tail(@)]
    /\ UNCHANGED <<agent, dead, unacked, owner, open, connections, bounds>>

\* hello_request, then the application's hello
ReceiveHello(c) ==
    /\ Readable(c) /\ Head(up[c]) = "HELLO"
    /\ LET d == DpidOf[owner[c]]
       IN /\ dpid' = [dpid EXCEPT ![c] = d]
          /\ connections' = [connections EXCEPT ![d] = c]
    /\ down' = [down EXCEPT ![c] = @ \o <<"HELLO", "INSTALL">>]
    /\ up' = [up EXCEPT ![c] = Tail(@)]
    /\ UNCHANGED <<agent, dead, unacked, owner, open, bounds>>

\* packet_in: the entry for the source, unless it is a multicast address,
\* and the packet itself
ReceivePacketIn(c) ==
    /\ Readable(c) /\ Head(up[c]) = "PACKET_IN"
    /\ dpid[c] # NULL
    /\ \E answer \in {<<"INSERT", "PACKET_OUT">>, <<"PACKET_OUT">>} :
          down' = [down EXCEPT ![c] = @ \o answer]
    /\ up' = [up EXCEPT ![c] = Tail(@)]
    /\ UNCHANGED <<agent, dead, unacked, owner, controller, bounds>>

\* packet_in before the hello: connection.dpid raises AttributeError, and
\* Twisted drops a connection whose dataReceived raises
ReceivePacketInEarly(c) ==
    /\ Readable(c) /\ Head(up[c]) = "PACKET_IN"
    /\ dpid[c] = NULL
    /\ Lose(c)
    /\ up' = [up EXCEPT ![c] = Tail(@)]
    /\ UNCHANGED <<agent, down, dead, unacked, owner, bounds>>

\* simpleswitch.py has no handler for the reply
ReceiveReply(c) ==
    /\ Readable(c) /\ Head(up[c]) = "INSERT_REPLY"
    /\ up' = [up EXCEPT ![c] = Tail(@)]
    /\ UNCHANGED <<agent, down, dead, unacked, owner, controller, bounds>>

\* connectionLost: the switch closed its end, or the path is found dead
ConnectionLost(c) ==
    /\ c \in open
    /\ c \in dead \/ (up[c] # << >> /\ Head(up[c]) = "FIN")
    /\ Lose(c)
    /\ UNCHANGED <<agent, tcp, bounds>>
-----------------------------------------------------------------------------
(* What goes wrong                                                         *)

\* the path of a connection dies that either end has open, and what the switch
\* sent last may not have been acknowledged
Break(c) ==
    /\ Fail
    /\ c \in open \cup {fd[s] : s \in Switch}
    /\ c \notin dead
    /\ dead' = dead \cup {c}
    /\ unacked' \in {unacked, unacked \cup {c}}
    /\ UNCHANGED <<agent, up, down, owner, controller, overlapped, packets>>

\* the switch's process is killed, and its kernel closes the connection; or
\* its machine goes down, and the controller is not told
Crash(s) ==
    /\ Fail
    /\ pc[s] # "off"
    /\ Goto(s, "off")
    /\ fd' = [fd EXCEPT ![s] = NULL]
    /\ leaked' = [leaked EXCEPT ![s] = 0]
    /\ installed' = [installed EXCEPT ![s] = FALSE]
    /\ IF fd[s] = NULL THEN UNCHANGED <<up, dead, unacked>>
       ELSE \/ Send(s, "FIN") /\ UNCHANGED dead
            \/ dead' = dead \cup {fd[s]} /\ UNCHANGED <<up, unacked>>
    /\ UNCHANGED <<down, owner, controller, overlapped, packets>>

Restart(s) ==
    /\ pc[s] = "off"
    /\ Goto(s, "connect")
    /\ UNCHANGED <<fd, leaked, installed, tcp, controller, bounds>>

\* the controller is restarted, with an empty registry
ControllerRestart ==
    /\ Fail
    /\ open # {}
    /\ open' = {}
    /\ dpid' = [c \in Conn |-> NULL]
    /\ connections' = [d \in Dpid |-> NULL]
    /\ UNCHANGED <<agent, tcp, overlapped, packets>>

Agent(s) == Connect(s) \/ SendHello(s) \/ Recv(s) \/ RecvEnd(s) \/ Close(s)

RunHandlers(c) ==
    ReceiveHello(c) \/ ReceivePacketIn(c) \/ ReceivePacketInEarly(c) \/ ReceiveReply(c)

Next ==
    \/ \E s \in Switch : \/ Agent(s) \/ PacketIn(s)
                         \/ ConnectFail(s) \/ Crash(s) \/ Restart(s)
    \/ \E c \in Conn : RunHandlers(c) \/ ConnectionLost(c) \/ Break(c)
    \/ ControllerRestart

Spec == Init /\ [][Next]_vars

\* the end of its connection reaches an agent, or TCP gives up sending again
Told(s) == fd[s] \in unacked \/ fd[s] \notin open \cup dead

\* The agent's thread and the reactor are scheduled, and a switch that crashed
\* is started again.  That recv() returns is assumed only where something makes
\* it return, and nowhere that the controller notices a loss.
FairSpec ==
    /\ Spec
    /\ \A s \in Switch :
          /\ WF_vars(Connect(s) \/ SendHello(s) \/ Recv(s) \/ Close(s))
          /\ WF_vars(Told(s) /\ RecvEnd(s))
          /\ WF_vars(Restart(s))
    /\ \A c \in Conn : WF_vars(RunHandlers(c))
-----------------------------------------------------------------------------
(* Properties                                                              *)

Message == {"HELLO", "INSTALL", "PACKET_IN", "PACKET_OUT", "INSERT", "INSERT_REPLY", "FIN"}

\* Every variable holds what its type and its use allow.
TypeOK ==
    /\ pc \in [Switch -> {"off", "connect", "hello", "recv", "close"}]
    /\ fd \in [Switch -> Conn \cup {NULL}]
    /\ leaked \in [Switch -> 0 .. MaxFds]
    /\ installed \in [Switch -> BOOLEAN]
    /\ up \in [Conn -> Seq(Message)]
    /\ down \in [Conn -> Seq(Message)]
    /\ dead \subseteq Conn
    /\ unacked \subseteq dead
    /\ owner \in [Conn -> Switch \cup {NULL}]
    /\ open \subseteq Conn
    /\ dpid \in [Conn -> Dpid \cup {NULL}]
    /\ connections \in [Dpid -> Conn \cup {NULL}]
    /\ overlapped \subseteq Conn
    /\ packets \in 0 .. MaxPackets
    /\ fails \in 0 .. MaxFails

\* The registry never leads a command to a connection that is lost, nor to
\* one that is another switch's (application.py, 14 to 25).
RegistrySound ==
    \A d \in Dpid : connections[d] # NULL =>
        connections[d] \in open /\ dpid[connections[d]] = d

\* the controller has had the hello of s on the connection s is using
Greeted(s) ==
    /\ pc[s] = "recv"
    /\ fd[s] \in open \ dead
    /\ dpid[fd[s]] = DpidOf[s]

\* A switch whose hello was handled is in the registry, with the connection
\* it is using ("Switch with dpid {} is not connected.", cli.py, 119).
GreetedRegistered == \A s \in Switch : Greeted(s) => connections[DpidOf[s]] = fd[s]

\* It is there at least if its connection was never open beside another one
\* that the same switch made.
RegisteredUnlessOverlap ==
    \A s \in Switch :
        Greeted(s) /\ fd[s] \notin overlapped => connections[DpidOf[s]] = fd[s]

\* recv() without a timeout, on a path that is dead and has taken all it was
\* given (agent.c, 533)
Deaf(s) == pc[s] = "recv" /\ fd[s] \in dead \ unacked

\* socket() has no descriptor left (agent.c, 519)
Exhausted(s) == pc[s] = "connect" /\ leaked[s] = MaxFds

\* However often switches, paths, connects and the controller fail: once they
\* stop failing, a switch has a program for ever, or its agent is stuck in one of
\* the two ways that the code has no escape from.  The hello of each connection
\* makes the controller install the program anew, whatever the registry holds.
ProgrammedUnlessStuck ==
    \A s \in Switch : <>[](installed[s] \/ Deaf(s) \/ Exhausted(s))
=============================================================================
