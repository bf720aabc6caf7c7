---------------------------- MODULE LearningNet ----------------------------
(***************************************************************************)
(* A network of switches that learn where the hosts are, each by itself    *)
(* (learningswitch.c) or with the controller (learningswitch_centralized.c *)
(* and simpleswitch.py), on the software switch.  The switches and their   *)
(* links are a tree, as in the mininet scripts.  Links are external; they  *)
(* and the connections to the controller lose nothing and keep the order.  *)
(* With the controller, the agent's thread sends PacketOuts through the    *)
(* same transmit rings as the dataplane's, without a lock: the module      *)
(* follows the runs in which the two are never in tx_frame for one port    *)
(* at a time (softswitch/main.c, 220), and says nothing of the others.     *)
(***************************************************************************)
EXTENDS Naturals, Sequences, FiniteSets

CONSTANTS
    Host, Switch, Port,
    At,         \* the switch and the port each host is attached to
    Links,      \* <<s, p, t, q>>: port p of s is wired to port q of t
    Toward,     \* the port of each switch behind which each host is
    Starts,     \* what the network runs, and which switches have it already
    Traffic,    \* <<h, dst>>: host h may send to dst, a host or BROADCAST
    BROADCAST, FLOOD, CONTROLLER, NONE,
    MaxFrames   \* bound of the model: frames sent by hosts in all

Wired(s, p) == \E t \in Switch, q \in Port : <<s, p, t, q>> \in Links

\* The wiring is symmetric and goes to one place; a host has a port of its own;
\* and a host is behind the one end of a link if it is not behind the other.
ASSUME LearningNetAssumption ==
    /\ Links \subseteq Switch \X Port \X Switch \X Port
    /\ \A s, t \in Switch, p, q \in Port :
          <<s, p, t, q>> \in Links => <<t, q, s, p>> \in Links
    /\ \A s, t, u \in Switch, p, q, r \in Port :
          <<s, p, t, q>> \in Links /\ <<s, p, u, r>> \in Links => t = u /\ q = r
    /\ At \in [Host -> Switch \X Port]
    /\ Toward \in [Switch -> [Host -> Port]]
    /\ \A h \in Host : /\ ~Wired(At[h][1], At[h][2])
                       /\ Toward[At[h][1]][h] = At[h][2]
    /\ \A g, h \in Host : Toward[At[h][1]][g] = At[h][2] => g = h
    /\ \A s, t \in Switch, p, q \in Port, h \in Host :
          <<s, p, t, q>> \in Links => (Toward[t][h] = q <=> Toward[s][h] # p)
    /\ Starts \subseteq {"learningswitch", "centralized"} \X SUBSET Switch
    /\ Traffic \subseteq Host \X (Host \cup {BROADCAST})
    /\ \A h \in Host : <<h, h>> \notin Traffic
    /\ BROADCAST \notin Host
    /\ NONE \notin Port /\ FLOOD \notin Port /\ CONTROLLER \notin Port
    /\ FLOOD # CONTROLLER
    /\ MaxFrames \in Nat

VARIABLES
    program,    \* what the network runs
    installed,  \* the switches that have it
    inports,    \* the table of each switch
    rx,         \* frames on the way to each port, with those in its rx_ring
    tx,         \* frames in each tx_ring that the kernel was not told of
    up, down,   \* messages between each switch and the controller
    mac_to_port,\* what the controller has learned of each switch
    sent,       \* history: the frames the hosts sent
    got,        \* history: the frames each host received
    promised,   \* history: which of them were for a host and sent when all
                \* switches had the program
    forgot      \* history: did a hello make the controller forget something?

switch == <<installed, inports, tx>>
history == <<sent, got, promised>>
vars == <<program, switch, rx, up, down, mac_to_port, history, forgot>>

Frame == [src : Host, dst : Host \cup {BROADCAST}, id : 1 .. MaxFrames]

Hello == [type |-> "HELLO"]
PacketIn(f, p) == [type |-> "PACKET_IN", frame |-> f, in_port |-> p]
Install == [type |-> "INSTALL"]
Insert(h, p) == [type |-> "INSERT", key |-> h, value |-> p]
PacketOut(f, p, out) == [type |-> "PACKET_OUT", frame |-> f, in_port |-> p, out_port |-> out]

Unknown == [s \in Switch |-> [h \in Host |-> NONE]]

\* To the others the CLI sends the program, or they have said hello.
Init ==
    /\ \E start \in Starts : program = start[1] /\ installed = start[2]
    /\ inports = Unknown
    /\ rx = [s \in Switch |-> [p \in Port |-> << >>]]
    /\ tx = [s \in Switch |-> [p \in Port |-> << >>]]
    /\ up = [s \in Switch |->
                IF program = "centralized" /\ s \notin installed THEN <<Hello>> ELSE << >>]
    /\ down = [s \in Switch |->
                IF program = "learningswitch" /\ s \notin installed THEN <<Install>> ELSE << >>]
    /\ mac_to_port = Unknown
    /\ sent = << >>
    /\ got = [h \in Host |-> << >>]
    /\ promised = {}
    /\ forgot = FALSE
-----------------------------------------------------------------------------
(* Hosts and links                                                         *)

Send(h, dst) ==
    /\ Len(sent) < MaxFrames
    /\ LET f == [src |-> h, dst |-> dst, id |-> Len(sent) + 1]
       IN /\ rx' = [rx EXCEPT ![At[h][1]][At[h][2]] = Append(@, f)]
          /\ sent' = Append(sent, f)
          /\ promised' = IF installed = Switch /\ dst # BROADCAST
                          THEN promised \cup {Len(sent) + 1} ELSE promised
    /\ UNCHANGED <<program, switch, up, down, mac_to_port, got, forgot>>

\* what arrives at port q of t when the frames out leave the ports of s
Arriving(s, out, t, q) ==
    IF \E p \in Port : <<s, p, t, q>> \in Links
    THEN out[CHOOSE p \in Port : <<s, p, t, q>> \in Links]
    ELSE << >>

\* mutant: a frame that was sent is left in its ring
LeaveKept(s, out, queues) ==
    /\ rx' = [t \in Switch |-> [q \in Port |-> queues[t][q] \o Arriving(s, out, t, q)]]
    /\ got' = [h \in Host |-> IF At[h][1] = s THEN got[h] \o out[At[h][2]] ELSE got[h]]
    /\ tx' = [tx EXCEPT ![s] = out]

\* all ports of s are told to send (softswitch, 346 to 348 and 456 to 458)
Leave(s, out, queues) ==
    /\ rx' = [t \in Switch |-> [q \in Port |-> queues[t][q] \o Arriving(s, out, t, q)]]
    /\ got' = [h \in Host |-> IF At[h][1] = s THEN got[h] \o out[At[h][2]] ELSE got[h]]
    /\ tx' = [tx EXCEPT ![s] = [p \in Port |-> << >>]]
-----------------------------------------------------------------------------
(* The switch (softswitch/main.c and the example programs)                 *)

\* mutant: the port a frame came in at is not left out
FloodedToAll(s, f, in_port) == [p \in Port |-> Append(tx[s][p], f)]

\* mutant: flooding ends at the port the frame came in at
FloodedBelow(s, f, in_port) ==
    [p \in Port |-> IF p < in_port THEN Append(tx[s][p], f) ELSE tx[s][p]]

\* transmit: case FLOOD
Flooded(s, f, in_port) ==
    [p \in Port |-> IF p # in_port THEN Append(tx[s][p], f) ELSE tx[s][p]]

\* transmit: the default case
Queued(s, f, port) == [tx[s] EXCEPT ![port] = Append(@, f)]

\* the table of s once the program has seen f
Learned(s, f, in_port) ==
    IF program = "learningswitch" THEN [inports[s] EXCEPT ![f.src] = in_port]
                                  ELSE inports[s]

\* what the program returns for f, given its table
Verdict(f, table) ==
    LET out_port == IF f.dst = BROADCAST THEN NONE ELSE table[f.dst]
    IN IF program = "learningswitch"
       THEN IF out_port = NONE THEN FLOOD ELSE out_port
       ELSE IF table[f.src] = NONE \/ out_port = NONE THEN CONTROLLER ELSE out_port

\* one frame in the loop of main: the program, transmit, and the send on all
\* ports at the end of the pass
Forward(s, p) ==
    /\ rx[s][p] # << >>
    /\ LET f == Head(rx[s][p])
           table == Learned(s, f, p)
           verdict == Verdict(f, table)
           queues == [rx EXCEPT ![s][p] = Tail(@)]
       IN IF s \in installed
          THEN /\ inports' = [inports EXCEPT ![s] = table]
               /\ IF verdict = CONTROLLER
                  THEN /\ up' = [up EXCEPT ![s] = Append(@, PacketIn(f, p))]
                       /\ Leave(s, tx[s], queues)
                  ELSE /\ Leave(s, IF verdict = FLOOD THEN Flooded(s, f, p)
                                                      ELSE Queued(s, f, verdict), queues)
                       /\ UNCHANGED up
          ELSE /\ Leave(s, tx[s], queues)
               /\ UNCHANGED <<inports, up>>
    /\ UNCHANGED <<program, installed, down, mac_to_port, sent, promised, forgot>>

\* recv_install
RecvInstall(s) ==
    /\ Head(down[s]).type = "INSTALL"
    /\ installed' = installed \cup {s}
    /\ UNCHANGED <<inports, rx, tx, got>>

\* recv_table_entry_insert_request
RecvInsert(s) ==
    /\ Head(down[s]).type = "INSERT"
    /\ inports' = [inports EXCEPT ![s][Head(down[s]).key] = Head(down[s]).value]
    /\ UNCHANGED <<installed, rx, tx, got>>

\* recv_packet_out, while the dataplane is not in tx_frame; the flags of transmit
\* are looked at only when flooding
RecvPacketOut(s) ==
    /\ Head(down[s]).type = "PACKET_OUT"
    /\ LET m == Head(down[s])
       IN IF m.out_port = FLOOD
          THEN Leave(s, Flooded(s, m.frame, m.in_port), rx)
          ELSE /\ tx' = [tx EXCEPT ![s] = Queued(s, m.frame, m.out_port)]
               /\ UNCHANGED <<rx, got>>
    /\ UNCHANGED <<installed, inports>>

\* the loop of agent_task, one message
Receive(s) ==
    /\ down[s] # << >>
    /\ RecvInstall(s) \/ RecvInsert(s) \/ RecvPacketOut(s)
    /\ down' = [down EXCEPT ![s] = Tail(@)]
    /\ UNCHANGED <<program, up, mac_to_port, sent, promised, forgot>>
-----------------------------------------------------------------------------
(* The controller (simpleswitch.py)                                        *)

\* hello: what was learned of all switches is forgotten
RecvHello(s) ==
    /\ Head(up[s]) = Hello
    /\ mac_to_port' = Unknown
    /\ forgot' = (forgot \/ mac_to_port # Unknown)
    /\ down' = [down EXCEPT ![s] = Append(@, Install)]

Reply(f, p, out) == <<Insert(f.src, p), PacketOut(f, p, out)>>

\* mutant: get(eth_dst) without a default
OutPortOrNone(table, dst) == IF dst = BROADCAST THEN FLOOD ELSE table[dst]

OutPort(table, dst) ==
    IF dst = BROADCAST \/ table[dst] = NONE THEN FLOOD ELSE table[dst]

\* packet_in
RecvPacketIn(s) ==
    /\ Head(up[s]).type = "PACKET_IN"
    /\ LET f == Head(up[s]).frame
           p == Head(up[s]).in_port
           table == [mac_to_port[s] EXCEPT ![f.src] = p]
       IN /\ mac_to_port' = [mac_to_port EXCEPT ![s] = table]
          /\ down' = [down EXCEPT ![s] = @ \o Reply(f, p, OutPort(table, f.dst))]
    /\ UNCHANGED forgot

Handle(s) ==
    /\ up[s] # << >>
    /\ RecvHello(s) \/ RecvPacketIn(s)
    /\ up' = [up EXCEPT ![s] = Tail(@)]
    /\ UNCHANGED <<program, switch, rx, history>>
-----------------------------------------------------------------------------
Sends == \E flow \in Traffic : Send(flow[1], flow[2])

Step ==
    \/ \E s \in Switch, p \in Port : Forward(s, p)
    \/ \E s \in Switch : Receive(s) \/ Handle(s)

Next == Sends \/ Step

Spec == Init /\ [][Next]_vars

\* As long as some thread has something to do, one that has does it.  That each
\* of them is scheduled would be more; that hosts send is nowhere assumed.
FairSpec == Spec /\ WF_vars(Step)
-----------------------------------------------------------------------------
(* Properties                                                              *)

UpMessage == {Hello} \cup {PacketIn(f, p) : f \in Frame, p \in Port}
DownMessage ==
    {Install} \cup {Insert(h, p) : h \in Host, p \in Port}
              \cup {PacketOut(f, p, out) : f \in Frame, p \in Port, out \in Port \cup {FLOOD}}

\* Every variable holds what the code can put there; a table holds ports.
TypeOK ==
    /\ program \in {"learningswitch", "centralized"}
    /\ installed \subseteq Switch
    /\ inports \in [Switch -> [Host -> Port \cup {NONE}]]
    /\ rx \in [Switch -> [Port -> Seq(Frame)]]
    /\ tx \in [Switch -> [Port -> Seq(Frame)]]
    /\ up \in [Switch -> Seq(UpMessage)]
    /\ down \in [Switch -> Seq(DownMessage)]
    /\ mac_to_port \in [Switch -> [Host -> Port \cup {NONE}]]
    /\ sent \in Seq(Frame)
    /\ got \in [Host -> Seq(Frame)]
    /\ promised \subseteq DOMAIN sent
    /\ forgot \in BOOLEAN

\* What is learned is right, on the switches and in the controller, and it is
\* so whatever the controller forgot and the switches did not: no frame comes
\* back to a switch in a way that makes it, or the controller, look for a host
\* where it is not.  The program has no check of its own against a frame that
\* comes from the wrong side (learningswitch.c, 18; simpleswitch.py, 27).
LearnedRight ==
    \A s \in Switch, h \in Host :
        /\ inports[s][h] \in {NONE, Toward[s][h]}
        /\ mac_to_port[s][h] \in {NONE, Toward[s][h]}

\* No host is given a frame twice, nor one of its own, unless the controller
\* forgot what switches still know: neither program looks whether the port it
\* returns is the one the frame came in at (learningswitch.c, 33).
OnceEach ==
    ~forgot => \A h \in Host :
        /\ \A i, j \in DOMAIN got[h] : got[h][i] = got[h][j] => i = j
        /\ \A i \in DOMAIN got[h] : got[h][i].src # h

Arrived(f) == f.dst \in Host /\ \E i \in DOMAIN got[f.dst] : got[f.dst][i] = f

\* With learningswitch.c, in the end every frame that was sent to a host when
\* all switches had the program has got there: what the switches learned from
\* other frames leads it into no dead end, and it does not go round for ever.
\* Not claimed with the controller: PacketOuts and the dataplane fill one ring,
\* where they may overwrite each other's frame or leave a gap
\* (softswitch/main.c, 220 to 254).
Arrives ==
    <>[](program = "learningswitch" => \A n \in promised : Arrived(sent[n]))
=============================================================================
