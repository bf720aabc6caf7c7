------------------------- MODULE LearningNetProofs -------------------------
(***************************************************************************)
(* Proofs about LearningNet for any tree of switches, any hosts and any    *)
(* traffic: no switch, nor the controller for it, ever takes a host to be  *)
(* behind another port than the one it is behind; and no host gets a frame *)
(* twice, or its own, as long as the controller forgets nothing.           *)
(***************************************************************************)
EXTENDS LearningNet, TLAPS

-----------------------------------------------------------------------------
(* Sequences                                                               *)

In(x, seq) == \E i \in 1 .. Len(seq) : seq[i] = x

\* What is in a sequence one longer, one shorter, or in two together.
LEMMA InAppend ==
    ASSUME NEW S, NEW seq \in Seq(S), NEW y \in S, NEW x
    PROVE  /\ Append(seq, y) \in Seq(S)
           /\ In(x, Append(seq, y)) => In(x, seq) \/ x = y
BY DEF In

LEMMA InTail ==
    ASSUME NEW S, NEW seq \in Seq(S), seq # << >>, NEW x
    PROVE  /\ Tail(seq) \in Seq(S)
           /\ Head(seq) \in S
           /\ In(Head(seq), seq)
           /\ In(x, Tail(seq)) => In(x, seq)
<1>1. Len(seq) \in Nat /\ Len(seq) >= 1 /\ Head(seq) = seq[1]
  OBVIOUS
<1>2. Tail(seq) \in Seq(S) /\ Len(Tail(seq)) = Len(seq) - 1
  OBVIOUS
<1>3. \A i \in 1 .. Len(seq) - 1 : Tail(seq)[i] = seq[i + 1]
  OBVIOUS
<1>4. In(x, Tail(seq)) => In(x, seq)
  <2> SUFFICES ASSUME NEW i \in 1 .. Len(seq) - 1, Tail(seq)[i] = x
               PROVE  In(x, seq)
    BY <1>2 DEF In
  <2>1. i + 1 \in 1 .. Len(seq) /\ seq[i + 1] = x
    BY <1>1, <1>3
  <2> QED
    BY <2>1 DEF In
<1> QED
  BY <1>1, <1>2, <1>4 DEF In

LEMMA InConcat ==
    ASSUME NEW S, NEW seq \in Seq(S), NEW more \in Seq(S), NEW x
    PROVE  /\ seq \o more \in Seq(S)
           /\ Len(seq \o more) = Len(seq) + Len(more)
           /\ \A i \in 1 .. Len(seq) : (seq \o more)[i] = seq[i]
           /\ \A i \in 1 .. Len(more) : (seq \o more)[Len(seq) + i] = more[i]
           /\ In(x, seq \o more) => In(x, seq) \/ In(x, more)
<1>1. /\ seq \o more \in Seq(S)
      /\ Len(seq) \in Nat /\ Len(more) \in Nat
      /\ Len(seq \o more) = Len(seq) + Len(more)
  OBVIOUS
<1>2. \A i \in 1 .. Len(seq) : (seq \o more)[i] = seq[i]
  OBVIOUS
<1>3. \A i \in 1 .. Len(more) : (seq \o more)[Len(seq) + i] = more[i]
  OBVIOUS
<1>4. ASSUME NEW i \in 1 .. Len(seq) + Len(more), (seq \o more)[i] = x
      PROVE  In(x, seq) \/ In(x, more)
  <2>1. CASE i <= Len(seq)
    BY <1>1, <1>2, <1>4, <2>1 DEF In
  <2>2. CASE i > Len(seq)
    <3>1. i - Len(seq) \in 1 .. Len(more) /\ i = Len(seq) + (i - Len(seq))
      BY <1>1, <2>2
    <3>2. more[i - Len(seq)] = x
      BY <1>3, <1>4, <3>1
    <3> QED
      BY <3>1, <3>2 DEF In
  <2> QED
    BY <1>1, <2>1, <2>2
<1> QED
  BY <1>1, <1>2, <1>3, <1>4 DEF In
-----------------------------------------------------------------------------
(* The invariant                                                           *)

Knows(s, h) == inports[s][h] # NONE

\* the switch behind port p of s, if there is one, knows where h is
Behind(s, p, h) == \A t \in Switch, q \in Port : <<s, p, t, q>> \in Links => Knows(t, h)

\* A frame that arrives comes from where its source is, or, when the controller
\* forgot and a switch sent it back, the switch need not ask for either end.
Fitting(t, q, f) ==
    \/ Toward[t][f.src] = q
    \/ program = "centralized" /\ f.dst \in Host /\ Knows(t, f.src) /\ Knows(t, f.dst)

\* A frame that leaves is from a host that the switch knows.
Leaving(s, p, f) ==
    /\ Knows(s, f.src)
    /\ \A t \in Switch, q \in Port : <<s, p, t, q>> \in Links => Fitting(t, q, f)

RxOK ==
    \A t \in Switch, q \in Port, f \in Frame :
        In(f, rx[t][q]) => f.src # f.dst /\ Behind(t, q, f.src) /\ Fitting(t, q, f)

TxOK ==
    \A s \in Switch, p \in Port, f \in Frame :
        In(f, tx[s][p]) => /\ program = "centralized"
                           /\ f.src # f.dst /\ Leaving(s, p, f)

UpOK ==
    \A s \in Switch, m \in UpMessage :
        In(m, up[s]) =>
            /\ program = "centralized"
            /\ m.type = "PACKET_IN" => /\ m.frame.src # m.frame.dst
                                       /\ Toward[s][m.frame.src] = m.in_port
                                       /\ Behind(s, m.in_port, m.frame.src)

\* What an entry that is to be inserted says is right, and the switch there
\* knows the host.
InsertOK(s, m) ==
    /\ program = "centralized"
    /\ Toward[s][m.key] = m.value
    /\ Behind(s, m.value, m.key)

\* A frame comes after the entry for its source.
PacketOutOK(s, k, m) ==
    /\ program = "centralized"
    /\ m.frame.src # m.frame.dst
    /\ Toward[s][m.frame.src] = m.in_port
    /\ Behind(s, m.in_port, m.frame.src)
    /\ \/ Knows(s, m.frame.src)
       \/ \E j \in 1 .. k - 1 : down[s][j].type = "INSERT" /\ down[s][j].key = m.frame.src
    /\ m.out_port # FLOOD => /\ m.frame.dst \in Host
                             /\ Toward[s][m.frame.dst] = m.out_port
                             /\ Behind(s, m.out_port, m.frame.dst)

DownOK ==
    \A s \in Switch : \A k \in 1 .. Len(down[s]) :
        /\ down[s][k].type = "INSERT" => InsertOK(s, down[s][k])
        /\ down[s][k].type = "PACKET_OUT" => PacketOutOK(s, k, down[s][k])

\* Who knows a host behind a link has it from the switch at its other end.
FromNeighbour ==
    \A s \in Switch, h \in Host :
        Knows(s, h) \/ mac_to_port[s][h] # NONE => Behind(s, Toward[s][h], h)

\* Where the switches learn by themselves: a frame that is flooded although its
\* destination is where it comes from is ahead of what tells the next switch so.
Ahead ==
    program = "learningswitch" =>
        \A t \in Switch, q \in Port : \A k \in 1 .. Len(rx[t][q]) :
            rx[t][q][k].dst \in Host /\ Toward[t][rx[t][q][k].dst] = q =>
                /\ ~Knows(t, rx[t][q][k].dst)
                /\ \A j \in 1 .. k - 1 : rx[t][q][j].src # rx[t][q][k].dst

Inv == TypeOK /\ LearnedRight /\ FromNeighbour /\ RxOK /\ TxOK /\ UpOK /\ DownOK /\ Ahead

\* Ahead is about the links and the tables.
LEMMA AheadStays ==
    ASSUME Ahead, UNCHANGED program, UNCHANGED inports, UNCHANGED rx
    PROVE  Ahead'
BY Zenon DEF Ahead, Knows
-----------------------------------------------------------------------------
(* Messages and frames                                                     *)

LEMMA UpTypes ==
    ASSUME NEW m \in UpMessage
    PROVE  \/ m = Hello /\ m.type = "HELLO"
           \/ /\ m.type = "PACKET_IN" /\ m.frame \in Frame /\ m.in_port \in Port
              /\ m = PacketIn(m.frame, m.in_port)
BY DEF UpMessage, Hello, PacketIn

LEMMA DownTypes ==
    ASSUME NEW m \in DownMessage
    PROVE  \/ m = Install /\ m.type = "INSTALL"
           \/ m.type = "INSERT" /\ m.key \in Host /\ m.value \in Port
           \/ /\ m.type = "PACKET_OUT" /\ m.frame \in Frame /\ m.in_port \in Port
              /\ m.out_port \in Port \cup {FLOOD}
BY DEF DownMessage, Install, Insert, PacketOut

LEMMA MessagesMade ==
    ASSUME NEW f \in Frame, NEW h \in Host, NEW p \in Port, NEW out \in Port \cup {FLOOD}
    PROVE  /\ Hello \in UpMessage /\ PacketIn(f, p) \in UpMessage
           /\ Install \in DownMessage /\ Insert(h, p) \in DownMessage
           /\ PacketOut(f, p, out) \in DownMessage
BY DEF UpMessage, DownMessage

LEMMA FrameType ==
    ASSUME NEW f \in Frame
    PROVE  f.src \in Host /\ f.dst \in Host \cup {BROADCAST}
BY DEF Frame

\* A frame that goes on through a port that its source is not behind comes, at
\* the other end, from where its source is.
LEMMA Onward ==
    ASSUME NEW s \in Switch, NEW p \in Port, NEW f \in Frame,
           Toward[s][f.src] # p,
           NEW t \in Switch, NEW q \in Port, <<s, p, t, q>> \in Links
    PROVE  Toward[t][f.src] = q
BY FrameType, LearningNetAssumption

\* A frame that goes to where its destination is known to be arrives as it
\* should, even where its source is there, too.
LEMMA BackOrOnward ==
    ASSUME program = "centralized",
           NEW s \in Switch, NEW f \in Frame, f.dst \in Host,
           Behind(s, Toward[s][f.src], f.src),
           Behind(s, Toward[s][f.dst], f.dst),
           NEW t \in Switch, NEW q \in Port, <<s, Toward[s][f.dst], t, q>> \in Links
    PROVE  Fitting(t, q, f)
<1>1. f.src \in Host /\ Toward[s][f.dst] \in Port
  BY FrameType, LearningNetAssumption
<1>2. CASE Toward[s][f.src] = Toward[s][f.dst]
  BY <1>1, <1>2 DEF Fitting, Behind
<1>3. CASE Toward[s][f.src] # Toward[s][f.dst]
  BY <1>1, <1>3, Onward DEF Fitting
<1> QED
  BY <1>2, <1>3
-----------------------------------------------------------------------------
(* What steps keep                                                         *)

\* No switch forgets a host.
Remembers ==
    /\ program' = program
    /\ \A s \in Switch, h \in Host : Knows(s, h) => Knows(s, h)'

LEMMA Monotone ==
    ASSUME Remembers
    PROVE  /\ \A s \in Switch, p \in Port, h \in Host : Behind(s, p, h) => Behind(s, p, h)'
           /\ \A t \in Switch, q \in Port, f \in Frame : Fitting(t, q, f) => Fitting(t, q, f)'
           /\ \A s \in Switch, p \in Port, f \in Frame : Leaving(s, p, f) => Leaving(s, p, f)'
<1>1. \A s \in Switch, p \in Port, h \in Host : Behind(s, p, h) => Behind(s, p, h)'
  BY DEF Remembers, Behind
<1>2. \A t \in Switch, q \in Port, f \in Frame : Fitting(t, q, f) => Fitting(t, q, f)'
  BY FrameType DEF Remembers, Fitting
<1>3. \A s \in Switch, p \in Port, f \in Frame : Leaving(s, p, f) => Leaving(s, p, f)'
  BY <1>2, FrameType DEF Remembers, Leaving
<1> QED
  BY <1>1, <1>2, <1>3

\* What arrives came from the other end of the link.
LEMMA ArrivingFrom ==
    ASSUME NEW s \in Switch, NEW out \in [Port -> Seq(Frame)],
           NEW t \in Switch, NEW q \in Port
    PROVE  /\ Arriving(s, out, t, q) \in Seq(Frame)
           /\ \/ Arriving(s, out, t, q) = << >>
              \/ \E p \in Port : <<s, p, t, q>> \in Links /\ Arriving(s, out, t, q) = out[p]
<1>1. CASE \E r \in Port : <<s, r, t, q>> \in Links
  <2>1. PICK p \in Port : <<s, p, t, q>> \in Links /\ Arriving(s, out, t, q) = out[p]
    BY <1>1 DEF Arriving
  <2>2. out[p] \in Seq(Frame)
    OBVIOUS
  <2> QED
    BY <2>1, <2>2
<1>2. CASE ~\E r \in Port : <<s, r, t, q>> \in Links
  BY <1>2 DEF Arriving
<1> QED
  BY <1>1, <1>2

\* Frames that leave a switch as they may arrive as they should.
LEMMA LeaveKeeps ==
    ASSUME TypeOK, TxOK, Remembers, NEW s \in Switch,
           NEW out \in [Port -> Seq(Frame)],
           NEW queues \in [Switch -> [Port -> Seq(Frame)]],
           Leave(s, out, queues),
           \A t \in Switch, q \in Port, f \in Frame :
               In(f, queues[t][q]) =>
                   f.src # f.dst /\ Behind(t, q, f.src)' /\ Fitting(t, q, f)',
           \A p \in Port, f \in Frame :
               In(f, out[p]) => f.src # f.dst /\ Leaving(s, p, f)'
    PROVE  /\ rx' \in [Switch -> [Port -> Seq(Frame)]]
           /\ tx' \in [Switch -> [Port -> Seq(Frame)]]
           /\ got' \in [Host -> Seq(Frame)]
           /\ RxOK' /\ TxOK'
<1>1. /\ tx \in [Switch -> [Port -> Seq(Frame)]]
      /\ got \in [Host -> Seq(Frame)]
  BY DEF TypeOK
<1>2. ASSUME NEW t \in Switch, NEW q \in Port
      PROVE  rx'[t][q] = queues[t][q] \o Arriving(s, out, t, q)
  BY DEF Leave
<1>3. rx' \in [Switch -> [Port -> Seq(Frame)]]
  <2>1. ASSUME NEW t \in Switch, NEW q \in Port
        PROVE  queues[t][q] \o Arriving(s, out, t, q) \in Seq(Frame)
    <3>1. Arriving(s, out, t, q) \in Seq(Frame) /\ queues[t][q] \in Seq(Frame)
      BY ArrivingFrom
    <3> QED
      BY <3>1, InConcat
  <2> QED
    BY <2>1 DEF Leave
<1>4. tx' \in [Switch -> [Port -> Seq(Frame)]] /\ TxOK'
  <2>1. \A p \in Port : tx'[s][p] = << >>
    BY <1>1 DEF Leave
  <2>2. \A t \in Switch : t # s => tx'[t] = tx[t]
    BY <1>1 DEF Leave
  <2>3. tx' \in [Switch -> [Port -> Seq(Frame)]]
    BY <1>1 DEF Leave
  <2>4. ASSUME NEW t \in Switch, NEW p \in Port, NEW f \in Frame, In(f, tx'[t][p])
        PROVE  /\ program' = "centralized"
               /\ f.src # f.dst /\ Leaving(t, p, f)'
    <3>1. t # s
      BY <2>1, <2>4 DEF In
    <3>2. In(f, tx[t][p])
      BY <2>2, <2>4, <3>1
    <3> QED
      BY <3>2, Monotone DEF TxOK, Remembers
  <2> QED
    BY <2>3, <2>4 DEF TxOK, In
<1>5. got' \in [Host -> Seq(Frame)]
  <2>1. ASSUME NEW h \in Host
        PROVE  out[At[h][2]] \in Seq(Frame)
    BY LearningNetAssumption
  <2>2. ASSUME NEW h \in Host
        PROVE  got[h] \o out[At[h][2]] \in Seq(Frame)
    BY <1>1, <2>1, InConcat
  <2> QED
    BY <1>1, <2>2 DEF Leave
<1>6. ASSUME NEW t \in Switch, NEW q \in Port, NEW f \in Frame, In(f, rx'[t][q])
      PROVE  f.src # f.dst /\ Behind(t, q, f.src)' /\ Fitting(t, q, f)'
  <2>1. In(f, queues[t][q]) \/ In(f, Arriving(s, out, t, q))
    <3>1. Arriving(s, out, t, q) \in Seq(Frame) /\ queues[t][q] \in Seq(Frame)
      BY ArrivingFrom
    <3> DEFINE whole == queues[t][q] \o Arriving(s, out, t, q)
    <3>2. In(f, whole) => In(f, queues[t][q]) \/ In(f, Arriving(s, out, t, q))
      BY <3>1, InConcat
    <3> HIDE DEF whole
    <3>3. rx'[t][q] = whole
      BY <1>2 DEF whole
    <3> QED
      BY <1>6, <3>2, <3>3
  <2>2. CASE In(f, queues[t][q])
    BY <2>2
  <2>3. CASE In(f, Arriving(s, out, t, q))
    <3>0. Arriving(s, out, t, q) # << >>
      BY <2>3 DEF In
    <3>1. PICK p \in Port : <<s, p, t, q>> \in Links /\ Arriving(s, out, t, q) = out[p]
      BY <3>0, ArrivingFrom
    <3>4. In(f, out[p])
      BY <2>3, <3>1
    <3>2. f.src # f.dst /\ Knows(s, f.src)' /\ Fitting(t, q, f)'
      BY <3>1, <3>4 DEF Leaving
    <3>3. Behind(t, q, f.src)'
      <4>1. ASSUME NEW u \in Switch, NEW r \in Port, <<t, q, u, r>> \in Links
            PROVE  u = s
        <5>1. <<t, q, s, p>> \in Links
          BY <3>1, LearningNetAssumption
        <5> QED
          BY <4>1, <5>1, LearningNetAssumption
      <4> QED
        BY <3>2, <4>1 DEF Behind
    <3> QED
      BY <3>2, <3>3
  <2> QED
    BY <2>1, <2>2, <2>3
<1>7. RxOK'
  BY <1>6 DEF RxOK
<1> QED
  BY <1>3, <1>4, <1>5, <1>7

\* What steps that add no message and no frame keep of those there are.
LEMMA RestKept ==
    ASSUME Remembers
    PROVE  /\ UpOK /\ UNCHANGED up => UpOK'
           /\ DownOK /\ UNCHANGED down /\ down \in [Switch -> Seq(DownMessage)] => DownOK'
           /\ RxOK /\ UNCHANGED rx => RxOK'
           /\ TxOK /\ UNCHANGED tx => TxOK'
<1>1. UpOK /\ UNCHANGED up => UpOK'
  <2> SUFFICES ASSUME UpOK, UNCHANGED up, NEW s \in Switch, NEW m \in UpMessage,
                      In(m, up[s])
               PROVE  /\ program' = "centralized"
                      /\ m.type = "PACKET_IN" => /\ m.frame.src # m.frame.dst
                                                 /\ Toward[s][m.frame.src] = m.in_port
                                                 /\ Behind(s, m.in_port, m.frame.src)'
    BY DEF UpOK, In
  <2>1. m.type = "PACKET_IN" => m.in_port \in Port /\ m.frame.src \in Host
    BY UpTypes, FrameType DEF Hello
  <2> QED
    BY <2>1, Monotone DEF UpOK, Remembers
<1>2. ASSUME DownOK, UNCHANGED down, down \in [Switch -> Seq(DownMessage)]
      PROVE  DownOK'
  <2> SUFFICES ASSUME NEW s \in Switch, NEW k \in 1 .. Len(down[s])
               PROVE  /\ down[s][k].type = "INSERT" => InsertOK(s, down[s][k])'
                      /\ down[s][k].type = "PACKET_OUT" => PacketOutOK(s, k, down[s][k])'
    BY <1>2 DEF DownOK
  <2>1. PICK m \in DownMessage : m = down[s][k] /\ m = down'[s][k]
    BY <1>2
  <2>2. CASE m.type = "INSERT"
    <3>1. m.key \in Host /\ m.value \in Port
      BY <2>2, DownTypes DEF Install
    <3>2. InsertOK(s, m)
      BY <1>2, <2>1, <2>2 DEF DownOK
    <3>3. InsertOK(s, m)'
      BY <3>1, <3>2, Monotone DEF InsertOK, Remembers
    <3> QED
      BY <2>1, <2>2, <3>3
  <2>3. CASE m.type = "PACKET_OUT"
    <3>1. /\ m.frame \in Frame /\ m.in_port \in Port /\ m.out_port \in Port \cup {FLOOD}
      BY <2>3, DownTypes DEF Install
    <3>2. PacketOutOK(s, k, m)
      BY <1>2, <2>1, <2>3 DEF DownOK
    <3>3. m.frame.src \in Host /\ m.frame.dst \in Host \cup {BROADCAST}
      BY <3>1, FrameType
    <3>4. Behind(s, m.in_port, m.frame.src)'
      BY <3>1, <3>2, <3>3, Monotone DEF PacketOutOK
    <3>5. m.out_port # FLOOD => /\ m.frame.dst \in Host
                                /\ Toward[s][m.frame.dst] = m.out_port
                                /\ Behind(s, m.out_port, m.frame.dst)'
      BY <3>1, <3>2, <3>3, Monotone DEF PacketOutOK
    <3>6. Knows(s, m.frame.src) => Knows(s, m.frame.src)'
      BY <3>3 DEF Remembers
    <3>7. PacketOutOK(s, k, m)'
      BY <1>2, <3>2, <3>4, <3>5, <3>6 DEF PacketOutOK, Remembers
    <3> QED
      BY <2>1, <2>3, <3>7
  <2> QED
    BY <2>1, <2>2, <2>3
<1>3. RxOK /\ UNCHANGED rx => RxOK'
  BY Monotone, FrameType DEF RxOK
<1>4. TxOK /\ UNCHANGED tx => TxOK'
  BY Monotone DEF TxOK, Remembers
<1> QED
  BY <1>1, <1>2, <1>3, <1>4
-----------------------------------------------------------------------------
(* The steps                                                               *)

LEMMA InitInv == Init => Inv
<1> SUFFICES ASSUME Init
             PROVE  Inv
  OBVIOUS
<1>1. PICK start \in Starts : program = start[1] /\ installed = start[2]
  BY DEF Init
<1>2. program \in {"learningswitch", "centralized"} /\ installed \subseteq Switch
  BY <1>1, LearningNetAssumption
<1>3. /\ inports = Unknown /\ mac_to_port = Unknown
      /\ rx = [s \in Switch |-> [p \in Port |-> << >>]]
      /\ tx = [s \in Switch |-> [p \in Port |-> << >>]]
      /\ sent = << >> /\ got = [h \in Host |-> << >>]
      /\ promised = {} /\ forgot = FALSE
  BY DEF Init
<1>4. \A s \in Switch : up[s] = << >> \/ (up[s] = <<Hello>> /\ program = "centralized")
  BY DEF Init
<1>5. \A s \in Switch : down[s] = << >> \/ down[s] = <<Install>>
  BY DEF Init
<1>6. Hello \in UpMessage /\ Install \in DownMessage
  BY DEF UpMessage, DownMessage
<1>7. up \in [Switch -> Seq(UpMessage)] /\ down \in [Switch -> Seq(DownMessage)]
  BY <1>6 DEF Init
<1>8. TypeOK
  <2>1. /\ inports \in [Switch -> [Host -> Port \cup {NONE}]]
        /\ mac_to_port \in [Switch -> [Host -> Port \cup {NONE}]]
    BY <1>3 DEF Unknown
  <2>2. << >> \in Seq(Frame)
    OBVIOUS
  <2>3. /\ rx \in [Switch -> [Port -> Seq(Frame)]] /\ tx \in [Switch -> [Port -> Seq(Frame)]]
        /\ got \in [Host -> Seq(Frame)] /\ sent \in Seq(Frame)
    BY <1>3, <2>2
  <2> QED
    BY <1>2, <1>3, <1>7, <2>1, <2>3 DEF TypeOK
<1>9. LearnedRight /\ FromNeighbour
  BY <1>3 DEF LearnedRight, FromNeighbour, Knows, Unknown
<1>10. RxOK /\ TxOK /\ Ahead
  BY <1>3 DEF RxOK, TxOK, Ahead, In
<1>11. UpOK
  BY <1>4 DEF UpOK, In, Hello
<1>12. DownOK
  BY <1>5 DEF DownOK, Install
<1> QED
  BY <1>8, <1>9, <1>10, <1>11, <1>12 DEF Inv

\* What Ahead says of the next state.
LEMMA AheadNext ==
    ASSUME program' = program,
           program = "learningswitch" =>
               \A t \in Switch, q \in Port : \A k \in 1 .. Len(rx'[t][q]) :
                   rx'[t][q][k].dst \in Host /\ Toward[t][rx'[t][q][k].dst] = q =>
                       /\ inports'[t][rx'[t][q][k].dst] = NONE
                       /\ \A j \in 1 .. k - 1 : rx'[t][q][j].src # rx'[t][q][k].dst
    PROVE  Ahead'
BY DEF Ahead, Knows

\* A host's frame comes in at the host's port, behind which there is no switch.
LEMMA SendInv ==
    ASSUME Inv, NEW h \in Host, NEW dst \in Host \cup {BROADCAST}, h # dst, Send(h, dst)
    PROVE  Inv'
<1> DEFINE s == At[h][1]
           p == At[h][2]
<1>1. /\ rx \in [Switch -> [Port -> Seq(Frame)]] /\ sent \in Seq(Frame)
      /\ promised \subseteq DOMAIN sent
  BY DEF Inv, TypeOK
<1>a. /\ s \in Switch /\ p \in Port
      /\ Len(sent) \in Nat /\ Len(sent) < MaxFrames
      /\ MaxFrames \in Nat
  <2>1. At[h] \in Switch \X Port /\ MaxFrames \in Nat
    BY LearningNetAssumption
  <2> QED
    BY <1>1, <2>1 DEF Send
<1>2. PICK f \in Frame : f = [src |-> h, dst |-> dst, id |-> Len(sent) + 1]
  <2>1. Len(sent) + 1 \in 1 .. MaxFrames
    BY <1>a
  <2> QED
    BY <2>1 DEF Frame
<1>3. /\ rx' = [rx EXCEPT ![s][p] = Append(@, f)]
      /\ sent' = Append(sent, f)
      /\ promised' \subseteq promised \cup {Len(sent) + 1}
      /\ UNCHANGED <<program, switch, up, down, mac_to_port, got, forgot>>
  BY <1>2 DEF Send
<1>4. UNCHANGED program /\ UNCHANGED installed /\ UNCHANGED inports /\ UNCHANGED tx
      /\ UNCHANGED up /\ UNCHANGED down /\ UNCHANGED mac_to_port /\ UNCHANGED got
      /\ UNCHANGED forgot
  BY <1>3 DEF switch
<1>5. Remembers
  BY <1>4 DEF Remembers, Knows
<1>6. Toward[s][h] = p /\ ~Wired(s, p) /\ \A g \in Host : Toward[s][g] = p => g = h
  BY LearningNetAssumption
<1> HIDE DEF s, p
<1>7. f.src = h /\ f.dst = dst
  BY <1>2
<1>8. /\ rx'[s][p] = Append(rx[s][p], f)
      /\ \A t \in Switch, q \in Port : t # s \/ q # p => rx'[t][q] = rx[t][q]
      /\ rx' \in [Switch -> [Port -> Seq(Frame)]]
  BY <1>1, <1>a, <1>3
<1>9. TypeOK'
  <2>1. sent' \in Seq(Frame) /\ DOMAIN sent' = 1 .. Len(sent) + 1 /\ DOMAIN sent = 1 .. Len(sent)
    BY <1>1, <1>3
  <2>2. promised' \subseteq DOMAIN sent'
    BY <1>1, <1>a, <1>3, <2>1
  <2> QED
    BY <1>4, <1>8, <2>1, <2>2 DEF Inv, TypeOK
<1>10. RxOK'
  <2> SUFFICES ASSUME NEW t \in Switch, NEW q \in Port, NEW g \in Frame, In(g, rx'[t][q])
               PROVE  g.src # g.dst /\ Behind(t, q, g.src)' /\ Fitting(t, q, g)'
    BY DEF RxOK
  <2>1. CASE In(g, rx[t][q])
    BY <1>5, <2>1, Monotone, FrameType DEF Inv, RxOK
  <2>2. CASE ~In(g, rx[t][q])
    <3>1. t = s /\ q = p
      BY <1>8, <2>2
    <3>2. g = f
      <4>1. rx[s][p] \in Seq(Frame) /\ In(g, Append(rx[s][p], f)) /\ ~In(g, rx[s][p])
        BY <1>1, <1>a, <1>8, <2>2, <3>1
      <4> QED
        BY <4>1, InAppend
    <3>3. Behind(s, p, h)'
      BY <1>6 DEF Behind, Wired
    <3>4. Fitting(s, p, f)'
      BY <1>6, <1>7 DEF Fitting
    <3> QED
      BY <1>7, <3>1, <3>2, <3>3, <3>4
  <2> QED
    BY <2>1, <2>2
<1>11. Ahead'
  <2> SUFFICES ASSUME program = "learningswitch",
                      NEW t \in Switch, NEW q \in Port, NEW k \in 1 .. Len(rx'[t][q]),
                      rx'[t][q][k].dst \in Host, Toward[t][rx'[t][q][k].dst] = q
               PROVE  /\ inports'[t][rx'[t][q][k].dst] = NONE
                      /\ \A j \in 1 .. k - 1 : rx'[t][q][j].src # rx'[t][q][k].dst
    BY <1>4, AheadNext
  <2>1. CASE t # s \/ q # p
    <3>1. rx'[t][q] = rx[t][q] /\ inports' = inports
      BY <1>4, <1>8, <2>1
    <3> QED
      BY <3>1 DEF Inv, Ahead, Knows
  <2>2. CASE t = s /\ q = p
    <3>1. rx[s][p] \in Seq(Frame) /\ rx'[s][p] = Append(rx[s][p], f)
      BY <1>1, <1>a, <1>8
    <3>2. CASE k <= Len(rx[s][p])
      <4>1. /\ k \in 1 .. Len(rx[s][p])
            /\ \A j \in 1 .. k : rx'[s][p][j] = rx[s][p][j]
        BY <2>2, <3>1, <3>2
      <4>2. inports' = inports /\ rx'[s][p][k] = rx[s][p][k]
        BY <1>4, <4>1
      <4>3. /\ inports[s][rx[s][p][k].dst] = NONE
            /\ \A j \in 1 .. k - 1 : rx[s][p][j].src # rx[s][p][k].dst
        BY <1>a, <2>2, <4>1, <4>2 DEF Inv, Ahead, Knows
      <4> QED
        BY <2>2, <4>1, <4>2, <4>3
    <3>3. CASE k > Len(rx[s][p])
      <4>1. rx'[s][p][k] = f
        BY <2>2, <3>1, <3>3
      <4>2. f.dst \in Host /\ Toward[s][f.dst] = p
        BY <2>2, <4>1
      <4> QED
        BY <1>6, <1>7, <4>2
    <3> QED
      BY <2>2, <3>1, <3>2, <3>3
  <2> QED
    BY <2>1, <2>2
<1>12. LearnedRight' /\ FromNeighbour'
  BY <1>4 DEF Inv, LearnedRight, FromNeighbour, Knows, Behind
<1>13. TxOK' /\ UpOK' /\ DownOK'
  BY <1>4, <1>5, RestKept DEF Inv, TypeOK
<1> QED
  BY <1>9, <1>10, <1>11, <1>12, <1>13 DEF Inv

\* A message that stays what it was is as it should be, if what is ahead of it
\* still is or has been handled.
LEMMA MessageKept ==
    ASSUME Remembers, NEW s \in Switch, NEW m \in DownMessage, NEW k \in Nat, NEW l \in Nat
    PROVE  /\ m.type = "INSERT" /\ InsertOK(s, m) => InsertOK(s, m)'
           /\ /\ m.type = "PACKET_OUT" /\ PacketOutOK(s, k, m)
              /\ \A j \in 1 .. k - 1 : down[s][j].type = "INSERT" =>
                    \/ inports'[s][down[s][j].key] # NONE
                    \/ \E i \in 1 .. l - 1 : down'[s][i] = down[s][j]
              => PacketOutOK(s, l, m)'
<1>1. CASE m.type = "INSERT"
  <2>1. m.key \in Host /\ m.value \in Port
    BY <1>1, DownTypes DEF Install
  <2> QED
    BY <1>1, <2>1, Monotone DEF InsertOK, Remembers
<1>2. CASE m.type = "PACKET_OUT"
  <2> SUFFICES ASSUME PacketOutOK(s, k, m),
                      \A j \in 1 .. k - 1 : down[s][j].type = "INSERT" =>
                          \/ inports'[s][down[s][j].key] # NONE
                          \/ \E i \in 1 .. l - 1 : down'[s][i] = down[s][j]
               PROVE  PacketOutOK(s, l, m)'
    BY <1>2
  <2>1. /\ m.frame \in Frame /\ m.in_port \in Port /\ m.out_port \in Port \cup {FLOOD}
    BY <1>2, DownTypes DEF Install
  <2>2. m.frame.src \in Host /\ m.frame.dst \in Host \cup {BROADCAST}
    BY <2>1, FrameType
  <2>3. Behind(s, m.in_port, m.frame.src)'
    BY <2>1, <2>2, Monotone DEF PacketOutOK
  <2>4. m.out_port # FLOOD => /\ m.frame.dst \in Host
                              /\ Toward[s][m.frame.dst] = m.out_port
                              /\ Behind(s, m.out_port, m.frame.dst)'
    BY <2>1, <2>2, Monotone DEF PacketOutOK
  <2>5. \/ Knows(s, m.frame.src)'
        \/ \E i \in 1 .. l - 1 : down'[s][i].type = "INSERT" /\ down'[s][i].key = m.frame.src
    <3>1. CASE Knows(s, m.frame.src)
      BY <2>2, <3>1 DEF Remembers
    <3>2. CASE ~Knows(s, m.frame.src)
      <4>1. PICK j \in 1 .. k - 1 : down[s][j].type = "INSERT" /\ down[s][j].key = m.frame.src
        BY <3>2 DEF PacketOutOK
      <4>2. CASE \E i \in 1 .. l - 1 : down'[s][i] = down[s][j]
        BY <4>1, <4>2
      <4>3. CASE inports'[s][down[s][j].key] # NONE
        BY <4>1, <4>3 DEF Knows
      <4> QED
        BY <4>1, <4>2, <4>3
    <3> QED
      BY <3>1, <3>2
  <2> QED
    BY <2>3, <2>4, <2>5 DEF PacketOutOK, Remembers
<1> QED
  BY <1>1, <1>2

\* What DownOK says of the next state.
LEMMA DownNext ==
    ASSUME \A s \in Switch : \A k \in 1 .. Len(down'[s]) :
               \E m \in DownMessage :
                   /\ m = down'[s][k]
                   /\ m.type = "INSERT" => InsertOK(s, m)'
                   /\ m.type = "PACKET_OUT" => PacketOutOK(s, k, m)'
    PROVE  DownOK'
<1> SUFFICES ASSUME NEW s \in Switch, NEW k \in 1 .. Len(down'[s])
             PROVE  /\ down'[s][k].type = "INSERT" => InsertOK(s, down[s][k])'
                    /\ down'[s][k].type = "PACKET_OUT" => PacketOutOK(s, k, down[s][k])'
  BY DEF DownOK
<1>1. PICK m \in DownMessage :
          /\ m = down'[s][k]
          /\ m.type = "INSERT" => InsertOK(s, m)'
          /\ m.type = "PACKET_OUT" => PacketOutOK(s, k, m)'
  OBVIOUS
<1> QED
  BY <1>1

\* The controller sends more to a switch.
LEMMA DownGrows ==
    ASSUME Inv, Remembers, NEW s \in Switch, NEW more \in Seq(DownMessage),
           NEW n \in Nat, n = Len(down[s]),
           down' = [down EXCEPT ![s] = @ \o more],
           \A k \in 1 .. Len(more) :
               /\ more[k].type = "INSERT" => InsertOK(s, more[k])'
               /\ more[k].type = "PACKET_OUT" => PacketOutOK(s, n + k, more[k])'
    PROVE  down' \in [Switch -> Seq(DownMessage)] /\ DownOK'
<1>1. down \in [Switch -> Seq(DownMessage)]
  BY DEF Inv, TypeOK
<1>2. /\ down'[s] = down[s] \o more
      /\ \A t \in Switch : t # s => down'[t] = down[t]
  BY <1>1
<1>3. /\ down[s] \o more \in Seq(DownMessage)
      /\ Len(down[s] \o more) = Len(down[s]) + Len(more)
      /\ \A k \in 1 .. Len(down[s]) : (down[s] \o more)[k] = down[s][k]
      /\ \A k \in 1 .. Len(more) : (down[s] \o more)[Len(down[s]) + k] = more[k]
  BY <1>1, InConcat
<1>4. down' \in [Switch -> Seq(DownMessage)]
  BY <1>1, <1>3
<1>5. ASSUME NEW t \in Switch, NEW k \in 1 .. Len(down[t]),
             \A j \in 1 .. k : down'[t][j] = down[t][j]
      PROVE  \E m \in DownMessage :
                 /\ m = down'[t][k]
                 /\ m.type = "INSERT" => InsertOK(t, m)'
                 /\ m.type = "PACKET_OUT" => PacketOutOK(t, k, m)'
  <2>1. PICK m \in DownMessage : m = down[t][k] /\ m = down'[t][k]
    BY <1>1, <1>5
  <2>2. /\ m.type = "INSERT" => InsertOK(t, m)
        /\ m.type = "PACKET_OUT" => PacketOutOK(t, k, m)
    BY <2>1 DEF Inv, DownOK
  <2>3. k \in Nat /\ \A j \in 1 .. k - 1 : \E i \in 1 .. k - 1 : down'[t][i] = down[t][j]
    BY <1>1, <1>5
  <2>4. /\ m.type = "INSERT" => InsertOK(t, m)'
        /\ m.type = "PACKET_OUT" => PacketOutOK(t, k, m)'
    BY <2>2, <2>3, MessageKept
  <2> QED
    BY <2>1, <2>4
<1>6. ASSUME NEW t \in Switch, NEW k \in 1 .. Len(down'[t])
      PROVE  \E m \in DownMessage :
                 /\ m = down'[t][k]
                 /\ m.type = "INSERT" => InsertOK(t, m)'
                 /\ m.type = "PACKET_OUT" => PacketOutOK(t, k, m)'
  <2>1. CASE t # s
    BY <1>2, <1>5, <2>1
  <2>2. CASE t = s /\ k <= Len(down[s])
    <3>1. k \in 1 .. Len(down[s]) /\ \A j \in 1 .. k : down'[s][j] = down[s][j]
      BY <1>1, <1>2, <1>3, <2>2
    <3> QED
      BY <1>5, <2>2, <3>1
  <2>3. CASE t = s /\ k > Len(down[s])
    <3>1. Len(down[s]) \in Nat /\ Len(more) \in Nat /\ k \in 1 .. Len(down[s]) + Len(more)
      BY <1>1, <1>2, <1>3, <2>3
    <3>2. PICK i \in 1 .. Len(more) : k = n + i
      BY <2>3, <3>1, k - Len(down[s]) \in 1 .. Len(more)
    <3>3. PICK m \in DownMessage : m = more[i]
      OBVIOUS
    <3>4. m = down'[s][k]
      BY <1>2, <1>3, <3>2, <3>3
    <3> QED
      BY <2>3, <3>2, <3>3, <3>4
  <2> QED
    BY <1>1, <2>1, <2>2, <2>3
<1> QED
  BY <1>4, <1>6, DownNext

\* The agent has handled the first message.
LEMMA DownShrinks ==
    ASSUME Inv, Remembers, NEW s \in Switch, down[s] # << >>,
           down' = [down EXCEPT ![s] = Tail(@)],
           down[s][1].type = "INSERT" => inports'[s][down[s][1].key] # NONE
    PROVE  down' \in [Switch -> Seq(DownMessage)] /\ DownOK'
<1>1. down \in [Switch -> Seq(DownMessage)]
  BY DEF Inv, TypeOK
<1>2. /\ down'[s] = Tail(down[s])
      /\ \A t \in Switch : t # s => down'[t] = down[t]
  BY <1>1
<1>3. /\ Tail(down[s]) \in Seq(DownMessage)
      /\ Len(down[s]) \in Nat
      /\ Len(Tail(down[s])) = Len(down[s]) - 1
      /\ \A k \in 1 .. Len(down[s]) - 1 : Tail(down[s])[k] = down[s][k + 1]
  BY <1>1
<1>4. down' \in [Switch -> Seq(DownMessage)]
  BY <1>1, <1>3
<1>5. ASSUME NEW t \in Switch, NEW k \in 1 .. Len(down'[t]),
             NEW l \in 1 .. Len(down[t]), down'[t][k] = down[t][l],
             \A j \in 1 .. l - 1 : down[t][j].type = "INSERT" =>
                 \/ inports'[t][down[t][j].key] # NONE
                 \/ \E i \in 1 .. k - 1 : down'[t][i] = down[t][j]
      PROVE  \E m \in DownMessage :
                 /\ m = down'[t][k]
                 /\ m.type = "INSERT" => InsertOK(t, m)'
                 /\ m.type = "PACKET_OUT" => PacketOutOK(t, k, m)'
  <2>1. PICK m \in DownMessage : m = down[t][l] /\ m = down'[t][k]
    BY <1>1, <1>5
  <2>2. /\ m.type = "INSERT" => InsertOK(t, m)
        /\ m.type = "PACKET_OUT" => PacketOutOK(t, l, m)
    BY <2>1 DEF Inv, DownOK
  <2>3. k \in Nat /\ l \in Nat
    BY <1>1, <1>4
  <2>4. /\ m.type = "INSERT" => InsertOK(t, m)'
        /\ m.type = "PACKET_OUT" => PacketOutOK(t, k, m)'
    BY <1>5, <2>2, <2>3, MessageKept
  <2> QED
    BY <2>1, <2>4
<1>6. ASSUME NEW t \in Switch, NEW k \in 1 .. Len(down'[t])
      PROVE  \E m \in DownMessage :
                 /\ m = down'[t][k]
                 /\ m.type = "INSERT" => InsertOK(t, m)'
                 /\ m.type = "PACKET_OUT" => PacketOutOK(t, k, m)'
  <2>1. CASE t # s
    <3>1. k \in 1 .. Len(down[t]) /\ \A j \in 1 .. k : down'[t][j] = down[t][j]
      BY <1>1, <1>2, <2>1
    <3>2. \A j \in 1 .. k - 1 : \E i \in 1 .. k - 1 : down'[t][i] = down[t][j]
      BY <1>1, <1>4, <3>1
    <3>3. down'[t][k] = down[t][k]
      BY <1>2, <2>1
    <3> QED
      BY <1>5, <3>1, <3>2, <3>3
  <2>2. CASE t = s
    <3>0. Len(down'[t]) = Len(down[s]) - 1
      BY <1>2, <1>3, <2>2
    <3>1. k \in 1 .. Len(down[s]) - 1 /\ k + 1 \in 1 .. Len(down[s])
      BY <1>3, <3>0
    <3>2. down'[s][k] = down[s][k + 1]
      BY <1>2, <1>3, <3>1
    <3>3. ASSUME NEW j \in 1 .. (k + 1) - 1, down[s][j].type = "INSERT"
          PROVE  \/ inports'[s][down[s][j].key] # NONE
                 \/ \E i \in 1 .. k - 1 : down'[s][i] = down[s][j]
      <4>1. CASE j = 1
        BY <3>3, <4>1
      <4>2. CASE j # 1
        <5>1. j - 1 \in 1 .. k - 1 /\ j - 1 \in 1 .. Len(down[s]) - 1 /\ (j - 1) + 1 = j
          BY <1>3, <3>1, <4>2
        <5>2. down'[s][j - 1] = down[s][j]
          BY <1>2, <1>3, <5>1
        <5> QED
          BY <5>1, <5>2
      <4> QED
        BY <4>1, <4>2
    <3> QED
      BY <1>5, <2>2, <3>1, <3>2, <3>3
  <2> QED
    BY <2>1, <2>2
<1> QED
  BY <1>4, <1>6, DownNext

\* A message to the controller, as UpOK wants it.
UpMessageOK(s, m) ==
    /\ program = "centralized"
    /\ m.type = "PACKET_IN" => /\ m.frame.src # m.frame.dst
                               /\ Toward[s][m.frame.src] = m.in_port
                               /\ Behind(s, m.in_port, m.frame.src)

\* Messages to the controller stay as they should be.
LEMMA UpKept ==
    ASSUME UpOK, Remembers, NEW s \in Switch, NEW m \in UpMessage, In(m, up[s])
    PROVE  UpMessageOK(s, m) /\ UpMessageOK(s, m)'
<1>1. UpMessageOK(s, m)
  BY DEF UpOK, UpMessageOK
<1>2. m.type = "PACKET_IN" => m.in_port \in Port /\ m.frame.src \in Host
  BY UpTypes, FrameType DEF Hello
<1> QED
  BY <1>1, <1>2, Monotone DEF UpMessageOK, Remembers

\* The controller has handled the first message.
LEMMA UpShrinks ==
    ASSUME Inv, Remembers, NEW s \in Switch, up[s] # << >>,
           up' = [up EXCEPT ![s] = Tail(@)]
    PROVE  up' \in [Switch -> Seq(UpMessage)] /\ UpOK'
<1>1. up \in [Switch -> Seq(UpMessage)] /\ UpOK
  BY DEF Inv, TypeOK
<1>2. /\ up'[s] = Tail(up[s]) /\ Tail(up[s]) \in Seq(UpMessage)
      /\ \A t \in Switch : t # s => up'[t] = up[t]
  BY <1>1
<1>3. up' \in [Switch -> Seq(UpMessage)]
  BY <1>1, <1>2
<1>4. ASSUME NEW t \in Switch, NEW m \in UpMessage, In(m, up'[t])
      PROVE  UpMessageOK(t, m)'
  <2>1. CASE t # s
    BY <1>1, <1>2, <1>4, <2>1, UpKept
  <2>2. CASE t = s
    <3>1. up[s] \in Seq(UpMessage) /\ In(m, Tail(up[s]))
      BY <1>1, <1>2, <1>4, <2>2
    <3>2. In(m, up[s])
      BY <3>1, InTail
    <3> QED
      BY <1>1, <2>2, <3>2, UpKept
  <2> QED
    BY <2>1, <2>2
<1>5. UpOK'
  BY <1>4 DEF UpOK, UpMessageOK, In
<1> QED
  BY <1>3, <1>5

\* The reply to a frame has the entry for its source first, and a port for its
\* destination only where the controller has learned one.
LEMMA PacketInInv ==
    ASSUME Inv, NEW s \in Switch, up[s] # << >>, RecvPacketIn(s),
           up' = [up EXCEPT ![s] = Tail(@)],
           UNCHANGED <<program, switch, rx, history>>
    PROVE  Inv'
<1>1. UNCHANGED program /\ UNCHANGED installed /\ UNCHANGED inports /\ UNCHANGED tx
      /\ UNCHANGED rx /\ UNCHANGED sent /\ UNCHANGED got /\ UNCHANGED promised
      /\ UNCHANGED forgot
  BY DEF switch, history, RecvPacketIn
<1>2. Remembers
  BY <1>1 DEF Remembers, Knows
<1>3. TypeOK /\ UpOK /\ LearnedRight /\ FromNeighbour
  BY DEF Inv
<1>4. /\ up \in [Switch -> Seq(UpMessage)] /\ down \in [Switch -> Seq(DownMessage)]
      /\ mac_to_port \in [Switch -> [Host -> Port \cup {NONE}]]
  BY <1>3 DEF TypeOK
<1>5. PICK m \in UpMessage : m = Head(up[s]) /\ In(m, up[s])
  <2>1. up[s] \in Seq(UpMessage)
    BY <1>4
  <2> QED
    BY <2>1, InTail
<1>6. m.type = "PACKET_IN"
  BY <1>5 DEF RecvPacketIn
<1>7. PICK f \in Frame, p \in Port : f = m.frame /\ p = m.in_port
  BY <1>6, UpTypes DEF Hello
<1>8. f.src \in Host /\ f.dst \in Host \cup {BROADCAST} /\ BROADCAST \notin Host
  BY FrameType, LearningNetAssumption
<1>9. /\ program = "centralized" /\ f.src # f.dst /\ Toward[s][f.src] = p
      /\ Behind(s, p, f.src) /\ Behind(s, p, f.src)'
  BY <1>2, <1>3, <1>5, <1>6, <1>7, UpKept DEF UpMessageOK
<1>10. PICK table \in [Host -> Port \cup {NONE}] :
           /\ table = [mac_to_port[s] EXCEPT ![f.src] = p]
           /\ mac_to_port' = [mac_to_port EXCEPT ![s] = table]
           /\ down' = [down EXCEPT ![s] = @ \o Reply(f, p, OutPort(table, f.dst))]
  <2>1. [mac_to_port[s] EXCEPT ![f.src] = p] \in [Host -> Port \cup {NONE}]
    BY <1>4
  <2> QED
    BY <1>5, <1>7, <2>1, Zenon DEF RecvPacketIn
<1>11. PICK out \in Port \cup {FLOOD} :
           /\ out = OutPort(table, f.dst)
           /\ out # FLOOD => f.dst \in Host /\ out = mac_to_port[s][f.dst]
  <2>1. CASE f.dst = BROADCAST \/ table[f.dst] = NONE
    BY <2>1 DEF OutPort
  <2>2. CASE f.dst \in Host /\ table[f.dst] # NONE
    <3>1. table[f.dst] \in Port /\ table[f.dst] = mac_to_port[s][f.dst]
      BY <1>4, <1>8, <1>9, <1>10, <2>2
    <3> QED
      BY <1>8, <2>2, <3>1 DEF OutPort
  <2> QED
    BY <1>8, <2>1, <2>2
<1>12. out # FLOOD => /\ f.dst \in Host /\ Toward[s][f.dst] = out
                      /\ Behind(s, out, f.dst)'
  <2> SUFFICES ASSUME out # FLOOD
               PROVE  f.dst \in Host /\ Toward[s][f.dst] = out /\ Behind(s, out, f.dst)'
    OBVIOUS
  <2>1. out \in Port /\ NONE \notin Port /\ f.dst \in Host /\ out = mac_to_port[s][f.dst]
    BY <1>11, LearningNetAssumption
  <2>2. Toward[s][f.dst] = out
    BY <1>3, <2>1 DEF LearnedRight
  <2>3. Behind(s, out, f.dst)
    BY <1>3, <2>1, <2>2 DEF FromNeighbour
  <2> QED
    BY <1>2, <2>1, <2>2, <2>3, Monotone
<1>13. PICK n \in Nat : n = Len(down[s])
  BY <1>4
<1>14. PICK i \in DownMessage, o \in DownMessage :
           /\ i = Insert(f.src, p) /\ o = PacketOut(f, p, out)
  BY <1>8, MessagesMade
<1>15. PICK more \in Seq(DownMessage) : more = <<i, o>>
  <2>1. <<i, o>> \in Seq(DownMessage)
    OBVIOUS
  <2> QED
    BY <2>1
<1>16. down' = [down EXCEPT ![s] = @ \o more]
  BY <1>10, <1>11, <1>14, <1>15 DEF Reply
<1>17. /\ i.type = "INSERT" /\ i.key = f.src /\ i.value = p
       /\ o.type = "PACKET_OUT" /\ o.frame = f /\ o.in_port = p /\ o.out_port = out
  BY <1>14 DEF Insert, PacketOut
<1>18. InsertOK(s, i)'
  BY <1>1, <1>9, <1>17 DEF InsertOK
<1>19. PacketOutOK(s, n + 2, o)'
  <2>1. down'[s][n + 1] = i
    <3>1. down'[s] = down[s] \o more /\ down[s] \in Seq(DownMessage)
      BY <1>4, <1>16
    <3>2. (down[s] \o more)[Len(down[s]) + 1] = more[1]
      BY <1>15, <3>1, InConcat
    <3> QED
      BY <1>13, <1>15, <3>1, <3>2
  <2>2. n + 1 \in 1 .. (n + 2) - 1
    BY <1>13
  <2>3. \E j \in 1 .. (n + 2) - 1 : down'[s][j].type = "INSERT" /\ down'[s][j].key = o.frame.src
    BY <1>17, <2>1, <2>2
  <2> QED
    BY <1>1, <1>9, <1>12, <1>17, <2>3 DEF PacketOutOK
<1>20. down' \in [Switch -> Seq(DownMessage)] /\ DownOK'
  <2>1. ASSUME NEW k \in 1 .. Len(more)
        PROVE  /\ more[k].type = "INSERT" => InsertOK(s, more[k])'
               /\ more[k].type = "PACKET_OUT" => PacketOutOK(s, n + k, more[k])'
    <3>1. Len(more) = 2 /\ more[1] = i /\ more[2] = o
      BY <1>15
    <3>2. k = 1 \/ k = 2
      BY <3>1
    <3>3. CASE k = 1
      BY <1>17, <1>18, <3>1, <3>3
    <3>4. CASE k = 2
      BY <1>17, <1>19, <3>1, <3>4
    <3> QED
      BY <3>2, <3>3, <3>4
  <2> QED
    BY <1>2, <1>13, <1>16, <2>1, DownGrows
<1>21. up' \in [Switch -> Seq(UpMessage)] /\ UpOK'
  BY <1>2, UpShrinks
<1>22. /\ mac_to_port' \in [Switch -> [Host -> Port \cup {NONE}]]
       /\ \A t \in Switch, h \in Host :
             mac_to_port'[t][h] = mac_to_port[t][h] \/ (t = s /\ h = f.src /\ mac_to_port'[t][h] = p)
  BY <1>4, <1>10
<1>23. TypeOK'
  BY <1>1, <1>3, <1>20, <1>21, <1>22 DEF TypeOK
<1>24. LearnedRight'
  BY <1>1, <1>3, <1>9, <1>22 DEF LearnedRight
<1>25. FromNeighbour'
  <2> SUFFICES ASSUME NEW t \in Switch, NEW h \in Host,
                      Knows(t, h)' \/ mac_to_port'[t][h] # NONE
               PROVE  Behind(t, Toward[t][h], h)'
    BY DEF FromNeighbour
  <2>1. CASE Knows(t, h) \/ mac_to_port[t][h] # NONE
    <3>1. Behind(t, Toward[t][h], h) /\ Toward[t][h] \in Port
      BY <1>3, <2>1, LearningNetAssumption DEF FromNeighbour
    <3> QED
      BY <1>2, <3>1, Monotone
  <2>2. CASE t = s /\ h = f.src
    BY <1>9, <2>2
  <2> QED
    BY <1>1, <1>22, <2>1, <2>2 DEF Knows
<1>26. RxOK' /\ TxOK'
  BY <1>1, <1>2, RestKept DEF Inv
<1>27. Ahead'
  BY <1>1, AheadStays DEF Inv
<1> QED
  BY <1>20, <1>21, <1>23, <1>24, <1>25, <1>26, <1>27 DEF Inv

\* A hello makes the controller forget, and has the program sent again.
LEMMA HelloInv ==
    ASSUME Inv, NEW s \in Switch, up[s] # << >>, RecvHello(s),
           up' = [up EXCEPT ![s] = Tail(@)],
           UNCHANGED <<program, switch, rx, history>>
    PROVE  Inv'
<1>1. UNCHANGED program /\ UNCHANGED installed /\ UNCHANGED inports /\ UNCHANGED tx
      /\ UNCHANGED rx /\ UNCHANGED sent /\ UNCHANGED got /\ UNCHANGED promised
  BY DEF switch, history
<1>2. Remembers
  BY <1>1 DEF Remembers, Knows
<1>3. TypeOK /\ LearnedRight /\ FromNeighbour
  BY DEF Inv
<1>4. /\ down \in [Switch -> Seq(DownMessage)] /\ forgot \in BOOLEAN
  BY <1>3 DEF TypeOK
<1>5. PICK i \in DownMessage : i = Install /\ i.type = "INSTALL"
  <2>1. Install \in DownMessage /\ Install.type = "INSTALL"
    BY DEF DownMessage, Install
  <2> QED
    BY <2>1
<1>6. PICK more \in Seq(DownMessage) : more = <<i>> /\ Len(more) = 1 /\ more[1] = i
  <2>1. <<i>> \in Seq(DownMessage) /\ Len(<<i>>) = 1 /\ <<i>>[1] = i
    OBVIOUS
  <2> QED
    BY <2>1
<1>7. /\ mac_to_port' = Unknown /\ forgot' \in BOOLEAN
      /\ down' = [down EXCEPT ![s] = Append(@, i)]
  BY <1>4, <1>5 DEF RecvHello
<1>8. down' = [down EXCEPT ![s] = @ \o more]
  <2>1. down[s] \in Seq(DownMessage)
    BY <1>4
  <2>2. Append(down[s], i) = down[s] \o more
    BY <1>6, <2>1
  <2> QED
    BY <1>7, <2>2
<1>9. PICK n \in Nat : n = Len(down[s])
  BY <1>4
<1>10. down' \in [Switch -> Seq(DownMessage)] /\ DownOK'
  <2>1. \A k \in 1 .. Len(more) : more[k].type = "INSTALL"
    BY <1>5, <1>6
  <2> QED
    BY <1>2, <1>8, <1>9, <2>1, DownGrows
<1>11. up' \in [Switch -> Seq(UpMessage)] /\ UpOK'
  BY <1>2, UpShrinks
<1>12. TypeOK'
  <2>1. mac_to_port' \in [Switch -> [Host -> Port \cup {NONE}]]
    BY <1>7 DEF Unknown
  <2> QED
    BY <1>1, <1>3, <1>7, <1>10, <1>11, <2>1 DEF TypeOK
<1>13. \A t \in Switch, h \in Host : mac_to_port'[t][h] = NONE
  BY <1>7 DEF Unknown
<1>14. LearnedRight'
  BY <1>1, <1>3, <1>13 DEF LearnedRight
<1>15. FromNeighbour'
  BY <1>1, <1>3, <1>13 DEF FromNeighbour, Knows, Behind
<1>16. RxOK' /\ TxOK'
  BY <1>1, <1>2, RestKept DEF Inv
<1>17. Ahead'
  BY <1>1, AheadStays DEF Inv
<1> QED
  BY <1>10, <1>11, <1>12, <1>14, <1>15, <1>16, <1>17 DEF Inv

\* The controller, one message of any kind.
LEMMA HandleInv ==
    ASSUME Inv, NEW s \in Switch, Handle(s)
    PROVE  Inv'
<1>1. CASE RecvHello(s)
  BY <1>1, HelloInv DEF Handle
<1>2. CASE RecvPacketIn(s)
  BY <1>2, PacketInInv DEF Handle
<1> QED
  BY <1>1, <1>2 DEF Handle
-----------------------------------------------------------------------------
(* The agent                                                               *)

\* The first message is as it should be; a packet the controller sends is from
\* a host that the switch knows by then.
LEMMA FirstMessage ==
    ASSUME Inv, NEW s \in Switch, down[s] # << >>
    PROVE  \E m \in DownMessage :
               /\ m = Head(down[s]) /\ m = down[s][1]
               /\ m.type = "INSERT" => InsertOK(s, m)
               /\ m.type = "PACKET_OUT" => PacketOutOK(s, 1, m) /\ Knows(s, m.frame.src)
<1>1. down[s] \in Seq(DownMessage) /\ Len(down[s]) >= 1 /\ Len(down[s]) \in Nat
  BY DEF Inv, TypeOK
<1>2. PICK m \in DownMessage : m = Head(down[s]) /\ m = down[s][1]
  BY <1>1
<1>3. /\ m.type = "INSERT" => InsertOK(s, m)
      /\ m.type = "PACKET_OUT" => PacketOutOK(s, 1, m)
  BY <1>1, <1>2 DEF Inv, DownOK
<1>4. m.type = "PACKET_OUT" => Knows(s, m.frame.src)
  BY <1>3 DEF PacketOutOK
<1> QED
  BY <1>2, <1>3, <1>4

\* An entry that is inserted is right, and known at the other end of the link.
LEMMA InsertInv ==
    ASSUME Inv, NEW s \in Switch, Receive(s), RecvInsert(s)
    PROVE  Inv'
<1>1. UNCHANGED program /\ UNCHANGED installed /\ UNCHANGED tx /\ UNCHANGED rx
      /\ UNCHANGED up /\ UNCHANGED mac_to_port /\ UNCHANGED sent /\ UNCHANGED got
      /\ UNCHANGED promised /\ UNCHANGED forgot
  BY DEF Receive, RecvInsert
<1>2. TypeOK /\ LearnedRight /\ FromNeighbour
  BY DEF Inv
<1>3. down[s] # << >> /\ down' = [down EXCEPT ![s] = Tail(@)]
  BY DEF Receive
<1>4. PICK m \in DownMessage :
          /\ m = Head(down[s]) /\ m = down[s][1]
          /\ m.type = "INSERT" => InsertOK(s, m)
  BY <1>3, FirstMessage
<1>5. m.type = "INSERT" /\ inports' = [inports EXCEPT ![s][m.key] = m.value]
  BY <1>4 DEF RecvInsert
<1>6. PICK h \in Host, p \in Port : h = m.key /\ p = m.value
  BY <1>5, DownTypes DEF Install
<1>7. /\ inports' \in [Switch -> [Host -> Port \cup {NONE}]]
      /\ inports'[s][h] = p
      /\ \A t \in Switch, g \in Host :
            inports'[t][g] = inports[t][g] \/ (t = s /\ g = h /\ inports'[t][g] = p)
  BY <1>2, <1>5, <1>6 DEF TypeOK
<1>8. p # NONE
  BY LearningNetAssumption
<1>9. Remembers
  BY <1>1, <1>7, <1>8 DEF Remembers, Knows
<1>10. program = "centralized" /\ Toward[s][h] = p /\ Behind(s, p, h) /\ Behind(s, p, h)'
  BY <1>4, <1>5, <1>6, <1>9, Monotone DEF InsertOK
<1>11. down' \in [Switch -> Seq(DownMessage)] /\ DownOK'
  BY <1>3, <1>4, <1>5, <1>6, <1>7, <1>8, <1>9, DownShrinks
<1>12. TypeOK'
  BY <1>1, <1>2, <1>7, <1>11 DEF TypeOK
<1>13. LearnedRight'
  BY <1>1, <1>2, <1>7, <1>10 DEF LearnedRight
<1>14. FromNeighbour'
  <2> SUFFICES ASSUME NEW t \in Switch, NEW g \in Host,
                      Knows(t, g)' \/ mac_to_port'[t][g] # NONE
               PROVE  Behind(t, Toward[t][g], g)'
    BY DEF FromNeighbour
  <2>1. CASE Knows(t, g) \/ mac_to_port[t][g] # NONE
    <3>1. Behind(t, Toward[t][g], g) /\ Toward[t][g] \in Port
      BY <1>2, <2>1, LearningNetAssumption DEF FromNeighbour
    <3> QED
      BY <1>9, <3>1, Monotone
  <2>2. CASE t = s /\ g = h
    BY <1>10, <2>2
  <2> QED
    BY <1>1, <1>7, <2>1, <2>2 DEF Knows
<1>15. RxOK' /\ TxOK' /\ UpOK'
  BY <1>1, <1>9, RestKept DEF Inv
<1>16. Ahead'
  BY <1>1, <1>10 DEF Ahead
<1> QED
  BY <1>11, <1>12, <1>13, <1>14, <1>15, <1>16 DEF Inv

\* Installing a program does not touch the table.
LEMMA InstallInv ==
    ASSUME Inv, NEW s \in Switch, Receive(s), RecvInstall(s)
    PROVE  Inv'
<1>1. UNCHANGED program /\ UNCHANGED inports /\ UNCHANGED tx /\ UNCHANGED rx
      /\ UNCHANGED up /\ UNCHANGED mac_to_port /\ UNCHANGED sent /\ UNCHANGED got
      /\ UNCHANGED promised /\ UNCHANGED forgot
  BY DEF Receive, RecvInstall
<1>2. TypeOK /\ LearnedRight /\ FromNeighbour /\ Ahead
  BY DEF Inv
<1>3. /\ down[s] # << >> /\ down' = [down EXCEPT ![s] = Tail(@)]
      /\ installed' = installed \cup {s} /\ Head(down[s]).type = "INSTALL"
  BY DEF Receive, RecvInstall
<1>4. down[s][1].type = "INSTALL"
  BY <1>3, FirstMessage
<1>5. Remembers
  BY <1>1 DEF Remembers, Knows
<1>6. down' \in [Switch -> Seq(DownMessage)] /\ DownOK'
  BY <1>3, <1>4, <1>5, DownShrinks
<1>7. TypeOK'
  BY <1>1, <1>2, <1>3, <1>6 DEF TypeOK
<1>8. LearnedRight' /\ FromNeighbour'
  BY <1>1, <1>2 DEF LearnedRight, FromNeighbour, Knows, Behind
<1>9. RxOK' /\ TxOK' /\ UpOK'
  BY <1>1, <1>5, RestKept DEF Inv
<1>10. Ahead'
  BY <1>1, <1>2 DEF Ahead, Knows
<1> QED
  BY <1>6, <1>7, <1>8, <1>9, <1>10 DEF Inv

\* A packet of the controller leaves, or waits in the ring, as it may.
LEMMA PacketOutInv ==
    ASSUME Inv, NEW s \in Switch, Receive(s), RecvPacketOut(s)
    PROVE  Inv'
<1>1. UNCHANGED program /\ UNCHANGED installed /\ UNCHANGED inports
      /\ UNCHANGED up /\ UNCHANGED mac_to_port /\ UNCHANGED sent
      /\ UNCHANGED promised /\ UNCHANGED forgot
  BY DEF Receive, RecvPacketOut
<1>2. TypeOK /\ LearnedRight /\ FromNeighbour /\ RxOK /\ TxOK
  BY DEF Inv
<1>3. down[s] # << >> /\ down' = [down EXCEPT ![s] = Tail(@)]
  BY DEF Receive
<1>4. PICK m \in DownMessage :
          /\ m = Head(down[s]) /\ m = down[s][1]
          /\ m.type = "PACKET_OUT" => PacketOutOK(s, 1, m) /\ Knows(s, m.frame.src)
  BY <1>3, FirstMessage
<1>5. m.type = "PACKET_OUT"
  BY <1>4 DEF RecvPacketOut
<1>6. PICK f \in Frame, p \in Port, out \in Port \cup {FLOOD} :
          f = m.frame /\ p = m.in_port /\ out = m.out_port
  BY <1>5, DownTypes DEF Install
<1>7. f.src \in Host /\ f.dst \in Host \cup {BROADCAST}
  BY FrameType
<1>8. /\ program = "centralized" /\ f.src # f.dst /\ Knows(s, f.src)
      /\ Toward[s][f.src] = p /\ Behind(s, p, f.src)
      /\ out # FLOOD => /\ f.dst \in Host /\ Toward[s][f.dst] = out
                        /\ Behind(s, out, f.dst)
  BY <1>4, <1>5, <1>6 DEF PacketOutOK
<1>9. Remembers
  BY <1>1 DEF Remembers, Knows
<1>10. down' \in [Switch -> Seq(DownMessage)] /\ DownOK'
  BY <1>3, <1>4, <1>5, <1>9, DownShrinks
<1>11. tx \in [Switch -> [Port -> Seq(Frame)]] /\ rx \in [Switch -> [Port -> Seq(Frame)]]
  BY <1>2 DEF TypeOK
<1>12. /\ rx' \in [Switch -> [Port -> Seq(Frame)]]
       /\ tx' \in [Switch -> [Port -> Seq(Frame)]]
       /\ got' \in [Host -> Seq(Frame)]
       /\ RxOK' /\ TxOK'
  <2>1. CASE out = FLOOD
    <3>1. Leave(s, Flooded(s, f, p), rx)
      BY <1>4, <1>6, <2>1 DEF RecvPacketOut
    <3>2. /\ Flooded(s, f, p) \in [Port -> Seq(Frame)]
          /\ \A r \in Port, g \in Frame : In(g, Flooded(s, f, p)[r]) =>
                In(g, tx[s][r]) \/ (g = f /\ r # p)
      <4>1. ASSUME NEW r \in Port
            PROVE  tx[s][r] \in Seq(Frame) /\ Append(tx[s][r], f) \in Seq(Frame)
        BY <1>11, InAppend
      <4>2. ASSUME NEW r \in Port, NEW g \in Frame, In(g, Append(tx[s][r], f))
            PROVE  In(g, tx[s][r]) \/ g = f
        BY <4>1, <4>2, InAppend
      <4> QED
        BY <4>1, <4>2 DEF Flooded
    <3>3. ASSUME NEW r \in Port, NEW g \in Frame, In(g, Flooded(s, f, p)[r])
          PROVE  g.src # g.dst /\ Leaving(s, r, g)'
      <4>1. CASE In(g, tx[s][r])
        BY <1>2, <1>9, <4>1, Monotone DEF TxOK
      <4>2. CASE g = f /\ r # p
        <5>1. Leaving(s, r, f)
          BY <1>7, <1>8, <4>2, Onward DEF Leaving, Fitting
        <5> QED
          BY <1>8, <1>9, <4>2, <5>1, Monotone
      <4> QED
        BY <3>2, <3>3, <4>1, <4>2
    <3>4. \A t \in Switch, q \in Port, g \in Frame :
              In(g, rx[t][q]) => g.src # g.dst /\ Behind(t, q, g.src)' /\ Fitting(t, q, g)'
      BY <1>2, <1>9, Monotone, FrameType DEF RxOK
    <3> QED
      BY <1>2, <1>9, <1>11, <3>1, <3>2, <3>3, <3>4, LeaveKeeps
  <2>2. CASE out # FLOOD
    <3>1. /\ tx' = [tx EXCEPT ![s] = [tx[s] EXCEPT ![out] = Append(@, f)]]
          /\ UNCHANGED rx /\ UNCHANGED got /\ out \in Port
      BY <1>4, <1>6, <2>2 DEF RecvPacketOut, Queued
    <3>2. tx[s][out] \in Seq(Frame) /\ Append(tx[s][out], f) \in Seq(Frame)
      BY <1>11, <3>1, InAppend
    <3>3. /\ tx' \in [Switch -> [Port -> Seq(Frame)]]
          /\ tx'[s][out] = Append(tx[s][out], f)
          /\ \A t \in Switch, r \in Port : t # s \/ r # out => tx'[t][r] = tx[t][r]
      BY <1>11, <3>1, <3>2
    <3>4. Leaving(s, out, f)
      BY <1>8, <2>2, BackOrOnward DEF Leaving
    <3>5. TxOK'
      <4> SUFFICES ASSUME NEW t \in Switch, NEW r \in Port, NEW g \in Frame, In(g, tx'[t][r])
                   PROVE  program' = "centralized" /\ g.src # g.dst /\ Leaving(t, r, g)'
        BY DEF TxOK, In
      <4>1. CASE In(g, tx[t][r])
        BY <1>1, <1>2, <1>9, <4>1, Monotone DEF TxOK
      <4>2. CASE ~In(g, tx[t][r])
        <5>1. t = s /\ r = out
          BY <3>3, <4>2
        <5>2. g = f
          <6>1. /\ tx[s][out] \in Seq(Frame) /\ ~In(g, tx[s][out])
                /\ In(g, Append(tx[s][out], f))
            BY <3>2, <3>3, <4>2, <5>1
          <6> QED
            BY <6>1, InAppend
        <5> QED
          BY <1>1, <1>8, <1>9, <3>1, <3>4, <5>1, <5>2, Monotone
      <4> QED
        BY <4>1, <4>2
    <3>6. RxOK'
      BY <1>2, <1>9, <3>1, RestKept
    <3> QED
      BY <1>2, <3>1, <3>3, <3>5, <3>6 DEF TypeOK
  <2> QED
    BY <2>1, <2>2
<1>13. TypeOK'
  BY <1>1, <1>2, <1>10, <1>12 DEF TypeOK
<1>14. LearnedRight' /\ FromNeighbour'
  BY <1>1, <1>2 DEF LearnedRight, FromNeighbour, Knows, Behind
<1>15. UpOK'
  BY <1>1, <1>9, RestKept DEF Inv
<1>16. Ahead'
  BY <1>1, <1>8 DEF Ahead
<1> QED
  BY <1>10, <1>12, <1>13, <1>14, <1>15, <1>16 DEF Inv

\* The agent, one message of any kind.
LEMMA ReceiveInv ==
    ASSUME Inv, NEW s \in Switch, Receive(s)
    PROVE  Inv'
BY InstallInv, InsertInv, PacketOutInv DEF Receive
-----------------------------------------------------------------------------
(* The loop of main                                                        *)

\* Where the switches learn by themselves no frame waits in a transmit ring.
LEMMA NothingWaits ==
    ASSUME Inv, program = "learningswitch"
    PROVE  \A s \in Switch, p \in Port : tx[s][p] = << >>
<1> SUFFICES ASSUME NEW s \in Switch, NEW p \in Port, tx[s][p] # << >>
             PROVE  FALSE
  OBVIOUS
<1>1. tx[s][p] \in Seq(Frame)
  BY DEF Inv, TypeOK
<1>2. PICK f \in Frame : In(f, tx[s][p])
  BY <1>1, InTail
<1> QED
  BY <1>2 DEF Inv, TxOK

\* What Ahead says of one frame.
LEMMA AheadOf ==
    ASSUME Ahead, program = "learningswitch", NEW t \in Switch, NEW q \in Port,
           NEW k \in 1 .. Len(rx[t][q]), NEW g \in Frame, g = rx[t][q][k],
           g.dst \in Host, Toward[t][g.dst] = q
    PROVE  ~Knows(t, g.dst) /\ \A j \in 1 .. k - 1 : rx[t][q][j].src # g.dst
<1>1. rx[t][q][k].dst \in Host /\ Toward[t][rx[t][q][k].dst] = q
  OBVIOUS
<1>2. /\ ~Knows(t, rx[t][q][k].dst)
      /\ \A j \in 1 .. k - 1 : rx[t][q][j].src # rx[t][q][k].dst
  BY <1>1 DEF Ahead
<1> QED
  BY <1>2

\* A link goes both ways, and a host is at one end of it or the other.
LEMMA OtherEnd ==
    ASSUME NEW s \in Switch, NEW p \in Port, NEW t \in Switch, NEW q \in Port,
           <<s, p, t, q>> \in Links, NEW h \in Host
    PROVE  <<t, q, s, p>> \in Links /\ (Toward[t][h] = q <=> Toward[s][h] # p)
BY LearningNetAssumption

\* The table of s is as it was, or has the source of f where f came in.
Learns(s, p, f) ==
    /\ inports' \in [Switch -> [Host -> Port \cup {NONE}]]
    /\ \A t \in Switch, h \in Host :
          \/ inports'[t][h] = inports[t][h]
          \/ t = s /\ h = f.src /\ Toward[s][f.src] = p /\ inports'[t][h] = p

\* The controller is asked about f only where f comes from the right side.
Asks(s, p, f) ==
    \/ UNCHANGED up
    \/ /\ program = "centralized" /\ Toward[s][f.src] = p
       /\ up' = [up EXCEPT ![s] = Append(@, PacketIn(f, p))]

\* A switch that learns by itself sends f, if at all, to where its destination
\* is, or elsewhere when it does not know that.
SendsAlone(s, f, out) ==
    program = "learningswitch" =>
        \A r \in Port :
            \/ out[r] = << >>
            \/ /\ out[r] = <<f>>
               /\ f.dst \in Host /\ Toward[s][f.dst] # r => ~Knows(s, f.dst)

\* What leaves a port was waiting there or is f, and f may leave.
SendsOnly(s, f, out) ==
    \A r \in Port, g \in Frame :
        In(g, out[r]) => In(g, tx[s][r]) \/ (g = f /\ Leaving(s, r, f)')

\* A frame is taken from a port and sent on, and Ahead still holds: it is
\* flooded towards its destination only when no table on the way has it.
LEMMA AheadKept ==
    ASSUME Inv, program = "learningswitch", UNCHANGED program,
           NEW s \in Switch, NEW p \in Port, NEW f \in Frame,
           rx[s][p] # << >>, f = Head(rx[s][p]),
           NEW out \in [Port -> Seq(Frame)],
           NEW queues, queues = [rx EXCEPT ![s][p] = Tail(@)],
           Leave(s, out, queues), Learns(s, p, f), SendsAlone(s, f, out)
    PROVE  Ahead'
<1>a. \A t \in Switch, h \in Host :
          inports'[t][h] = inports[t][h] \/ (t = s /\ h = f.src)
  BY DEF Learns
<1>b. \A r \in Port :
          \/ out[r] = << >>
          \/ /\ out[r] = <<f>>
             /\ f.dst \in Host /\ Toward[s][f.dst] # r => ~Knows(s, f.dst)
  BY DEF SendsAlone
<1>1. /\ rx \in [Switch -> [Port -> Seq(Frame)]]
      /\ RxOK /\ Ahead /\ FromNeighbour
  BY DEF Inv, TypeOK
<1>2. rx[s][p] \in Seq(Frame) /\ In(f, rx[s][p]) /\ Tail(rx[s][p]) \in Seq(Frame)
  BY <1>1, InTail
<1>3. f.src \in Host /\ f.src # f.dst /\ Toward[s][f.src] = p
  BY <1>1, <1>2, FrameType DEF RxOK, Fitting
<1>4. /\ Len(rx[s][p]) \in Nat /\ Len(rx[s][p]) >= 1 /\ rx[s][p][1] = f
      /\ Len(Tail(rx[s][p])) = Len(rx[s][p]) - 1
      /\ \A i \in 1 .. Len(rx[s][p]) - 1 : Tail(rx[s][p])[i] = rx[s][p][i + 1]
  BY <1>2
<1>5. /\ queues \in [Switch -> [Port -> Seq(Frame)]]
      /\ queues[s][p] = Tail(rx[s][p])
      /\ \A t \in Switch, q \in Port : t # s \/ q # p => queues[t][q] = rx[t][q]
  BY <1>1, <1>2
\* a frame still in the queue
<1>6. ASSUME NEW t \in Switch, NEW q \in Port, NEW k \in 1 .. Len(queues[t][q]),
             NEW g \in Frame, g = queues[t][q][k], g.dst \in Host, Toward[t][g.dst] = q
      PROVE  /\ inports'[t][g.dst] = NONE
             /\ \A j \in 1 .. k - 1 : queues[t][q][j].src # g.dst
  <2>1. CASE t = s /\ q = p
    <3>1. /\ k + 1 \in 1 .. Len(rx[s][p]) /\ g = rx[s][p][k + 1]
          /\ \A j \in 1 .. k - 1 : queues[s][p][j] = rx[s][p][j + 1] /\ j + 1 \in 1 .. (k + 1) - 1
      BY <1>4, <1>5, <1>6, <2>1
    <3>2. /\ ~Knows(s, g.dst)
          /\ \A j \in 1 .. (k + 1) - 1 : rx[s][p][j].src # g.dst
      BY <1>1, <1>6, <2>1, <3>1, AheadOf
    <3>3. 1 \in 1 .. (k + 1) - 1
      BY <1>4, <1>5, <2>1
    <3>4. f.src # g.dst
      BY <1>4, <3>2, <3>3
    <3>5. inports'[t][g.dst] = NONE
      BY <1>6, <1>a, <2>1, <3>2, <3>4 DEF Knows
    <3>6. ASSUME NEW j \in 1 .. k - 1
          PROVE  queues[t][q][j].src # g.dst
      BY <2>1, <3>1, <3>2, <3>6
    <3> QED
      BY <3>5, <3>6
  <2>2. CASE ~(t = s /\ q = p)
    <3>1. queues[t][q] = rx[t][q]
      BY <1>5, <2>2
    <3>a. k \in 1 .. Len(rx[t][q]) /\ g = rx[t][q][k]
      BY <1>6, <3>1
    <3>2. /\ ~Knows(t, g.dst)
          /\ \A j \in 1 .. k - 1 : rx[t][q][j].src # g.dst
      BY <1>1, <1>6, <3>a, AheadOf
    <3>3. ~(t = s /\ g.dst = f.src)
      BY <1>3, <1>6, <2>2
    <3> QED
      BY <1>6, <1>a, <3>1, <3>2, <3>3, Zenon DEF Knows
  <2> QED
    BY <2>1, <2>2
\* the frame, where it arrives
<1>7. ASSUME NEW t \in Switch, NEW q \in Port, NEW r \in Port, <<s, r, t, q>> \in Links,
             out[r] = <<f>>, f.dst \in Host, Toward[t][f.dst] = q
      PROVE  /\ inports'[t][f.dst] = NONE
             /\ \A g \in Frame : In(g, queues[t][q]) => g.src # f.dst
  <2>1. Toward[s][f.dst] # r /\ <<t, q, s, r>> \in Links
    BY <1>7, OtherEnd
  <2>2. <<f>> # << >>
    OBVIOUS
  <2>3. ~Knows(s, f.dst)
    BY <1>7, <1>b, <2>1, <2>2
  <2>4. ~Knows(t, f.dst)
    BY <1>1, <1>7, <2>1, <2>3 DEF FromNeighbour, Behind
  <2>5. inports'[t][f.dst] = NONE
    BY <1>3, <1>7, <1>a, <2>4 DEF Knows
  <2>6. ASSUME NEW g \in Frame, In(g, queues[t][q])
        PROVE  g.src # f.dst
    <3>1. In(g, rx[t][q])
      BY <1>2, <1>5, <2>6, InTail
    <3>2. Knows(s, g.src)
      BY <1>1, <2>1, <3>1 DEF RxOK, Behind
    <3> QED
      BY <2>3, <3>2
  <2> QED
    BY <2>5, <2>6
<1>8. ASSUME NEW t \in Switch, NEW q \in Port, NEW k \in 1 .. Len(rx'[t][q]),
             rx'[t][q][k].dst \in Host, Toward[t][rx'[t][q][k].dst] = q
      PROVE  /\ inports'[t][rx'[t][q][k].dst] = NONE
             /\ \A j \in 1 .. k - 1 : rx'[t][q][j].src # rx'[t][q][k].dst
  <2> DEFINE old == queues[t][q]
             more == Arriving(s, out, t, q)
  <2>1. rx'[t][q] = old \o more
    BY DEF Leave
  <2>2. old \in Seq(Frame) /\ more \in Seq(Frame)
    <3>1. queues[t][q] \in Seq(Frame)
      BY <1>5
    <3>2. Arriving(s, out, t, q) \in Seq(Frame)
      BY ArrivingFrom
    <3> QED
      BY <3>1, <3>2
  <2>3. more = << >> \/ \E r \in Port : <<s, r, t, q>> \in Links /\ more = out[r]
    BY ArrivingFrom
  <2> HIDE DEF old, more
  <2>4. /\ Len(old) \in Nat /\ Len(more) \in Nat /\ Len(rx'[t][q]) = Len(old) + Len(more)
        /\ \A i \in 1 .. Len(old) : rx'[t][q][i] = old[i]
        /\ \A i \in 1 .. Len(more) : rx'[t][q][Len(old) + i] = more[i]
    <3> DEFINE whole == old \o more
    <3>1. /\ Len(old) \in Nat /\ Len(more) \in Nat /\ Len(whole) = Len(old) + Len(more)
          /\ \A i \in 1 .. Len(old) : whole[i] = old[i]
          /\ \A i \in 1 .. Len(more) : whole[Len(old) + i] = more[i]
      BY <2>2, InConcat
    <3> HIDE DEF whole
    <3>2. rx'[t][q] = whole
      BY <2>1 DEF whole
    <3> QED
      BY <3>1, <3>2
  <2>5. CASE k <= Len(old)
    <3>1. k \in 1 .. Len(old) /\ rx'[t][q][k] = old[k]
      BY <2>4, <2>5
    <3>2. PICK g \in Frame : g = old[k] /\ g = rx'[t][q][k]
      <4>1. old[k] \in Frame
        BY <2>2, <3>1
      <4> QED
        BY <3>1, <4>1
    <3>3. inports'[t][g.dst] = NONE /\ \A j \in 1 .. k - 1 : old[j].src # g.dst
      <4>1. g = queues[t][q][k] /\ k \in 1 .. Len(queues[t][q])
        BY <3>1, <3>2 DEF old
      <4>2. g.dst \in Host /\ Toward[t][g.dst] = q
        BY <1>8, <3>2
      <4> QED
        BY <1>6, <4>1, <4>2 DEF old
    <3>4. \A j \in 1 .. k - 1 : rx'[t][q][j] = old[j]
      BY <2>4, <3>1
    <3> QED
      BY <3>2, <3>3, <3>4
  <2>6. CASE k > Len(old)
    <3>1. more # << >>
      BY <2>4, <2>6
    <3>2. PICK r \in Port : <<s, r, t, q>> \in Links /\ more = out[r]
      BY <2>3, <3>1
    <3>3. more = <<f>> /\ out[r] = <<f>>
      BY <1>b, <3>1, <3>2
    <3>4. Len(more) = 1 /\ more[1] = f
      BY <3>3
    <3>5. k = Len(old) + 1 /\ rx'[t][q][k] = f
      BY <2>4, <2>6, <3>4
    <3>6. /\ inports'[t][f.dst] = NONE
          /\ \A g \in Frame : In(g, old) => g.src # f.dst
      BY <1>7, <1>8, <3>2, <3>3, <3>5, Zenon DEF old
    <3>7. ASSUME NEW j \in 1 .. k - 1
          PROVE  rx'[t][q][j].src # f.dst
      <4>1. j \in 1 .. Len(old) /\ rx'[t][q][j] = old[j]
        BY <2>4, <3>5
      <4>2. PICK g \in Frame : g = old[j]
        BY <2>2, <4>1
      <4> QED
        BY <3>6, <4>1, <4>2 DEF In
    <3> QED
      BY <3>5, <3>6, <3>7
  <2> QED
    BY <2>4, <2>5, <2>6
<1> QED
  BY <1>8, AheadNext

\* What the loop of main may do with frame f from port p of s: learn, ask the
\* controller, and send out on the ports of s what may leave there.
LEMMA ForwardKeeps ==
    ASSUME Inv, NEW s \in Switch, NEW p \in Port, NEW f \in Frame,
           rx[s][p] # << >>, f = Head(rx[s][p]),
           UNCHANGED <<program, installed, down, mac_to_port, sent, promised, forgot>>,
           NEW queues, queues = [rx EXCEPT ![s][p] = Tail(@)],
           NEW out \in [Port -> Seq(Frame)], Leave(s, out, queues),
           Learns(s, p, f), Asks(s, p, f), SendsAlone(s, f, out), SendsOnly(s, f, out)
    PROVE  Inv'
<1>a. /\ inports' \in [Switch -> [Host -> Port \cup {NONE}]]
      /\ \A t \in Switch, h \in Host :
            \/ inports'[t][h] = inports[t][h]
            \/ t = s /\ h = f.src /\ Toward[s][f.src] = p /\ inports'[t][h] = p
  BY DEF Learns
<1>b. \A r \in Port, g \in Frame :
          In(g, out[r]) => In(g, tx[s][r]) \/ (g = f /\ Leaving(s, r, f)')
  BY DEF SendsOnly
<1>1. UNCHANGED program /\ UNCHANGED installed /\ UNCHANGED down /\ UNCHANGED mac_to_port
      /\ UNCHANGED sent /\ UNCHANGED promised /\ UNCHANGED forgot
  OBVIOUS
<1>2. TypeOK /\ LearnedRight /\ FromNeighbour /\ RxOK /\ TxOK /\ UpOK /\ DownOK
  BY DEF Inv
<1>3. /\ rx \in [Switch -> [Port -> Seq(Frame)]]
      /\ up \in [Switch -> Seq(UpMessage)] /\ down \in [Switch -> Seq(DownMessage)]
  BY <1>2 DEF TypeOK
<1>4. p # NONE
  BY LearningNetAssumption
<1>5. Remembers
  BY <1>1, <1>4, <1>a DEF Remembers, Knows
<1>6. rx[s][p] \in Seq(Frame) /\ In(f, rx[s][p]) /\ Tail(rx[s][p]) \in Seq(Frame)
  BY <1>3, InTail
<1>7. f.src \in Host /\ f.src # f.dst /\ Behind(s, p, f.src) /\ Behind(s, p, f.src)'
  BY <1>2, <1>5, <1>6, FrameType, Monotone DEF RxOK
<1>8. /\ queues \in [Switch -> [Port -> Seq(Frame)]]
      /\ queues[s][p] = Tail(rx[s][p])
      /\ \A t \in Switch, q \in Port : t # s \/ q # p => queues[t][q] = rx[t][q]
  BY <1>3, <1>6
<1>9. ASSUME NEW t \in Switch, NEW q \in Port, NEW g \in Frame, In(g, queues[t][q])
      PROVE  g.src # g.dst /\ Behind(t, q, g.src)' /\ Fitting(t, q, g)'
  <2>1. In(g, rx[t][q])
    BY <1>6, <1>8, <1>9, InTail
  <2> QED
    BY <1>2, <1>5, <2>1, Monotone, FrameType DEF RxOK
<1>10. ASSUME NEW r \in Port, NEW g \in Frame, In(g, out[r])
       PROVE  g.src # g.dst /\ Leaving(s, r, g)'
  <2>1. CASE In(g, tx[s][r])
    BY <1>2, <1>5, <2>1, Monotone DEF TxOK
  <2>2. CASE g = f /\ Leaving(s, r, f)'
    BY <1>7, <2>2
  <2> QED
    BY <1>10, <1>b, <2>1, <2>2
<1>11. /\ rx' \in [Switch -> [Port -> Seq(Frame)]]
       /\ tx' \in [Switch -> [Port -> Seq(Frame)]]
       /\ got' \in [Host -> Seq(Frame)]
       /\ RxOK' /\ TxOK'
  BY <1>2, <1>5, <1>8, <1>9, <1>10, LeaveKeeps
<1>12. up' \in [Switch -> Seq(UpMessage)] /\ UpOK'
  <2>1. CASE UNCHANGED up
    BY <1>2, <1>3, <1>5, <2>1, RestKept
  <2>2. CASE /\ program = "centralized" /\ Toward[s][f.src] = p
             /\ up' = [up EXCEPT ![s] = Append(@, PacketIn(f, p))]
    <3>1. PICK m \in UpMessage : m = PacketIn(f, p)
      BY <1>7, MessagesMade
    <3>2. m.type = "PACKET_IN" /\ m.frame = f /\ m.in_port = p
      BY <3>1 DEF PacketIn
    <3>3. up[s] \in Seq(UpMessage) /\ Append(up[s], m) \in Seq(UpMessage)
      BY <1>3, InAppend
    <3>4. /\ up' \in [Switch -> Seq(UpMessage)] /\ up'[s] = Append(up[s], m)
          /\ \A t \in Switch : t # s => up'[t] = up[t]
      BY <1>3, <2>2, <3>1, <3>3
    <3>5. UpMessageOK(s, m)'
      BY <1>1, <1>7, <2>2, <3>2 DEF UpMessageOK
    <3>6. ASSUME NEW t \in Switch, NEW n \in UpMessage, In(n, up'[t])
          PROVE  UpMessageOK(t, n)'
      <4>1. CASE In(n, up[t])
        BY <1>2, <1>5, <4>1, UpKept
      <4>2. CASE ~In(n, up[t])
        <5>1. t = s /\ ~In(n, up[s]) /\ In(n, Append(up[s], m))
          BY <3>4, <3>6, <4>2
        <5>2. n = m
          BY <3>3, <5>1, InAppend
        <5> QED
          BY <3>5, <5>1, <5>2
      <4> QED
        BY <4>1, <4>2
    <3>7. UpOK'
      BY <3>6 DEF UpOK, UpMessageOK, In
    <3> QED
      BY <3>4, <3>7
  <2> QED
    BY <2>1, <2>2 DEF Asks
<1>13. TypeOK'
  BY <1>1, <1>2, <1>11, <1>12, <1>a DEF TypeOK
<1>14. LearnedRight'
  <2> SUFFICES ASSUME NEW t \in Switch, NEW h \in Host
               PROVE  /\ inports'[t][h] \in {NONE, Toward[t][h]}
                      /\ mac_to_port'[t][h] \in {NONE, Toward[t][h]}
    BY DEF LearnedRight
  <2> QED
    BY <1>1, <1>2, <1>a DEF LearnedRight
<1>15. FromNeighbour'
  <2> SUFFICES ASSUME NEW t \in Switch, NEW h \in Host,
                      Knows(t, h)' \/ mac_to_port'[t][h] # NONE
               PROVE  Behind(t, Toward[t][h], h)'
    BY DEF FromNeighbour
  <2>1. CASE Knows(t, h) \/ mac_to_port[t][h] # NONE
    <3>1. Behind(t, Toward[t][h], h) /\ Toward[t][h] \in Port
      BY <1>2, <2>1, LearningNetAssumption DEF FromNeighbour
    <3> QED
      BY <1>5, <3>1, Monotone
  <2>2. CASE t = s /\ h = f.src /\ Toward[s][f.src] = p
    BY <1>7, <2>2
  <2> QED
    BY <1>1, <1>a, <2>1, <2>2 DEF Knows
<1>16. DownOK'
  BY <1>1, <1>2, <1>3, <1>5, RestKept
<1>17. Ahead'
  <2>1. CASE program = "learningswitch"
    BY <2>1, AheadKept
  <2>2. CASE program # "learningswitch"
    BY <2>2 DEF Ahead
  <2> QED
    BY <2>1, <2>2
<1> QED
  BY <1>11, <1>12, <1>13, <1>14, <1>15, <1>16, <1>17 DEF Inv

\* One frame in the loop of main: what the program returns is a port behind
\* which the frame's destination is, or FLOOD where that is not known.
LEMMA ForwardInv ==
    ASSUME Inv, NEW s \in Switch, NEW p \in Port, Forward(s, p)
    PROVE  Inv'
<1>1. /\ rx[s][p] # << >>
      /\ UNCHANGED <<program, installed, down, mac_to_port, sent, promised, forgot>>
  BY DEF Forward
<1>2. TypeOK /\ LearnedRight /\ FromNeighbour /\ RxOK /\ TxOK /\ Ahead
  BY DEF Inv
<1>3. /\ rx \in [Switch -> [Port -> Seq(Frame)]] /\ tx \in [Switch -> [Port -> Seq(Frame)]]
      /\ inports \in [Switch -> [Host -> Port \cup {NONE}]]
      /\ program \in {"learningswitch", "centralized"}
  BY <1>2 DEF TypeOK
<1>4. PICK f \in Frame : f = Head(rx[s][p]) /\ In(f, rx[s][p]) /\ f = rx[s][p][1]
                         /\ 1 \in 1 .. Len(rx[s][p])
  <2>1. rx[s][p] \in Seq(Frame) /\ Head(rx[s][p]) = rx[s][p][1] /\ 1 \in 1 .. Len(rx[s][p])
    BY <1>1, <1>3
  <2> QED
    BY <1>1, <2>1, InTail
<1>5. /\ f.src \in Host /\ f.dst \in Host \cup {BROADCAST} /\ f.src # f.dst
      /\ Behind(s, p, f.src) /\ Fitting(s, p, f)
      /\ BROADCAST \notin Host
  BY <1>2, <1>4, FrameType, LearningNetAssumption DEF RxOK
<1>6. NONE \notin Port /\ FLOOD \notin Port /\ CONTROLLER \notin Port /\ FLOOD # CONTROLLER
  BY LearningNetAssumption
<1>7. PICK queues : queues = [rx EXCEPT ![s][p] = Tail(@)]
  OBVIOUS
<1>8. program = "learningswitch" => Toward[s][f.src] = p /\ \A r \in Port : tx[s][r] = << >>
  BY <1>5, NothingWaits DEF Fitting
<1>9. tx[s] \in [Port -> Seq(Frame)] /\ \A r \in Port : tx[s][r] \in Seq(Frame)
  BY <1>3
<1>10. CASE s \notin installed
  <2>1. Leave(s, tx[s], queues) /\ UNCHANGED inports /\ UNCHANGED up
    BY <1>4, <1>7, <1>10 DEF Forward
  <2>2. Learns(s, p, f) /\ Asks(s, p, f)
    BY <1>3, <2>1 DEF Learns, Asks
  <2>3. SendsAlone(s, f, tx[s]) /\ SendsOnly(s, f, tx[s])
    BY <1>8 DEF SendsAlone, SendsOnly
  <2> QED
    BY <1>1, <1>4, <1>7, <1>9, <2>1, <2>2, <2>3, ForwardKeeps
<1>11. CASE s \in installed
  <2>1. PICK table \in [Host -> Port \cup {NONE}] :
            /\ table = Learned(s, f, p)
            /\ \A h \in Host : h # f.src => table[h] = inports[s][h]
            /\ program = "learningswitch" => table[f.src] = p
            /\ program # "learningswitch" => table = inports[s]
    <3>1. CASE program = "learningswitch"
      <4>1. /\ Learned(s, f, p) = [inports[s] EXCEPT ![f.src] = p]
            /\ Learned(s, f, p) \in [Host -> Port \cup {NONE}]
        BY <1>3, <3>1 DEF Learned
      <4> QED
        BY <1>3, <1>5, <3>1, <4>1
    <3>2. CASE program # "learningswitch"
      <4>1. Learned(s, f, p) = inports[s] /\ inports[s] \in [Host -> Port \cup {NONE}]
        BY <1>3, <3>2 DEF Learned
      <4> QED
        BY <3>2, <4>1
    <3> QED
      BY <3>1, <3>2
  <2>2. PICK verdict : verdict = Verdict(f, table)
    OBVIOUS
  <2>3. /\ inports' = [inports EXCEPT ![s] = table]
        /\ verdict = CONTROLLER => /\ up' = [up EXCEPT ![s] = Append(@, PacketIn(f, p))]
                                   /\ Leave(s, tx[s], queues)
        /\ verdict # CONTROLLER =>
              /\ Leave(s, IF verdict = FLOOD THEN Flooded(s, f, p)
                                             ELSE Queued(s, f, verdict), queues)
              /\ UNCHANGED up
    BY <1>4, <1>7, <1>11, <2>1, <2>2 DEF Forward
  <2>4. Learns(s, p, f) /\ inports'[s] = table
    <3>1. /\ inports' \in [Switch -> [Host -> Port \cup {NONE}]]
          /\ inports'[s] = table
          /\ \A t \in Switch : t # s => inports'[t] = inports[t]
      BY <1>3, <2>1, <2>3
    <3>2. ASSUME NEW h \in Host
          PROVE  \/ table[h] = inports[s][h]
                 \/ h = f.src /\ Toward[s][f.src] = p /\ table[h] = p
      BY <1>8, <2>1
    <3> QED
      BY <3>1, <3>2 DEF Learns
  <2>5. f.dst \in Host => table[f.dst] = inports[s][f.dst]
    BY <1>5, <2>1
  <2>6. CASE verdict = CONTROLLER
    <3>1. program = "centralized"
      BY <1>3, <1>6, <2>2, <2>6, <1>5, <2>1 DEF Verdict
    <3>2. ~(f.dst \in Host /\ Knows(s, f.src) /\ Knows(s, f.dst))
      BY <1>3, <1>5, <1>6, <2>1, <2>2, <2>5, <2>6, <3>1 DEF Verdict, Knows
    <3>3. Toward[s][f.src] = p
      BY <1>5, <3>2 DEF Fitting
    <3>4. Asks(s, p, f) /\ Leave(s, tx[s], queues)
      BY <2>3, <2>6, <3>1, <3>3 DEF Asks
    <3>5. SendsAlone(s, f, tx[s]) /\ SendsOnly(s, f, tx[s])
      BY <1>8 DEF SendsAlone, SendsOnly
    <3> QED
      BY <1>1, <1>4, <1>7, <1>9, <2>4, <3>4, <3>5, ForwardKeeps
  <2>7. CASE verdict = FLOOD
    <3>1. /\ program = "learningswitch"
          /\ f.dst \in Host => ~Knows(s, f.dst)
      BY <1>3, <1>5, <1>6, <2>1, <2>2, <2>5, <2>7 DEF Verdict, Knows
    <3>2. PICK out : out = Flooded(s, f, p)
      OBVIOUS
    <3>3. Leave(s, out, queues) /\ UNCHANGED up
      BY <1>6, <2>3, <2>7, <3>2
    <3>4. ASSUME NEW r \in Port
          PROVE  /\ out[r] = IF r # p THEN <<f>> ELSE << >>
                 /\ out[r] \in Seq(Frame)
      <4>1. Append(<< >>, f) = <<f>> /\ <<f>> \in Seq(Frame) /\ << >> \in Seq(Frame)
        OBVIOUS
      <4> QED
        BY <1>8, <3>1, <3>2, <4>1 DEF Flooded
    <3>5. out \in [Port -> Seq(Frame)]
      BY <3>2, <3>4 DEF Flooded
    <3>6. ASSUME NEW r \in Port, NEW g \in Frame, In(g, out[r])
          PROVE  g = f /\ Leaving(s, r, f)'
      <4>1. g = f /\ r # p
        BY <3>4, <3>6 DEF In
      <4>2. Knows(s, f.src)'
        BY <1>5, <1>6, <2>1, <2>4, <3>1 DEF Knows
      <4>3. \A t \in Switch, q \in Port : <<s, r, t, q>> \in Links => Fitting(t, q, f)'
        BY <1>8, <3>1, <4>1, Onward DEF Fitting
      <4> QED
        BY <4>1, <4>2, <4>3 DEF Leaving
    <3>7. Asks(s, p, f) /\ SendsOnly(s, f, out) /\ SendsAlone(s, f, out)
      BY <3>1, <3>3, <3>4, <3>6 DEF Asks, SendsOnly, SendsAlone
    <3> QED
      BY <1>1, <1>4, <1>7, <2>4, <3>3, <3>5, <3>7, ForwardKeeps
  <2>8. CASE verdict # CONTROLLER /\ verdict # FLOOD
    <3>1. /\ f.dst \in Host /\ verdict \in Port /\ verdict = inports[s][f.dst]
          /\ program = "centralized" => Knows(s, f.src)
      BY <1>3, <1>5, <1>6, <2>1, <2>2, <2>5, <2>8 DEF Verdict, Knows
    <3>2. Toward[s][f.dst] = verdict /\ Knows(s, f.dst)
      BY <1>2, <1>6, <3>1 DEF LearnedRight, Knows
    <3>3. PICK out : out = Queued(s, f, verdict)
      OBVIOUS
    <3>4. Leave(s, out, queues) /\ UNCHANGED up
      BY <2>3, <2>8, <3>3
    <3>5. Append(tx[s][verdict], f) \in Seq(Frame)
      BY <1>9, <3>1, InAppend
    <3>6. /\ out \in [Port -> Seq(Frame)]
          /\ out[verdict] = Append(tx[s][verdict], f)
          /\ \A r \in Port : r # verdict => out[r] = tx[s][r]
      BY <1>9, <3>1, <3>3, <3>5 DEF Queued
    <3>7. Leaving(s, verdict, f)'
      <4>1. CASE program = "learningswitch"
        <5>1. verdict # p
          BY <1>2, <1>4, <3>1, <3>2, <4>1, AheadOf
        <5>2. \A t \in Switch, q \in Port : <<s, verdict, t, q>> \in Links => Fitting(t, q, f)'
          BY <1>8, <3>1, <4>1, <5>1, Onward DEF Fitting
        <5>3. Knows(s, f.src)'
          BY <1>5, <1>6, <2>1, <2>4, <4>1 DEF Knows
        <5> QED
          BY <5>2, <5>3 DEF Leaving
      <4>2. CASE program = "centralized"
        <5>1. Knows(s, f.src)
          BY <3>1, <4>2
        <5>2. Behind(s, Toward[s][f.src], f.src) /\ Behind(s, Toward[s][f.dst], f.dst)
          BY <1>2, <1>5, <3>1, <3>2, <5>1 DEF FromNeighbour
        <5>3. Leaving(s, verdict, f)
          BY <3>1, <3>2, <4>2, <5>1, <5>2, BackOrOnward DEF Leaving
        <5>4. Remembers
          <6>1. p # NONE /\ program' = program
            BY <1>1, <1>6
          <6> QED
            BY <2>4, <6>1 DEF Remembers, Knows, Learns
        <5> QED
          BY <3>1, <5>3, <5>4, Monotone
      <4> QED
        BY <1>3, <4>1, <4>2
    <3>8. ASSUME NEW r \in Port, NEW g \in Frame, In(g, out[r])
          PROVE  In(g, tx[s][r]) \/ (g = f /\ Leaving(s, r, f)')
      <4>1. CASE r = verdict
        <5>1. tx[s][verdict] \in Seq(Frame) /\ In(g, Append(tx[s][verdict], f))
          BY <1>9, <3>1, <3>6, <3>8, <4>1
        <5>2. In(g, tx[s][verdict]) \/ g = f
          BY <5>1, InAppend
        <5> QED
          BY <3>7, <4>1, <5>2
      <4>2. CASE r # verdict
        BY <3>6, <3>8, <4>2
      <4> QED
        BY <4>1, <4>2
    <3>9. ASSUME program = "learningswitch", NEW r \in Port
          PROVE  out[r] = << >> \/ (out[r] = <<f>> /\ Toward[s][f.dst] = r)
      <4>1. Append(<< >>, f) = <<f>>
        OBVIOUS
      <4> QED
        BY <1>8, <3>1, <3>2, <3>6, <3>9, <4>1
    <3>10. Asks(s, p, f) /\ SendsOnly(s, f, out) /\ SendsAlone(s, f, out)
      BY <3>4, <3>8, <3>9 DEF Asks, SendsOnly, SendsAlone
    <3> QED
      BY <1>1, <1>4, <1>7, <2>4, <3>4, <3>6, <3>10, ForwardKeeps
  <2> QED
    BY <2>6, <2>7, <2>8
<1> QED
  BY <1>10, <1>11
-----------------------------------------------------------------------------
(* Who asks before it is told                                              *)

\* What asks for a host is in the sequence before all that tells of the host,
\* and the host is in unheard.
Fresh(seq, asks, tells, unheard) ==
    \A k \in 1 .. Len(seq), d \in Host :
        <<seq[k], d>> \in asks =>
            d \in unheard /\ \A j \in 1 .. k - 1 : <<seq[j], d>> \notin tells

\* What is first in a sequence asks for a host of which nothing was heard; the
\* rest still does after it.
LEMMA FreshTail ==
    ASSUME NEW S, NEW seq \in Seq(S), seq # << >>, NEW asks, NEW tells, NEW C, NEW D,
           Fresh(seq, asks, tells, C),
           \A d \in Host : d \in C /\ <<Head(seq), d>> \notin tells => d \in D
    PROVE  /\ Fresh(Tail(seq), asks, tells, D)
           /\ \A d \in Host : <<Head(seq), d>> \in asks => d \in C
<1>1. /\ Len(seq) \in Nat /\ Len(seq) >= 1 /\ Head(seq) = seq[1]
      /\ Len(Tail(seq)) = Len(seq) - 1
      /\ \A i \in 1 .. Len(seq) - 1 : Tail(seq)[i] = seq[i + 1]
  OBVIOUS
<1>2. ASSUME NEW k \in 1 .. Len(Tail(seq)), NEW d \in Host, <<Tail(seq)[k], d>> \in asks
      PROVE  d \in D /\ \A j \in 1 .. k - 1 : <<Tail(seq)[j], d>> \notin tells
  <2>1. k + 1 \in 1 .. Len(seq) /\ Tail(seq)[k] = seq[k + 1]
    BY <1>1
  <2>2. d \in C /\ \A j \in 1 .. (k + 1) - 1 : <<seq[j], d>> \notin tells
    BY <1>2, <2>1 DEF Fresh
  <2>3. <<seq[1], d>> \notin tells
    BY <1>1, <2>2
  <2>4. ASSUME NEW j \in 1 .. k - 1
        PROVE  <<Tail(seq)[j], d>> \notin tells
    <3>1. j + 1 \in 1 .. (k + 1) - 1 /\ Tail(seq)[j] = seq[j + 1]
      BY <1>1
    <3> QED
      BY <2>2, <3>1
  <2> QED
    BY <1>1, <2>2, <2>3, <2>4
<1>3. \A d \in Host : <<Head(seq), d>> \in asks => d \in C
  <2>1. 1 \in 1 .. Len(seq)
    BY <1>1
  <2> QED
    BY <1>1, <2>1 DEF Fresh
<1> QED
  BY <1>2, <1>3 DEF Fresh

\* A sequence stays as it is, while something is heard of.
LEMMA FreshStays ==
    ASSUME NEW S, NEW seq \in Seq(S), NEW asks, NEW tells, NEW C, NEW D,
           Fresh(seq, asks, tells, C),
           \A d \in Host, x \in S : In(x, seq) /\ <<x, d>> \in asks /\ d \in C => d \in D
    PROVE  Fresh(seq, asks, tells, D)
<1>1. \A k \in 1 .. Len(seq) : seq[k] \in S /\ In(seq[k], seq)
  BY DEF In
<1> QED
  BY <1>1 DEF Fresh

\* What is added to a sequence asks for hosts of which nothing was heard before it.
LEMMA FreshMore ==
    ASSUME NEW S, NEW seq \in Seq(S), NEW more \in Seq(S), NEW asks, NEW tells, NEW C,
           Fresh(seq, asks, tells, C),
           \A x \in S, d \in Host : In(x, more) /\ <<x, d>> \in asks =>
               d \in C /\ \A y \in S : In(y, seq) \/ In(y, more) => <<y, d>> \notin tells
    PROVE  Fresh(seq \o more, asks, tells, C)
<1> DEFINE whole == seq \o more
<1>1. /\ Len(seq) \in Nat /\ Len(more) \in Nat /\ Len(whole) = Len(seq) + Len(more)
      /\ whole \in Seq(S)
      /\ \A i \in 1 .. Len(seq) : whole[i] = seq[i]
      /\ \A i \in 1 .. Len(more) : whole[Len(seq) + i] = more[i]
  BY InConcat
<1>2. \A x : In(x, whole) => In(x, seq) \/ In(x, more)
  BY InConcat
<1> HIDE DEF whole
<1>3. ASSUME NEW k \in 1 .. Len(whole), NEW d \in Host, <<whole[k], d>> \in asks
      PROVE  d \in C /\ \A j \in 1 .. k - 1 : <<whole[j], d>> \notin tells
  <2>1. CASE k <= Len(seq)
    <3>1. k \in 1 .. Len(seq) /\ \A j \in 1 .. k : whole[j] = seq[j]
      BY <1>1, <2>1
    <3>2. <<seq[k], d>> \in asks
      BY <1>3, <3>1
    <3>3. d \in C /\ \A j \in 1 .. k - 1 : <<seq[j], d>> \notin tells
      BY <3>1, <3>2 DEF Fresh
    <3> QED
      BY <3>1, <3>3
  <2>2. CASE k > Len(seq)
    <3>1. k - Len(seq) \in 1 .. Len(more) /\ k = Len(seq) + (k - Len(seq))
      BY <1>1, <2>2
    <3>2. whole[k] = more[k - Len(seq)]
      BY <1>1, <3>1
    <3>3. whole[k] \in S /\ In(whole[k], more)
      BY <1>1, <3>1, <3>2 DEF In
    <3>4. d \in C /\ \A y \in S : In(y, seq) \/ In(y, more) => <<y, d>> \notin tells
      BY <1>3, <3>3
    <3>5. ASSUME NEW j \in 1 .. k - 1
          PROVE  <<whole[j], d>> \notin tells
      <4>1. j \in 1 .. Len(whole)
        BY <1>1
      <4>2. whole[j] \in S /\ In(whole[j], whole)
        BY <1>1, <4>1 DEF In
      <4> QED
        BY <1>2, <3>4, <4>2
    <3> QED
      BY <3>4, <3>5
  <2> QED
    BY <1>1, <2>1, <2>2
<1>4. Fresh(whole, asks, tells, C)
  BY <1>3 DEF Fresh
<1> QED
  BY <1>4 DEF whole

-----------------------------------------------------------------------------
(* On the way, while the controller forgets nothing                        *)

\* A frame that comes in where its destination is makes the switch ask for it,
\* and tells where its source is.
RxAsks(t, q) == {x \in Frame \X Host : x[1].dst = x[2] /\ Toward[t][x[2]] = q}
RxTells == {x \in Frame \X Host : x[1].src = x[2]}

\* So does the switch with the controller,
UpAsks(t) ==
    {x \in UpMessage \X Host : /\ x[1].type = "PACKET_IN"
                               /\ x[1].frame.dst = x[2] /\ Toward[t][x[2]] = x[1].in_port}
UpTells == {x \in UpMessage \X Host : x[1].type = "PACKET_IN" /\ x[1].frame.src = x[2]}

\* and the controller, which has the frame flooded and an entry inserted.
DownAsks ==
    {x \in DownMessage \X Host : /\ x[1].type = "PACKET_OUT"
                                 /\ x[1].out_port = FLOOD /\ x[1].frame.dst = x[2]}
DownTells == {x \in DownMessage \X Host : x[1].type = "INSERT" /\ x[1].key = x[2]}

Unlearned(t) == {d \in Host : ~Knows(t, d)}
Untold(t) == {d \in Host : mac_to_port[t][d] = NONE}
Unheard(t) ==
    {d \in Unlearned(t) \cap Untold(t) :
        \A m \in UpMessage : In(m, up[t]) => <<m, d>> \notin UpTells}

Asking(t) ==
    /\ \A q \in Port : Fresh(rx[t][q], RxAsks(t, q), RxTells, Unheard(t))
    /\ Fresh(up[t], UpAsks(t), UpTells, Untold(t))
    /\ Fresh(down[t], DownAsks, DownTells, Unlearned(t))

\* What a switch knows, or is about to, the controller knows, too.
Told(t) ==
    \A h \in Host :
        \/ Knows(t, h)
        \/ \E m \in DownMessage : In(m, down[t]) /\ <<m, h>> \in DownTells
        => mac_to_port[t][h] # NONE

RxAway == \A t \in Switch, q \in Port, f \in Frame : In(f, rx[t][q]) => Toward[t][f.src] = q

AwayTo(s, p, f) == Toward[s][f.src] # p /\ f.dst \in Host /\ Toward[s][f.dst] = p

TxAway == \A s \in Switch, p \in Port, f \in Frame : In(f, tx[s][p]) => AwayTo(s, p, f)

DownAway ==
    \A s \in Switch, m \in DownMessage :
        In(m, down[s]) /\ m.type = "PACKET_OUT" /\ m.out_port # FLOOD =>
            Toward[s][m.frame.src] # m.out_port

\* No frame goes back to where it came from, because the switches do not know,
\* nor will be told before they flood it, that its destination is there.
Way == RxAway /\ TxAway /\ DownAway /\ \A t \in Switch : Asking(t) /\ Told(t)

WayInv == program = "centralized" /\ ~forgot => Way

LEMMA RxAsking ==
    ASSUME NEW f \in Frame, NEW d \in Host, NEW t \in Switch, NEW q \in Port
    PROVE  /\ <<f, d>> \in RxAsks(t, q) <=> f.dst = d /\ Toward[t][d] = q
           /\ <<f, d>> \in RxTells <=> f.src = d
BY DEF RxAsks, RxTells

LEMMA UpAsking ==
    ASSUME NEW m \in UpMessage, NEW d \in Host, NEW t \in Switch
    PROVE  /\ <<m, d>> \in UpAsks(t) <=> /\ m.type = "PACKET_IN"
                                         /\ m.frame.dst = d /\ Toward[t][d] = m.in_port
           /\ <<m, d>> \in UpTells <=> m.type = "PACKET_IN" /\ m.frame.src = d
BY DEF UpAsks, UpTells

LEMMA DownAsking ==
    ASSUME NEW m \in DownMessage, NEW d \in Host
    PROVE  /\ <<m, d>> \in DownAsks <=> /\ m.type = "PACKET_OUT"
                                        /\ m.out_port = FLOOD /\ m.frame.dst = d
           /\ <<m, d>> \in DownTells <=> m.type = "INSERT" /\ m.key = d
BY DEF DownAsks, DownTells

\* The frames of these queues came from the ports behind which their sources
\* are, and those going out of s leave through others.
CameAway(queues) ==
    \A t \in Switch, q \in Port, g \in Frame : In(g, queues[t][q]) => Toward[t][g.src] = q

Outward(s, out) == \A r \in Port, g \in Frame : In(g, out[r]) => Toward[s][g.src] # r

\* What leaves s in the right direction arrives so.
LEMMA RxAwayLeaves ==
    ASSUME TypeOK, NEW s \in Switch,
           NEW out \in [Port -> Seq(Frame)],
           NEW queues \in [Switch -> [Port -> Seq(Frame)]],
           Leave(s, out, queues), CameAway(queues), Outward(s, out)
    PROVE  RxAway'
<1> USE DEF CameAway, Outward
<1> SUFFICES ASSUME NEW t \in Switch, NEW q \in Port, NEW g \in Frame, In(g, rx'[t][q])
             PROVE  Toward[t][g.src] = q
  BY DEF RxAway
<1>1. Arriving(s, out, t, q) \in Seq(Frame) /\ queues[t][q] \in Seq(Frame)
  BY ArrivingFrom
<1>2. PICK old \in Seq(Frame), more \in Seq(Frame) :
          old = queues[t][q] /\ more = Arriving(s, out, t, q)
  BY <1>1
<1>3. rx'[t][q] = old \o more
  BY <1>2 DEF Leave
<1>4. In(g, old) \/ In(g, more)
  BY <1>3, InConcat
<1>5. CASE In(g, old)
  BY <1>2, <1>5
<1>6. CASE In(g, more)
  <2>1. more # << >>
    BY <1>6 DEF In
  <2>2. PICK r \in Port : <<s, r, t, q>> \in Links /\ more = out[r]
    <3>1. Arriving(s, out, t, q) # << >>
      BY <1>2, <2>1
    <3>2. PICK r \in Port : <<s, r, t, q>> \in Links /\ Arriving(s, out, t, q) = out[r]
      BY <3>1, ArrivingFrom, Zenon
    <3> QED
      BY <1>2, <3>2
  <2>3. Toward[s][g.src] # r
    BY <1>6, <2>2
  <2> QED
    BY <2>2, <2>3, Onward
<1> QED
  BY <1>4, <1>5, <1>6

\* No frame in another transmit ring has moved.
LEMMA TxAwayLeaves ==
    ASSUME TypeOK, TxAway, NEW s \in Switch, NEW out, NEW queues, Leave(s, out, queues)
    PROVE  TxAway'
<1> SUFFICES ASSUME NEW t \in Switch, NEW p \in Port, NEW f \in Frame, In(f, tx'[t][p])
             PROVE  AwayTo(t, p, f)
  BY DEF TxAway, AwayTo
<1>1. tx \in [Switch -> [Port -> Seq(Frame)]]
  BY DEF TypeOK
<1>2. tx'[s][p] = << >> /\ \A u \in Switch : u # s => tx'[u] = tx[u]
  BY <1>1 DEF Leave
<1>3. t # s
  BY <1>2 DEF In
<1> QED
  BY <1>2, <1>3 DEF TxAway

\* A frame that leaves s although its destination is behind the other end of the
\* link asks there, and no one has been heard of there.
LEMMA AskingLeaves ==
    ASSUME TypeOK, NEW s \in Switch,
           NEW out \in [Port -> Seq(Frame)],
           NEW queues \in [Switch -> [Port -> Seq(Frame)]],
           Leave(s, out, queues),
           NEW t \in Switch, NEW q \in Port, NEW C,
           Fresh(queues[t][q], RxAsks(t, q), RxTells, C),
           \A r \in Port, g \in Frame :
               <<s, r, t, q>> \in Links /\ In(g, out[r]) /\ g.dst \in Host /\ Toward[s][g.dst] # r =>
                   /\ g.dst \in C
                   /\ \A y \in Frame : In(y, queues[t][q]) \/ In(y, out[r]) => y.src # g.dst
    PROVE  Fresh(rx'[t][q], RxAsks(t, q), RxTells, C)
<1>1. Arriving(s, out, t, q) \in Seq(Frame) /\ queues[t][q] \in Seq(Frame)
  BY ArrivingFrom
<1>2. PICK old \in Seq(Frame), more \in Seq(Frame) :
          old = queues[t][q] /\ more = Arriving(s, out, t, q)
  BY <1>1
<1>3. rx'[t][q] = old \o more
  BY <1>2 DEF Leave
<1>4. ASSUME NEW x \in Frame, NEW d \in Host, In(x, more), <<x, d>> \in RxAsks(t, q)
      PROVE  d \in C /\ \A y \in Frame : In(y, old) \/ In(y, more) => <<y, d>> \notin RxTells
  <2>1. more # << >>
    BY <1>4 DEF In
  <2>2. PICK r \in Port : <<s, r, t, q>> \in Links /\ more = out[r]
    <3>1. Arriving(s, out, t, q) # << >>
      BY <1>2, <2>1
    <3>2. PICK r \in Port : <<s, r, t, q>> \in Links /\ Arriving(s, out, t, q) = out[r]
      BY <3>1, ArrivingFrom
    <3> QED
      BY <1>2, <3>2
  <2>3. x.dst = d /\ Toward[t][d] = q
    BY <1>4, RxAsking
  <2>4. Toward[s][d] # r
    <3>1. <<s, r, t, q>> \in Links
      BY <2>2
    <3>2. \A u, v \in Switch, i, j \in Port, h \in Host :
              <<u, i, v, j>> \in Links => (Toward[v][h] = j <=> Toward[u][h] # i)
      BY ONLY LearningNetAssumption, Zenon
    <3> QED
      BY <2>3, <3>1, <3>2
  <2>5. d \in C /\ \A y \in Frame : In(y, old) \/ In(y, more) => y.src # d
    BY <1>2, <1>4, <2>2, <2>3, <2>4
  <2> QED
    BY <2>5, RxAsking
<1>5. Fresh(old \o more, RxAsks(t, q), RxTells, C)
  BY <1>2, <1>4, FreshMore
<1> QED
  BY <1>3, <1>5

LEMMA InitWay == Init => WayInv
<1> SUFFICES ASSUME Init, program = "centralized"
             PROVE  Way
  BY DEF WayInv
<1>1. /\ rx = [s \in Switch |-> [p \in Port |-> << >>]]
      /\ tx = [s \in Switch |-> [p \in Port |-> << >>]]
      /\ inports = Unknown
  BY DEF Init
<1>2. \A s \in Switch : down[s] = << >>
  BY DEF Init
<1>3. \A s \in Switch : up[s] = << >> \/ up[s] = <<Hello>>
  BY DEF Init
<1>4. RxAway /\ TxAway /\ DownAway
  BY <1>1, <1>2 DEF RxAway, TxAway, DownAway, In
<1>5. ASSUME NEW t \in Switch
      PROVE  Asking(t) /\ Told(t)
  <2>1. \A q \in Port : Fresh(rx[t][q], RxAsks(t, q), RxTells, Unheard(t))
    BY <1>1 DEF Fresh
  <2>2. Fresh(down[t], DownAsks, DownTells, Unlearned(t))
    BY <1>2 DEF Fresh
  <2>3. Fresh(up[t], UpAsks(t), UpTells, Untold(t))
    <3>1. \A d \in Host : <<Hello, d>> \notin UpAsks(t)
      BY DEF UpAsks, Hello
    <3>2. \A k \in 1 .. Len(up[t]) : up[t][k] = Hello
      BY <1>3
    <3> QED
      BY <3>1, <3>2 DEF Fresh
  <2>4. Told(t)
    <3>1. \A h \in Host : ~Knows(t, h)
      BY <1>1 DEF Knows, Unknown
    <3>2. \A m : ~In(m, down[t])
      BY <1>2 DEF In
    <3> QED
      BY <3>1, <3>2 DEF Told
  <2> QED
    BY <2>1, <2>2, <2>3, <2>4 DEF Asking
<1> QED
  BY <1>4, <1>5 DEF Way

\* A host sends: behind its port there is no one else to ask for.
LEMMA SendWay ==
    ASSUME Inv, Way, NEW h \in Host, NEW dst \in Host \cup {BROADCAST}, h # dst, Send(h, dst)
    PROVE  Way'
<1>1. PICK s \in Switch, p \in Port : s = At[h][1] /\ p = At[h][2]
  BY LearningNetAssumption
<1>2. Toward[s][h] = p /\ \A g \in Host : Toward[s][g] = p => g = h
  BY <1>1, LearningNetAssumption
<1>3. rx \in [Switch -> [Port -> Seq(Frame)]] /\ sent \in Seq(Frame)
  BY DEF Inv, TypeOK
<1>4. PICK f \in Frame : f = [src |-> h, dst |-> dst, id |-> Len(sent) + 1]
  <2>1. Len(sent) \in Nat /\ Len(sent) < MaxFrames /\ MaxFrames \in Nat
    BY <1>3, LearningNetAssumption DEF Send
  <2>2. Len(sent) + 1 \in 1 .. MaxFrames
    BY <2>1
  <2> QED
    BY <2>2 DEF Frame
<1>5. f.src = h /\ f.dst = dst
  BY <1>4
<1>6. /\ rx' = [rx EXCEPT ![s][p] = Append(@, f)]
      /\ UNCHANGED inports /\ UNCHANGED tx /\ UNCHANGED up /\ UNCHANGED down
      /\ UNCHANGED mac_to_port
  BY <1>1, <1>4 DEF Send, switch
<1>7. PICK more \in Seq(Frame) : more = <<f>> /\ \A x : In(x, more) => x = f
  <2>1. <<f>> \in Seq(Frame) /\ \A x : In(x, <<f>>) => x = f
    BY DEF In
  <2> QED
    BY <2>1
<1>8. rx[s][p] \in Seq(Frame) /\ Append(rx[s][p], f) = rx[s][p] \o more
  <2>1. rx[s][p] \in Seq(Frame)
    BY <1>3
  <2> QED
    BY <1>7, <2>1
<1>9. /\ rx'[s][p] = rx[s][p] \o more
      /\ \A t \in Switch, q \in Port : t # s \/ q # p => rx'[t][q] = rx[t][q]
  BY <1>3, <1>6, <1>8
<1>10. RxAway'
  <2> SUFFICES ASSUME NEW t \in Switch, NEW q \in Port, NEW g \in Frame, In(g, rx'[t][q])
               PROVE  Toward[t][g.src] = q
    BY DEF RxAway
  <2>1. CASE In(g, rx[t][q])
    BY <2>1 DEF Way, RxAway
  <2>2. CASE ~In(g, rx[t][q])
    <3>1. t = s /\ q = p
      BY <1>9, <2>2
    <3>2. In(g, rx[s][p] \o more) /\ ~In(g, rx[s][p])
      BY <1>9, <2>2, <3>1
    <3>3. g = f
      BY <1>7, <1>8, <3>2, InConcat
    <3> QED
      BY <1>2, <1>5, <3>1, <3>3
  <2> QED
    BY <2>1, <2>2
<1>11. ASSUME NEW t \in Switch
       PROVE  (Asking(t) /\ Told(t))'
  <2>1. PICK C : C = Unheard(t)
    OBVIOUS
  <2>2. Unheard(t)' = C /\ Untold(t)' = Untold(t) /\ Unlearned(t)' = Unlearned(t)
    BY <1>6, <2>1 DEF Unheard, Untold, Unlearned, Knows
  <2>3. ASSUME NEW q \in Port
        PROVE  Fresh(rx'[t][q], RxAsks(t, q), RxTells, C)
    <3>1. Fresh(rx[t][q], RxAsks(t, q), RxTells, C)
      BY <2>1 DEF Way, Asking
    <3>2. CASE t # s \/ q # p
      BY <1>9, <3>1, <3>2
    <3>3. CASE t = s /\ q = p
      <4>1. ASSUME NEW x \in Frame, NEW d \in Host, In(x, more)
            PROVE  <<x, d>> \notin RxAsks(t, q)
        <5>1. x = f
          BY <1>7, <4>1
        <5> QED
          BY <1>2, <1>5, <3>3, <5>1, RxAsking
      <4>2. Fresh(rx[s][p] \o more, RxAsks(t, q), RxTells, C)
        BY <1>8, <3>1, <3>3, <4>1, FreshMore
      <4> QED
        BY <1>9, <3>3, <4>2
    <3> QED
      BY <3>2, <3>3
  <2>4. Asking(t)'
    BY <1>6, <2>2, <2>3 DEF Way, Asking
  <2>5. Told(t)'
    BY <1>6 DEF Way, Told, Knows
  <2> QED
    BY <2>4, <2>5
<1>12. TxAway' /\ DownAway'
  BY <1>6 DEF Way, TxAway, DownAway
<1> QED
  BY <1>10, <1>11, <1>12 DEF Way

\* What leaves the ports of s: what waited there, and f where its source is not.
Going(s, f, out) ==
    \A r \in Port :
        \/ out[r] = tx[s][r]
        \/ /\ out[r] = Append(tx[s][r], f) /\ Toward[s][f.src] # r
           /\ program = "centralized" => AwayTo(s, r, f)

\* What Forward does to f: it is sent on, or the controller is asked, or neither.
Does(s, p, f, out) ==
    /\ rx[s][p] # << >> /\ f = Head(rx[s][p]) /\ In(f, rx[s][p])
    /\ Toward[s][f.src] = p
    /\ Leave(s, out, [rx EXCEPT ![s][p] = Tail(@)])
    /\ Going(s, f, out)
    /\ \/ UNCHANGED up
       \/ up' = [up EXCEPT ![s] = Append(@, PacketIn(f, p))] /\ out = tx[s]
    /\ program = "centralized" => UNCHANGED inports

LEMMA ForwardDoes ==
    ASSUME Inv, program = "centralized" => Way,
           NEW s \in Switch, NEW p \in Port, Forward(s, p)
    PROVE  \E f \in Frame, out \in [Port -> Seq(Frame)] : Does(s, p, f, out)
<1>1. rx[s][p] # << >>
  BY DEF Forward
<1>2. TypeOK /\ LearnedRight /\ RxOK /\ Ahead
  BY DEF Inv
<1>3. /\ rx \in [Switch -> [Port -> Seq(Frame)]] /\ tx \in [Switch -> [Port -> Seq(Frame)]]
      /\ inports \in [Switch -> [Host -> Port \cup {NONE}]]
      /\ program \in {"learningswitch", "centralized"}
  BY <1>2 DEF TypeOK
<1>4. PICK f \in Frame : f = Head(rx[s][p]) /\ In(f, rx[s][p]) /\ f = rx[s][p][1]
                         /\ 1 \in 1 .. Len(rx[s][p])
  <2>1. rx[s][p] \in Seq(Frame) /\ Head(rx[s][p]) = rx[s][p][1] /\ 1 \in 1 .. Len(rx[s][p])
    BY <1>1, <1>3
  <2> QED
    BY <1>1, <2>1, InTail
<1>5. /\ f.src \in Host /\ f.dst \in Host \cup {BROADCAST} /\ f.src # f.dst
      /\ BROADCAST \notin Host /\ Fitting(s, p, f)
  BY <1>2, <1>4, FrameType, LearningNetAssumption DEF RxOK
<1>6. Toward[s][f.src] = p
  BY <1>3, <1>4, <1>5 DEF Fitting, Way, RxAway
<1>7. NONE \notin Port /\ FLOOD \notin Port /\ CONTROLLER \notin Port /\ FLOOD # CONTROLLER
  BY LearningNetAssumption
<1>8. PICK queues : queues = [rx EXCEPT ![s][p] = Tail(@)]
  OBVIOUS
<1>9. tx[s] \in [Port -> Seq(Frame)] /\ \A r \in Port : Append(tx[s][r], f) \in Seq(Frame)
  BY <1>3, InAppend
<1>10. Going(s, f, tx[s])
  BY DEF Going
<1>11. CASE s \notin installed
  <2>1. Leave(s, tx[s], queues) /\ UNCHANGED inports /\ UNCHANGED up
    BY <1>4, <1>8, <1>11 DEF Forward
  <2>2. Does(s, p, f, tx[s])
    BY <1>1, <1>4, <1>6, <1>8, <1>10, <2>1 DEF Does
  <2> QED
    BY <1>9, <2>2
<1>12. CASE s \in installed
  <2>1. PICK table : table = Learned(s, f, p)
    OBVIOUS
  <2>2. PICK verdict : verdict = Verdict(f, table)
    OBVIOUS
  <2>3. /\ inports' = [inports EXCEPT ![s] = table]
        /\ verdict = CONTROLLER => /\ up' = [up EXCEPT ![s] = Append(@, PacketIn(f, p))]
                                   /\ Leave(s, tx[s], queues)
        /\ verdict # CONTROLLER =>
              /\ Leave(s, IF verdict = FLOOD THEN Flooded(s, f, p)
                                             ELSE Queued(s, f, verdict), queues)
              /\ UNCHANGED up
    BY <1>4, <1>8, <1>12, <2>1, <2>2 DEF Forward
  <2>4. program = "centralized" => table = inports[s] /\ UNCHANGED inports
    BY <1>3, <2>1, <2>3 DEF Learned
  <2>5. /\ f.dst \in Host => table[f.dst] = inports[s][f.dst]
        /\ program = "centralized" \/ verdict # CONTROLLER
    <3>1. CASE program = "centralized"
      BY <2>4, <3>1
    <3>2. CASE program = "learningswitch"
      <4>1. table = [inports[s] EXCEPT ![f.src] = p]
        BY <2>1, <3>2 DEF Learned
      <4>2. \A h \in Host : table[h] \in Port \cup {NONE}
        BY <1>3, <4>1
      <4>3. verdict # CONTROLLER
        BY <1>5, <1>7, <2>2, <3>2, <4>2 DEF Verdict
      <4> QED
        BY <1>3, <1>5, <4>1, <4>3
    <3> QED
      BY <1>3, <3>1, <3>2
  <2>6. CASE verdict = CONTROLLER
    <3>1. Does(s, p, f, tx[s])
      BY <1>1, <1>4, <1>6, <1>8, <1>10, <2>3, <2>4, <2>6 DEF Does
    <3> QED
      BY <1>9, <3>1
  <2>7. CASE verdict = FLOOD
    <3>1. program # "centralized"
      <4> SUFFICES ASSUME program = "centralized"
                   PROVE  FALSE
        OBVIOUS
      <4>1. \A h \in Host : table[h] \in Port \cup {NONE}
        BY <1>3, <2>4
      <4> QED
        BY <1>5, <1>7, <2>2, <2>7, <4>1 DEF Verdict
    <3>2. PICK out \in [Port -> Seq(Frame)] : out = Flooded(s, f, p)
      <4>1. Flooded(s, f, p) \in [Port -> Seq(Frame)]
        BY <1>9 DEF Flooded
      <4> QED
        BY <4>1
    <3>3. Leave(s, out, queues) /\ UNCHANGED up
      BY <1>7, <2>3, <2>7, <3>2
    <3>4. Going(s, f, out)
      BY <1>6, <3>1, <3>2 DEF Going, Flooded
    <3> QED
      BY <1>1, <1>4, <1>6, <1>8, <3>1, <3>3, <3>4 DEF Does
  <2>8. CASE verdict # CONTROLLER /\ verdict # FLOOD
    <3>1. f.dst \in Host /\ verdict = inports[s][f.dst] /\ verdict # NONE
      BY <1>3, <1>5, <2>2, <2>5, <2>8 DEF Verdict
    <3>2. verdict \in Port /\ Toward[s][f.dst] = verdict /\ Knows(s, f.dst)
      BY <1>2, <1>3, <3>1 DEF LearnedRight, Knows
    <3>3. verdict # p
      <4>1. CASE program = "learningswitch"
        BY <1>2, <1>4, <3>1, <3>2, <4>1, AheadOf
      <4>2. CASE program = "centralized"
        <5> SUFFICES ASSUME verdict = p
                     PROVE  FALSE
          OBVIOUS
        <5>1. <<f, f.dst>> \in RxAsks(s, p)
          BY <3>1, <3>2, RxAsking
        <5>2. Fresh(rx[s][p], RxAsks(s, p), RxTells, Unheard(s))
          BY <4>2 DEF Way, Asking
        <5>3. f.dst \in Unheard(s)
          BY <1>4, <3>1, <5>1, <5>2, Zenon DEF Fresh
        <5> QED
          BY <3>2, <5>3 DEF Unheard, Unlearned
      <4> QED
        BY <1>3, <4>1, <4>2
    <3>4. PICK out \in [Port -> Seq(Frame)] : out = Queued(s, f, verdict)
      <4>1. Queued(s, f, verdict) \in [Port -> Seq(Frame)]
        BY <1>9, <3>2 DEF Queued
      <4> QED
        BY <4>1
    <3>5. Leave(s, out, queues) /\ UNCHANGED up
      BY <2>3, <2>8, <3>4
    <3>6. Going(s, f, out)
      BY <1>6, <1>9, <3>1, <3>2, <3>3, <3>4 DEF Going, Queued, AwayTo
    <3> QED
      BY <1>1, <1>4, <1>6, <1>8, <2>4, <3>5, <3>6 DEF Does
  <2> QED
    BY <2>6, <2>7, <2>8
<1> QED
  BY <1>11, <1>12

\* Where the controller is asked, all that leaves goes to its destination.
LEMMA GoingAway ==
    ASSUME TypeOK, TxAway, program = "centralized",
           NEW s \in Switch, NEW f \in Frame, NEW out, Going(s, f, out)
    PROVE  \A r \in Port, g \in Frame : In(g, out[r]) => AwayTo(s, r, g)
<1> SUFFICES ASSUME NEW r \in Port, NEW g \in Frame, In(g, out[r])
             PROVE  AwayTo(s, r, g)
  OBVIOUS
<1>1. tx[s][r] \in Seq(Frame)
  BY DEF TypeOK
<1>2. CASE In(g, tx[s][r])
  BY <1>2 DEF TxAway
<1>3. CASE ~In(g, tx[s][r])
  <2>1. out[r] = Append(tx[s][r], f) /\ AwayTo(s, r, f)
    BY <1>3 DEF Going
  <2>2. g = f
    BY <1>1, <1>3, <2>1, InAppend
  <2> QED
    BY <2>1, <2>2
<1> QED
  BY <1>2, <1>3

\* One message is added at the end.
LEMMA OneMore ==
    ASSUME NEW S, NEW x \in S, NEW seq \in Seq(S)
    PROVE  /\ <<x>> \in Seq(S) /\ Append(seq, x) = seq \o <<x>>
           /\ \A y : In(y, <<x>>) <=> y = x
<1>1. <<x>> \in Seq(S) /\ Append(seq, x) = seq \o <<x>>
  OBVIOUS
<1>2. \A y : In(y, <<x>>) <=> y = x
  <2>1. Len(<<x>>) = 1 /\ <<x>>[1] = x /\ 1 \in 1 .. Len(<<x>>)
    OBVIOUS
  <2> QED
    BY <2>1 DEF In
<1> QED
  BY <1>1, <1>2

\* One frame in the loop of main: where the switch asks the controller for the
\* destination, no one has told it.
LEMMA ForwardWay ==
    ASSUME Inv, Way, program = "centralized", NEW s \in Switch, NEW p \in Port, Forward(s, p)
    PROVE  Way'
<1>1. PICK f \in Frame, out \in [Port -> Seq(Frame)] : Does(s, p, f, out)
  BY ForwardDoes
<1>2. /\ UNCHANGED inports /\ UNCHANGED down /\ UNCHANGED mac_to_port
  BY <1>1 DEF Does, Forward
<1>3. TypeOK /\ RxAway /\ TxAway /\ RxOK
  BY DEF Inv, Way
<1>4. /\ rx \in [Switch -> [Port -> Seq(Frame)]] /\ up \in [Switch -> Seq(UpMessage)]
  BY <1>3 DEF TypeOK
<1>5. /\ rx[s][p] # << >> /\ f = Head(rx[s][p]) /\ In(f, rx[s][p]) /\ Toward[s][f.src] = p
      /\ f.src \in Host /\ f.src # f.dst
  BY <1>1, <1>3, FrameType DEF Does, RxOK
<1>6. PICK queues \in [Switch -> [Port -> Seq(Frame)]] :
          /\ Leave(s, out, queues)
          /\ queues[s][p] = Tail(rx[s][p])
          /\ \A t \in Switch, q \in Port : t # s \/ q # p => queues[t][q] = rx[t][q]
  <2>1. rx[s][p] \in Seq(Frame) /\ Tail(rx[s][p]) \in Seq(Frame)
    BY <1>4, <1>5
  <2>2. PICK queues : queues = [rx EXCEPT ![s][p] = Tail(@)]
    OBVIOUS
  <2>3. /\ queues \in [Switch -> [Port -> Seq(Frame)]]
        /\ queues[s][p] = Tail(rx[s][p])
        /\ \A t \in Switch, q \in Port : t # s \/ q # p => queues[t][q] = rx[t][q]
    BY <1>4, <2>1, <2>2
  <2>4. Leave(s, out, queues)
    BY <1>1, <2>2 DEF Does
  <2> QED
    BY <2>3, <2>4
<1>7. \A r \in Port, g \in Frame : In(g, out[r]) => AwayTo(s, r, g)
  BY <1>1, <1>3, GoingAway DEF Does
<1>8. RxAway'
  <2>1. ASSUME NEW t \in Switch, NEW q \in Port, NEW g \in Frame, In(g, queues[t][q])
        PROVE  Toward[t][g.src] = q
    <3>1. rx[s][p] \in Seq(Frame)
      BY <1>4
    <3>2. In(g, rx[t][q])
      BY <1>5, <1>6, <2>1, <3>1, InTail
    <3> QED
      BY <1>3, <3>2 DEF RxAway
  <2>2. Outward(s, out)
    BY <1>7 DEF AwayTo, Outward
  <2>3. CameAway(queues)
    BY <2>1 DEF CameAway
  <2> QED
    <3>1. TypeOK /\ Leave(s, out, queues)
      BY <1>3, <1>6
    <3> QED
      BY <2>2, <2>3, <3>1, RxAwayLeaves, Zenon
<1>9. TxAway'
  BY <1>3, <1>6, TxAwayLeaves
<1>10. DownAway'
  BY <1>2 DEF Way, DownAway
\* what is in up then
<1>11. PICK m \in UpMessage : m = PacketIn(f, p) /\ m.type = "PACKET_IN" /\ m.frame = f /\ m.in_port = p
  <2>1. PacketIn(f, p) \in UpMessage
    BY DEF UpMessage
  <2> QED
    BY <2>1 DEF PacketIn
<1>12. \/ up' = up
       \/ /\ up'[s] = Append(up[s], m)
          /\ \A t \in Switch : t # s => up'[t] = up[t]
  BY <1>1, <1>4, <1>11 DEF Does
<1>13. ASSUME NEW t \in Switch, NEW d \in Host, d \in Unheard(t), t # s \/ d # f.src
       PROVE  d \in Unheard(t)'
  <2>1. ASSUME NEW n \in UpMessage, In(n, up'[t])
        PROVE  <<n, d>> \notin UpTells
    <3>1. CASE In(n, up[t])
      BY <1>13, <3>1 DEF Unheard
    <3>2. CASE ~In(n, up[t])
      <4>1. t = s /\ In(n, Append(up[s], m))
        BY <1>12, <2>1, <3>2
      <4>2. n = m
        BY <1>4, <3>2, <4>1, InAppend
      <4> QED
        BY <1>11, <1>13, <4>1, <4>2, UpAsking
    <3> QED
      BY <3>1, <3>2
  <2>2. d \in Unlearned(t)' /\ d \in Untold(t)'
    BY <1>2, <1>13 DEF Unheard, Unlearned, Untold, Knows
  <2> QED
    BY <2>1, <2>2 DEF Unheard
<1>14. \A d \in Host : <<f, d>> \in RxAsks(s, p) => d \in Unheard(s)
  <2>1. Fresh(rx[s][p], RxAsks(s, p), RxTells, Unheard(s)) /\ rx[s][p] \in Seq(Frame)
    BY <1>4 DEF Way, Asking
  <2> QED
    BY <1>5, <2>1, FreshTail
<1>15. ASSUME NEW t \in Switch, NEW q \in Port, NEW C, C = Unheard(t)'
       PROVE  Fresh(rx'[t][q], RxAsks(t, q), RxTells, C)
  <2>1. Fresh(rx[t][q], RxAsks(t, q), RxTells, Unheard(t)) /\ rx[t][q] \in Seq(Frame)
    BY <1>4 DEF Way, Asking
  <2>2. Fresh(queues[t][q], RxAsks(t, q), RxTells, C)
    <3>1. CASE t = s /\ q = p
      <4>1. \A d \in Host : d \in Unheard(s) /\ <<f, d>> \notin RxTells => d \in C
        BY <1>13, <1>15, <3>1, RxAsking
      <4> QED
        BY <1>5, <1>6, <2>1, <3>1, <4>1, FreshTail
    <3>2. CASE t # s \/ q # p
      <4>1. \A d \in Host, x \in Frame :
                In(x, rx[t][q]) /\ <<x, d>> \in RxAsks(t, q) /\ d \in Unheard(t) => d \in C
        BY <1>5, <1>13, <1>15, <3>2, RxAsking
      <4>2. Fresh(rx[t][q], RxAsks(t, q), RxTells, C)
        BY <2>1, <4>1, FreshStays
      <4> QED
        BY <1>6, <3>2, <4>2
    <3> QED
      BY <3>1, <3>2
  <2>3. ASSUME NEW r \in Port, NEW g \in Frame, In(g, out[r])
        PROVE  Toward[s][g.dst] = r
    BY <1>7, <2>3 DEF AwayTo
  <2>4. \A r \in Port, g \in Frame :
            <<s, r, t, q>> \in Links /\ In(g, out[r]) /\ g.dst \in Host /\ Toward[s][g.dst] # r =>
                /\ g.dst \in C
                /\ \A y \in Frame : In(y, queues[t][q]) \/ In(y, out[r]) => y.src # g.dst
    BY <2>3
  <2> QED
    BY <1>3, <1>6, <2>2, <2>4, AskingLeaves, Zenon
<1>16. ASSUME NEW t \in Switch
       PROVE  Fresh(up'[t], UpAsks(t), UpTells, Untold(t))
  <2>1. Fresh(up[t], UpAsks(t), UpTells, Untold(t)) /\ up[t] \in Seq(UpMessage)
    BY <1>4 DEF Way, Asking
  <2>2. CASE up'[t] = up[t]
    BY <2>1, <2>2
  <2>3. CASE t = s /\ up'[s] = Append(up[s], m)
    <3>1. PICK more \in Seq(UpMessage) : /\ more = <<m>> /\ Append(up[s], m) = up[s] \o more
                                         /\ \A y : In(y, more) <=> y = m
      <4>1. /\ <<m>> \in Seq(UpMessage) /\ Append(up[s], m) = up[s] \o <<m>>
            /\ \A y : In(y, <<m>>) <=> y = m
        BY <2>1, <2>3, OneMore
      <4> QED
        BY <4>1
    <3>2. ASSUME NEW d \in Host, <<m, d>> \in UpAsks(s)
          PROVE  /\ d \in Untold(s)
                 /\ \A y \in UpMessage : In(y, up[s]) \/ y = m => <<y, d>> \notin UpTells
      <4>1. f.dst = d /\ Toward[s][d] = p
        BY <1>11, <3>2, UpAsking
      <4>2. <<f, d>> \in RxAsks(s, p)
        BY <4>1, RxAsking
      <4>4. d \in Unheard(s)
        BY <1>14, <4>2
      <4>3. <<m, d>> \notin UpTells
        BY <1>5, <1>11, <4>1, UpAsking
      <4> QED
        BY <4>3, <4>4 DEF Unheard
    <3>3. ASSUME NEW x \in UpMessage, NEW d \in Host, In(x, more) /\ <<x, d>> \in UpAsks(s)
          PROVE  /\ d \in Untold(s)
                 /\ \A y \in UpMessage : In(y, up[s]) \/ In(y, more) => <<y, d>> \notin UpTells
      <4>1. x = m
        BY <3>1, <3>3
      <4> QED
        BY <3>1, <3>2, <3>3, <4>1
    <3>4. Fresh(up[s] \o more, UpAsks(s), UpTells, Untold(s))
      BY <2>1, <2>3, <3>3, FreshMore
    <3> QED
      BY <2>3, <3>1, <3>4
  <2> QED
    BY <1>12, <2>2, <2>3
<1>17. ASSUME NEW t \in Switch
       PROVE  (Asking(t) /\ Told(t))'
  <2>1. Untold(t)' = Untold(t) /\ Unlearned(t)' = Unlearned(t)
    BY <1>2 DEF Untold, Unlearned, Knows
  <2>2. Fresh(down[t], DownAsks, DownTells, Unlearned(t))'
    BY <1>2, <2>1 DEF Way, Asking
  <2>3. Asking(t)'
    BY <1>15, <1>16, <2>1, <2>2 DEF Asking
  <2>4. Told(t)'
    BY <1>2 DEF Way, Told, Knows
  <2> QED
    BY <2>3, <2>4
<1> QED
  BY <1>8, <1>9, <1>10, <1>17 DEF Way

\* The agent takes a message: the switch then knows at most what the message tells.
LEMMA ReceiveWay ==
    ASSUME Inv, Way, NEW s \in Switch, down[s] # << >>,
           down' = [down EXCEPT ![s] = Tail(@)], UNCHANGED up, UNCHANGED mac_to_port,
           \A t \in Switch, d \in Host :
               Knows(t, d)' => Knows(t, d) \/ (t = s /\ <<Head(down[s]), d>> \in DownTells)
    PROVE  /\ DownAway'
           /\ \A t \in Switch : /\ Told(t)'
                                /\ Fresh(up[t], UpAsks(t), UpTells, Untold(t))'
                                /\ Fresh(down[t], DownAsks, DownTells, Unlearned(t))'
                                /\ Unheard(t) \subseteq Unheard(t)'
<1>1. down \in [Switch -> Seq(DownMessage)]
  BY DEF Inv, TypeOK
<1>2. /\ down'[s] = Tail(down[s]) /\ down[s] \in Seq(DownMessage)
      /\ Head(down[s]) \in DownMessage /\ In(Head(down[s]), down[s])
      /\ \A t \in Switch : t # s => down'[t] = down[t]
  BY <1>1, InTail
<1>3. ASSUME NEW t \in Switch, NEW m, In(m, down'[t])
      PROVE  In(m, down[t])
  BY <1>2, <1>3, InTail
<1>4. DownAway'
  BY <1>3 DEF Way, DownAway
<1>5. ASSUME NEW t \in Switch
      PROVE  Told(t)'
  <2> SUFFICES ASSUME NEW h \in Host,
                      Knows(t, h)' \/ \E m \in DownMessage : In(m, down'[t]) /\ <<m, h>> \in DownTells
               PROVE  mac_to_port[t][h] # NONE
    BY DEF Told
  <2>1. Told(t)
    BY DEF Way
  <2>2. CASE \E m \in DownMessage : In(m, down'[t]) /\ <<m, h>> \in DownTells
    BY <1>3, <2>1, <2>2 DEF Told
  <2>3. CASE Knows(t, h)'
    <3>1. Knows(t, h) \/ (t = s /\ <<Head(down[s]), h>> \in DownTells)
      BY <2>3
    <3> QED
      BY <1>2, <2>1, <3>1 DEF Told
  <2> QED
    BY <2>2, <2>3
<1>6. ASSUME NEW t \in Switch
      PROVE  Fresh(up[t], UpAsks(t), UpTells, Untold(t))'
  <2>1. Untold(t)' = Untold(t) /\ up'[t] = up[t]
    BY DEF Untold
  <2> QED
    BY <2>1 DEF Way, Asking
<1>7. ASSUME NEW t \in Switch
      PROVE  Fresh(down[t], DownAsks, DownTells, Unlearned(t))'
  <2>1. PICK C : C = Unlearned(t)'
    OBVIOUS
  <2>2. Fresh(down[t], DownAsks, DownTells, Unlearned(t))
    BY DEF Way, Asking
  <2>3. CASE t = s
    <3>1. \A d \in Host : d \in Unlearned(s) /\ <<Head(down[s]), d>> \notin DownTells => d \in C
      BY <2>1, <2>3 DEF Unlearned
    <3>2. Fresh(Tail(down[s]), DownAsks, DownTells, C)
      BY <1>2, <2>2, <2>3, <3>1, FreshTail
    <3> QED
      BY <1>2, <2>1, <2>3, <3>2
  <2>4. CASE t # s
    <3>1. \A d \in Host : d \in Unlearned(t) => d \in C
      BY <2>1, <2>4 DEF Unlearned
    <3>2. Fresh(down[t], DownAsks, DownTells, C)
      BY <2>2, <3>1 DEF Fresh
    <3> QED
      BY <1>2, <2>1, <2>4, <3>2
  <2> QED
    BY <2>3, <2>4
<1>8. ASSUME NEW t \in Switch, NEW d \in Unheard(t)
      PROVE  d \in Unheard(t)'
  <2>1. d \in Host /\ ~Knows(t, d) /\ mac_to_port[t][d] = NONE
    BY DEF Unheard, Unlearned, Untold
  <2>2. ~Knows(t, d)'
    <3>1. t = s /\ <<Head(down[s]), d>> \in DownTells => mac_to_port[t][d] # NONE
      BY <1>2, <2>1 DEF Way, Told
    <3> QED
      BY <2>1, <3>1
  <2> QED
    BY <2>1, <2>2 DEF Unheard, Unlearned, Untold
<1> QED
  BY <1>4, <1>5, <1>6, <1>7, <1>8

\* An entry is inserted, or a program installed: the ports stay as they are.
LEMMA TableWay ==
    ASSUME Inv, Way, NEW s \in Switch, Receive(s), RecvInstall(s) \/ RecvInsert(s)
    PROVE  Way'
<1>1. /\ down[s] # << >> /\ down' = [down EXCEPT ![s] = Tail(@)]
      /\ UNCHANGED up /\ UNCHANGED mac_to_port
  BY DEF Receive
<1>2. UNCHANGED rx /\ UNCHANGED tx
  BY DEF RecvInstall, RecvInsert
<1>3. PICK m \in DownMessage : m = Head(down[s])
  <2>1. down[s] \in Seq(DownMessage)
    BY DEF Inv, TypeOK
  <2> QED
    BY <1>1, <2>1, InTail
<1>4. ASSUME NEW t \in Switch, NEW d \in Host, Knows(t, d)'
      PROVE  Knows(t, d) \/ (t = s /\ <<m, d>> \in DownTells)
  <2>1. CASE RecvInstall(s)
    BY <1>4, <2>1 DEF RecvInstall, Knows
  <2>2. CASE RecvInsert(s)
    <3>1. m.type = "INSERT" /\ inports' = [inports EXCEPT ![s][m.key] = m.value]
      BY <1>3, <2>2 DEF RecvInsert
    <3>2. inports \in [Switch -> [Host -> Port \cup {NONE}]]
      BY DEF Inv, TypeOK
    <3>3. inports'[t][d] = inports[t][d] \/ (t = s /\ m.key = d)
      BY <3>1, <3>2
    <3> QED
      BY <1>4, <3>1, <3>3, DownAsking DEF Knows
  <2> QED
    BY <2>1, <2>2
<1>5. /\ DownAway'
      /\ \A t \in Switch : /\ Told(t)'
                           /\ Fresh(up[t], UpAsks(t), UpTells, Untold(t))'
                           /\ Fresh(down[t], DownAsks, DownTells, Unlearned(t))'
                           /\ Unheard(t) \subseteq Unheard(t)'
  <2>1. \A t \in Switch, d \in Host :
            Knows(t, d)' => Knows(t, d) \/ (t = s /\ <<Head(down[s]), d>> \in DownTells)
    BY <1>3, <1>4
  <2> QED
    BY <1>1, <2>1, ReceiveWay
<1>6. ASSUME NEW t \in Switch, NEW q \in Port
      PROVE  Fresh(rx[t][q], RxAsks(t, q), RxTells, Unheard(t))'
  <2>1. PICK C : C = Unheard(t)' /\ Unheard(t) \subseteq C
    BY <1>5
  <2>2. Fresh(rx[t][q], RxAsks(t, q), RxTells, Unheard(t))
    BY DEF Way, Asking
  <2>3. Fresh(rx[t][q], RxAsks(t, q), RxTells, C)
    BY <2>1, <2>2 DEF Fresh
  <2> QED
    BY <1>2, <2>1, <2>3
<1>7. RxAway' /\ TxAway'
  BY <1>2 DEF Way, RxAway, TxAway
<1> QED
  BY <1>5, <1>6, <1>7 DEF Way, Asking

\* A frame that the controller has flooded asks at the other ends of the links:
\* who is asked for is not known here, and so has not been heard of there.
LEMMA FloodAsks ==
    ASSUME Inv, NEW s \in Switch, NEW d \in Host, ~Knows(s, d),
           NEW r \in Port, NEW t \in Switch, NEW q \in Port, <<s, r, t, q>> \in Links,
           Toward[s][d] # r
    PROVE  /\ d \in Unheard(t)
           /\ \A y \in Frame : In(y, rx[t][q]) \/ In(y, tx[s][r]) => y.src # d
<1>1. <<t, q, s, r>> \in Links /\ Toward[t][d] = q
  BY LearningNetAssumption
<1>2. ~Behind(t, q, d)
  BY <1>1 DEF Behind
<1>3. d \in Unlearned(t) /\ d \in Untold(t)
  BY <1>1, <1>2 DEF Inv, FromNeighbour, Unlearned, Untold
<1>4. ASSUME NEW n \in UpMessage, In(n, up[t])
      PROVE  <<n, d>> \notin UpTells
  <2> SUFFICES ASSUME n.type = "PACKET_IN", n.frame.src = d
               PROVE  FALSE
    BY UpAsking
  <2>1. Toward[t][d] = n.in_port /\ Behind(t, n.in_port, d)
    BY <1>4 DEF Inv, UpOK
  <2> QED
    BY <1>1, <1>2, <2>1
<1>5. ASSUME NEW y \in Frame, In(y, rx[t][q]) \/ In(y, tx[s][r])
      PROVE  y.src # d
  <2>1. CASE In(y, rx[t][q])
    BY <1>2, <2>1 DEF Inv, RxOK
  <2>2. CASE In(y, tx[s][r])
    BY <2>2 DEF Inv, TxOK, Leaving
  <2> QED
    BY <1>5, <2>1, <2>2
<1> QED
  BY <1>3, <1>4, <1>5 DEF Unheard

\* A packet the controller has sent: one that is flooded is for a host that no
\* one has heard of on the way, any other goes away from its source.
LEMMA PacketOutWay ==
    ASSUME Inv, Way, NEW s \in Switch, Receive(s), RecvPacketOut(s)
    PROVE  Way'
<1>1. /\ down[s] # << >> /\ down' = [down EXCEPT ![s] = Tail(@)]
      /\ UNCHANGED up /\ UNCHANGED mac_to_port /\ UNCHANGED inports
  BY DEF Receive, RecvPacketOut
<1>2. PICK m \in DownMessage :
          /\ m = Head(down[s]) /\ m = down[s][1]
          /\ m.type = "PACKET_OUT" => PacketOutOK(s, 1, m) /\ Knows(s, m.frame.src)
  BY <1>1, FirstMessage
<1>3. m.type = "PACKET_OUT"
  BY <1>2 DEF RecvPacketOut
<1>4. PICK f \in Frame, p \in Port, port \in Port \cup {FLOOD} :
          f = m.frame /\ p = m.in_port /\ port = m.out_port
  BY <1>3, DownTypes DEF Install
<1>5. /\ program = "centralized" /\ f.src # f.dst /\ Toward[s][f.src] = p
      /\ port # FLOOD => f.dst \in Host /\ Toward[s][f.dst] = port
  BY <1>2, <1>3, <1>4 DEF PacketOutOK
<1>6. /\ rx \in [Switch -> [Port -> Seq(Frame)]] /\ tx \in [Switch -> [Port -> Seq(Frame)]]
      /\ down[s] \in Seq(DownMessage)
      /\ TypeOK /\ RxAway /\ TxAway
  BY DEF Inv, TypeOK, Way
<1>7. In(m, down[s])
  BY <1>1, <1>2, <1>6, InTail
<1>8. /\ DownAway'
      /\ \A t \in Switch : /\ Told(t)'
                           /\ Fresh(up[t], UpAsks(t), UpTells, Untold(t))'
                           /\ Fresh(down[t], DownAsks, DownTells, Unlearned(t))'
                           /\ Unheard(t) \subseteq Unheard(t)'
  <2>1. \A t \in Switch, d \in Host :
            Knows(t, d)' => Knows(t, d) \/ (t = s /\ <<Head(down[s]), d>> \in DownTells)
    BY <1>1 DEF Knows
  <2> QED
    BY <1>1, <2>1, ReceiveWay
<1>9. CASE port = FLOOD
  <2>1. PICK out : out = Flooded(s, f, p)
    OBVIOUS
  <2>2. Leave(s, out, rx)
    BY <1>2, <1>4, <1>9, <2>1 DEF RecvPacketOut
  <2>3. out \in [Port -> Seq(Frame)]
    <3>1. ASSUME NEW r \in Port
          PROVE  tx[s][r] \in Seq(Frame) /\ Append(tx[s][r], f) \in Seq(Frame)
      BY <1>6, InAppend
    <3> QED
      BY <2>1, <3>1 DEF Flooded
  <2>4. ASSUME NEW r \in Port, NEW g \in Frame, In(g, out[r])
        PROVE  In(g, tx[s][r]) \/ (g = f /\ r # p)
    <3>1. tx[s][r] \in Seq(Frame)
      BY <1>6
    <3>2. out[r] = IF r # p THEN Append(tx[s][r], f) ELSE tx[s][r]
      BY <2>1 DEF Flooded
    <3> QED
      BY <2>4, <3>1, <3>2, InAppend
  <2>5. ASSUME NEW r \in Port, NEW g \in Frame, In(g, out[r])
        PROVE  Toward[s][g.src] # r
    BY <1>5, <1>6, <2>4, <2>5 DEF TxAway, AwayTo
  <2>6. RxAway' /\ TxAway'
    <3>1. CameAway(rx)
      BY <1>6 DEF RxAway, CameAway
    <3>2. Outward(s, out)
      BY <2>5 DEF Outward
    <3>3. rx \in [Switch -> [Port -> Seq(Frame)]]
      BY <1>6
    <3>4. RxAway'
      BY <1>6, <2>2, <2>3, <3>1, <3>2, <3>3, RxAwayLeaves, Zenon
    <3>5. TxAway'
      BY <1>6, <2>2, TxAwayLeaves
    <3> QED
      BY <3>4, <3>5
  <2>7. \A d \in Host : f.dst = d => ~Knows(s, d)
    <3>1. Fresh(down[s], DownAsks, DownTells, Unlearned(s))
      BY DEF Way, Asking
    <3>2. \A d \in Host : <<Head(down[s]), d>> \in DownAsks => d \in Unlearned(s)
      BY <1>1, <1>6, <3>1, FreshTail
    <3> QED
      BY <1>2, <1>3, <1>4, <1>9, <3>2, DownAsking DEF Unlearned
  <2>8. ASSUME NEW t \in Switch, NEW q \in Port, NEW C, C = Unheard(t)'
        PROVE  Fresh(rx'[t][q], RxAsks(t, q), RxTells, C)
    <3>1. Fresh(rx[t][q], RxAsks(t, q), RxTells, C)
      <4>1. Fresh(rx[t][q], RxAsks(t, q), RxTells, Unheard(t)) /\ Unheard(t) \subseteq C
        BY <1>8, <2>8 DEF Way, Asking
      <4> QED
        BY <4>1 DEF Fresh
    <3>2. ASSUME NEW r \in Port, NEW g \in Frame, <<s, r, t, q>> \in Links,
                 In(g, out[r]), g.dst \in Host, Toward[s][g.dst] # r
          PROVE  /\ g.dst \in C
                 /\ \A y \in Frame : In(y, rx[t][q]) \/ In(y, out[r]) => y.src # g.dst
      <4>1. g = f
        BY <1>6, <2>4, <3>2 DEF TxAway, AwayTo
      <4>2. /\ g.dst \in Unheard(t)
            /\ \A y \in Frame : In(y, rx[t][q]) \/ In(y, tx[s][r]) => y.src # g.dst
        BY <2>7, <3>2, <4>1, FloodAsks
      <4>3. ASSUME NEW y \in Frame, In(y, out[r])
            PROVE  y.src # g.dst
        BY <1>5, <2>4, <4>1, <4>2, <4>3
      <4> QED
        BY <1>8, <2>8, <4>2, <4>3
    <3>3. PICK queues \in [Switch -> [Port -> Seq(Frame)]] : queues = rx
      BY <1>6
    <3>4. \A r \in Port, g \in Frame :
              <<s, r, t, q>> \in Links /\ In(g, out[r]) /\ g.dst \in Host /\ Toward[s][g.dst] # r =>
                  /\ g.dst \in C
                  /\ \A y \in Frame : In(y, queues[t][q]) \/ In(y, out[r]) => y.src # g.dst
      BY <3>2, <3>3
    <3>5. Leave(s, out, queues) /\ Fresh(queues[t][q], RxAsks(t, q), RxTells, C)
      BY <2>2, <3>1, <3>3
    <3> QED
      BY <1>6, <2>3, <3>4, <3>5, AskingLeaves, Zenon
  <2>9. ASSUME NEW t \in Switch
        PROVE  Asking(t)'
    BY <1>8, <2>8 DEF Asking
  <2> QED
    BY <1>8, <2>6, <2>9 DEF Way
<1>10. CASE port # FLOOD
  <2>1. /\ port \in Port /\ UNCHANGED rx
        /\ tx' = [tx EXCEPT ![s] = [tx[s] EXCEPT ![port] = Append(@, f)]]
    BY <1>2, <1>4, <1>10 DEF RecvPacketOut, Queued
  <2>2. /\ tx'[s][port] = Append(tx[s][port], f)
        /\ \A t \in Switch, r \in Port : t # s \/ r # port => tx'[t][r] = tx[t][r]
    BY <1>6, <2>1
  <2>3. AwayTo(s, port, f)
    BY <1>3, <1>4, <1>5, <1>7, <1>10 DEF Way, DownAway, AwayTo
  <2>4. TxAway'
    <3> SUFFICES ASSUME NEW t \in Switch, NEW r \in Port, NEW g \in Frame, In(g, tx'[t][r])
                 PROVE  AwayTo(t, r, g)
      BY DEF TxAway, AwayTo
    <3>1. CASE In(g, tx[t][r])
      BY <1>6, <3>1 DEF TxAway
    <3>2. CASE ~In(g, tx[t][r])
      <4>1. t = s /\ r = port
        BY <2>2, <3>2
      <4>2. tx[s][port] \in Seq(Frame) /\ In(g, Append(tx[s][port], f)) /\ ~In(g, tx[s][port])
        BY <1>6, <2>1, <2>2, <3>2, <4>1
      <4>3. g = f
        BY <4>2, InAppend
      <4> QED
        BY <2>3, <4>1, <4>3
    <3> QED
      BY <3>1, <3>2
  <2>5. RxAway'
    BY <1>6, <2>1 DEF RxAway
  <2>6. ASSUME NEW t \in Switch, NEW q \in Port
        PROVE  Fresh(rx[t][q], RxAsks(t, q), RxTells, Unheard(t))'
    <3>1. PICK C : C = Unheard(t)' /\ Unheard(t) \subseteq C
      BY <1>8
    <3>2. Fresh(rx[t][q], RxAsks(t, q), RxTells, Unheard(t))
      BY DEF Way, Asking
    <3>3. Fresh(rx[t][q], RxAsks(t, q), RxTells, C)
      BY <3>1, <3>2 DEF Fresh
    <3> QED
      BY <2>1, <3>1, <3>3
  <2> QED
    BY <1>8, <2>4, <2>5, <2>6 DEF Way, Asking
<1> QED
  BY <1>9, <1>10

\* A hello makes the controller forget something, or there was nothing to forget.
LEMMA HelloWay ==
    ASSUME Inv, Way, ~forgot', NEW s \in Switch, up[s] # << >>, RecvHello(s),
           up' = [up EXCEPT ![s] = Tail(@)], UNCHANGED <<switch, rx>>
    PROVE  Way'
<1>1. UNCHANGED inports /\ UNCHANGED tx /\ UNCHANGED rx
  BY DEF switch
<1>2. UNCHANGED mac_to_port
  <2>1. ~(mac_to_port # Unknown)
    BY DEF RecvHello
  <2> QED
    BY <2>1 DEF RecvHello
<1>3. /\ up \in [Switch -> Seq(UpMessage)] /\ down \in [Switch -> Seq(DownMessage)]
  BY DEF Inv, TypeOK
<1>4. PICK i \in DownMessage : i = Install /\ i.type = "INSTALL"
  <2>1. Install \in DownMessage /\ Install.type = "INSTALL"
    BY DEF DownMessage, Install
  <2> QED
    BY <2>1
<1>5. /\ up'[s] = Tail(up[s]) /\ up[s] \in Seq(UpMessage)
      /\ \A t \in Switch : t # s => up'[t] = up[t]
  BY <1>3
<1>6. /\ down'[s] = Append(down[s], i) /\ down[s] \in Seq(DownMessage)
      /\ \A t \in Switch : t # s => down'[t] = down[t]
  BY <1>3, <1>4 DEF RecvHello
<1>7. \A t \in Switch : \A m : In(m, up'[t]) => In(m, up[t])
  BY <1>5, InTail
<1>8. ASSUME NEW t \in Switch, NEW n \in DownMessage, In(n, down'[t])
      PROVE  In(n, down[t]) \/ n.type = "INSTALL"
  <2>1. CASE t = s
    <3>1. In(n, Append(down[s], i))
      BY <1>6, <1>8, <2>1
    <3> QED
      BY <1>4, <1>6, <2>1, <3>1, InAppend
  <2>2. CASE t # s
    BY <1>6, <1>8, <2>2
  <2> QED
    BY <2>1, <2>2
<1>9. RxAway' /\ TxAway' /\ DownAway'
  <2>1. RxAway' /\ TxAway'
    BY <1>1 DEF Way, RxAway, TxAway
  <2>2. DownAway'
    BY <1>8 DEF Way, DownAway
  <2> QED
    BY <2>1, <2>2
<1>10. ASSUME NEW t \in Switch
       PROVE  Told(t)'
  <2>1. \A n \in DownMessage, h \in Host :
            In(n, down'[t]) /\ <<n, h>> \in DownTells => In(n, down[t])
    BY <1>8, DownAsking
  <2>2. \A h \in Host : Knows(t, h)' <=> Knows(t, h)
    BY <1>1 DEF Knows
  <2> QED
    BY <1>2, <2>1, <2>2 DEF Way, Told
<1>11. ASSUME NEW t \in Switch
       PROVE  Fresh(up'[t], UpAsks(t), UpTells, Untold(t))
  <2>1. Fresh(up[t], UpAsks(t), UpTells, Untold(t))
    BY DEF Way, Asking
  <2>2. CASE t = s
    <3>1. \A d \in Host : d \in Untold(s) /\ <<Head(up[s]), d>> \notin UpTells => d \in Untold(s)
      OBVIOUS
    <3>2. Fresh(Tail(up[s]), UpAsks(s), UpTells, Untold(s))
      BY <1>5, <2>1, <2>2, <3>1, FreshTail
    <3> QED
      BY <1>5, <2>2, <3>2
  <2>3. CASE t # s
    BY <1>5, <2>1, <2>3
  <2> QED
    BY <2>2, <2>3
<1>12. ASSUME NEW t \in Switch
       PROVE  Fresh(down'[t], DownAsks, DownTells, Unlearned(t))
  <2>1. Fresh(down[t], DownAsks, DownTells, Unlearned(t))
    BY DEF Way, Asking
  <2>2. CASE t = s
    <3>1. PICK more \in Seq(DownMessage) : /\ more = <<i>> /\ Append(down[s], i) = down[s] \o more
                                           /\ \A y : In(y, more) <=> y = i
      <4>1. /\ <<i>> \in Seq(DownMessage) /\ Append(down[s], i) = down[s] \o <<i>>
            /\ \A y : In(y, <<i>>) <=> y = i
        BY <1>6, OneMore
      <4> QED
        BY <4>1
    <3>2. ASSUME NEW x \in DownMessage, NEW d \in Host, In(x, more)
          PROVE  <<x, d>> \notin DownAsks
      BY <1>4, <3>1, <3>2, DownAsking
    <3>3. Fresh(down[s] \o more, DownAsks, DownTells, Unlearned(s))
      BY <1>6, <2>1, <2>2, <3>2, FreshMore
    <3> QED
      BY <1>6, <2>2, <3>1, <3>3
  <2>3. CASE t # s
    BY <1>6, <2>1, <2>3
  <2> QED
    BY <2>2, <2>3
<1>13. ASSUME NEW t \in Switch, NEW q \in Port, NEW C, C = Unheard(t)'
       PROVE  Fresh(rx[t][q], RxAsks(t, q), RxTells, C)
  <2>1. Unheard(t) \subseteq C
    BY <1>1, <1>2, <1>7, <1>13 DEF Unheard, Unlearned, Untold, Knows
  <2>2. Fresh(rx[t][q], RxAsks(t, q), RxTells, Unheard(t))
    BY DEF Way, Asking
  <2> QED
    BY <2>1, <2>2 DEF Fresh
<1>14. ASSUME NEW t \in Switch
       PROVE  Asking(t)'
  <2>1. Untold(t)' = Untold(t) /\ Unlearned(t)' = Unlearned(t)
    BY <1>1, <1>2 DEF Untold, Unlearned, Knows
  <2> QED
    BY <1>1, <1>11, <1>12, <1>13, <2>1 DEF Asking
<1> QED
  BY <1>9, <1>10, <1>14 DEF Way

\* The controller learns of the source of a frame, and answers: nothing that is
\* on the way asks for it, and the frame is flooded where no one knows better.
LEMMA PacketInWay ==
    ASSUME Inv, Way, NEW s \in Switch, up[s] # << >>, RecvPacketIn(s),
           up' = [up EXCEPT ![s] = Tail(@)], UNCHANGED <<switch, rx>>
    PROVE  Way'
<1>1. UNCHANGED inports /\ UNCHANGED tx /\ UNCHANGED rx
  BY DEF switch
<1>2. TypeOK /\ UpOK /\ LearnedRight
  BY DEF Inv
<1>3. /\ up \in [Switch -> Seq(UpMessage)] /\ down \in [Switch -> Seq(DownMessage)]
      /\ mac_to_port \in [Switch -> [Host -> Port \cup {NONE}]]
      /\ NONE \notin Port
  BY <1>2, LearningNetAssumption DEF TypeOK
<1>4. /\ up'[s] = Tail(up[s]) /\ up[s] \in Seq(UpMessage)
      /\ \A t \in Switch : t # s => up'[t] = up[t]
  BY <1>3
<1>5. \A t \in Switch : \A n : In(n, up'[t]) => In(n, up[t])
  BY <1>4, InTail
<1>6. PICK m \in UpMessage : m = Head(up[s]) /\ In(m, up[s])
  BY <1>4, InTail
<1>7. m.type = "PACKET_IN"
  BY <1>6 DEF RecvPacketIn
<1>8. PICK f \in Frame, p \in Port : f = m.frame /\ p = m.in_port
  BY <1>7, UpTypes DEF Hello
<1>9. /\ f.src \in Host /\ f.dst \in Host \cup {BROADCAST} /\ BROADCAST \notin Host
      /\ f.src # f.dst /\ Toward[s][f.src] = p
  BY <1>2, <1>6, <1>7, <1>8, FrameType, LearningNetAssumption DEF UpOK
<1>10. PICK table \in [Host -> Port \cup {NONE}] :
           /\ table = [mac_to_port[s] EXCEPT ![f.src] = p]
           /\ mac_to_port' = [mac_to_port EXCEPT ![s] = table]
           /\ down' = [down EXCEPT ![s] = @ \o Reply(f, p, OutPort(table, f.dst))]
  <2>1. [mac_to_port[s] EXCEPT ![f.src] = p] \in [Host -> Port \cup {NONE}]
    BY <1>3
  <2> QED
    BY <1>6, <1>8, <2>1, Zenon DEF RecvPacketIn
<1>11. \A t \in Switch, h \in Host :
           mac_to_port'[t][h] = IF t = s /\ h = f.src THEN p ELSE mac_to_port[t][h]
  BY <1>3, <1>9, <1>10
<1>12. PICK port \in Port \cup {FLOOD} :
           /\ port = OutPort(table, f.dst)
           /\ port # FLOOD => f.dst \in Host /\ port = mac_to_port[s][f.dst] /\ port # NONE
           /\ port = FLOOD => \A d \in Host : f.dst = d => mac_to_port[s][d] = NONE
  <2>0. FLOOD \notin Port
    BY LearningNetAssumption
  <2>1. CASE f.dst \in Host
    <3>1. table[f.dst] = mac_to_port[s][f.dst] /\ mac_to_port[s][f.dst] \in Port \cup {NONE}
      BY <1>3, <1>9, <1>10, <2>1
    <3> QED
      BY <1>3, <1>9, <2>0, <2>1, <3>1 DEF OutPort
  <2>2. CASE f.dst = BROADCAST
    BY <1>9, <2>2 DEF OutPort
  <2> QED
    BY <1>9, <2>1, <2>2
\* the controller has not been told where the frame's destination is, if there
<1>13. \A d \in Host : <<m, d>> \in UpAsks(s) => d \in Untold(s)
  <2>1. Fresh(up[s], UpAsks(s), UpTells, Untold(s))
    BY DEF Way, Asking
  <2> QED
    BY <1>4, <1>6, <2>1, FreshTail
<1>14. port # FLOOD => Toward[s][f.src] # port
  <2> SUFFICES ASSUME port # FLOOD, port = p
               PROVE  FALSE
    BY <1>9
  <2>1. f.dst \in Host /\ Toward[s][f.dst] = p /\ mac_to_port[s][f.dst] # NONE
    BY <1>2, <1>12 DEF LearnedRight
  <2>2. <<m, f.dst>> \in UpAsks(s)
    BY <1>7, <1>8, <2>1, UpAsking
  <2> QED
    BY <1>13, <2>1, <2>2 DEF Untold
<1>15. PICK i \in DownMessage, o \in DownMessage :
           /\ i = Insert(f.src, p) /\ o = PacketOut(f, p, port)
  BY <1>9, MessagesMade
<1>16. /\ i.type = "INSERT" /\ i.key = f.src /\ i.value = p
       /\ o.type = "PACKET_OUT" /\ o.frame = f /\ o.in_port = p /\ o.out_port = port
  BY <1>15 DEF Insert, PacketOut
<1>17. PICK more \in Seq(DownMessage) : more = <<i, o>> /\ \A n : In(n, more) => n = i \/ n = o
  <2>1. <<i, o>> \in Seq(DownMessage) /\ \A n : In(n, <<i, o>>) => n = i \/ n = o
    BY DEF In
  <2> QED
    BY <2>1
<1>18. /\ down'[s] = down[s] \o more /\ down[s] \in Seq(DownMessage)
       /\ \A t \in Switch : t # s => down'[t] = down[t]
  BY <1>3, <1>10, <1>12, <1>15, <1>17 DEF Reply
<1>19. ASSUME NEW t \in Switch, NEW n \in DownMessage, In(n, down'[t])
       PROVE  In(n, down[t]) \/ (t = s /\ (n = i \/ n = o))
  <2>1. CASE t = s
    <3>1. In(n, down[s] \o more)
      BY <1>18, <1>19, <2>1
    <3>2. In(n, down[s]) \/ In(n, more)
      BY <1>18, <3>1, InConcat
    <3> QED
      BY <1>17, <2>1, <3>2
  <2>2. CASE t # s
    BY <1>18, <1>19, <2>2
  <2> QED
    BY <2>1, <2>2
<1>20. RxAway' /\ TxAway'
  BY <1>1 DEF Way, RxAway, TxAway
<1>21. DownAway'
  <2> SUFFICES ASSUME NEW t \in Switch, NEW n \in DownMessage, In(n, down'[t]),
                      n.type = "PACKET_OUT", n.out_port # FLOOD
               PROVE  Toward[t][n.frame.src] # n.out_port
    BY DEF DownAway
  <2>1. CASE In(n, down[t])
    BY <2>1 DEF Way, DownAway
  <2>2. CASE t = s /\ n = o
    BY <1>14, <1>16, <2>2
  <2>3. CASE t = s /\ n = i
    BY <1>16, <2>3
  <2> QED
    BY <1>19, <2>1, <2>2, <2>3
<1>22. ASSUME NEW t \in Switch
       PROVE  Told(t)'
  <2> SUFFICES ASSUME NEW h \in Host,
                      Knows(t, h)' \/ \E n \in DownMessage : In(n, down'[t]) /\ <<n, h>> \in DownTells
               PROVE  mac_to_port'[t][h] # NONE
    BY DEF Told
  <2>1. mac_to_port[t][h] # NONE => mac_to_port'[t][h] # NONE
    BY <1>3, <1>11
  <2>2. CASE Knows(t, h)'
    BY <1>1, <2>1, <2>2 DEF Way, Told, Knows
  <2>3. CASE \E n \in DownMessage : In(n, down'[t]) /\ <<n, h>> \in DownTells
    <3>1. PICK n \in DownMessage : In(n, down'[t]) /\ <<n, h>> \in DownTells
      BY <2>3
    <3>2. CASE In(n, down[t])
      BY <2>1, <3>1, <3>2 DEF Way, Told
    <3>3. CASE t = s /\ (n = i \/ n = o)
      <4>1. h = f.src
        BY <1>16, <3>1, <3>3, DownAsking
      <4> QED
        BY <1>3, <1>11, <3>3, <4>1
    <3> QED
      BY <1>19, <3>1, <3>2, <3>3
  <2> QED
    BY <2>2, <2>3
<1>23. ASSUME NEW t \in Switch, NEW C, C = Untold(t)'
       PROVE  Fresh(up'[t], UpAsks(t), UpTells, C)
  <2>1. Fresh(up[t], UpAsks(t), UpTells, Untold(t))
    BY DEF Way, Asking
  <2>2. CASE t = s
    <3>1. \A d \in Host : d \in Untold(s) /\ <<Head(up[s]), d>> \notin UpTells => d \in C
      BY <1>6, <1>7, <1>8, <1>11, <1>23, <2>2, UpAsking DEF Untold
    <3>2. Fresh(Tail(up[s]), UpAsks(s), UpTells, C)
      BY <1>4, <2>1, <2>2, <3>1, FreshTail
    <3> QED
      BY <1>4, <2>2, <3>2
  <2>3. CASE t # s
    <3>1. C = Untold(t)
      BY <1>11, <1>23, <2>3 DEF Untold
    <3> QED
      BY <1>4, <2>1, <2>3, <3>1
  <2> QED
    BY <2>2, <2>3
<1>24. ASSUME NEW t \in Switch
       PROVE  Fresh(down'[t], DownAsks, DownTells, Unlearned(t))
  <2>1. Fresh(down[t], DownAsks, DownTells, Unlearned(t))
    BY DEF Way, Asking
  <2>2. CASE t = s
    <3>1. ASSUME NEW x \in DownMessage, NEW d \in Host, In(x, more) /\ <<x, d>> \in DownAsks
          PROVE  /\ d \in Unlearned(s)
                 /\ \A y \in DownMessage : In(y, down[s]) \/ In(y, more) => <<y, d>> \notin DownTells
      <4>1. port = FLOOD /\ f.dst = d
        BY <1>16, <1>17, <3>1, DownAsking
      <4>2. mac_to_port[s][d] = NONE /\ d # f.src
        BY <1>9, <1>12, <4>1
      <4>3. d \in Unlearned(s)
        BY <4>2 DEF Way, Told, Unlearned
      <4>4. \A y \in DownMessage : In(y, down[s]) => <<y, d>> \notin DownTells
        BY <4>2 DEF Way, Told
      <4>5. \A y \in DownMessage : In(y, more) => <<y, d>> \notin DownTells
        BY <1>16, <1>17, <4>2, DownAsking
      <4> QED
        BY <4>3, <4>4, <4>5
    <3>2. Fresh(down[s] \o more, DownAsks, DownTells, Unlearned(s))
      BY <1>18, <2>1, <2>2, <3>1, FreshMore
    <3> QED
      BY <1>18, <2>2, <3>2
  <2>3. CASE t # s
    BY <1>18, <2>1, <2>3
  <2> QED
    BY <2>2, <2>3
<1>25. ASSUME NEW t \in Switch, NEW q \in Port, NEW C, C = Unheard(t)'
       PROVE  Fresh(rx[t][q], RxAsks(t, q), RxTells, C)
  <2>1. Unheard(t) \subseteq C
    <3> SUFFICES ASSUME NEW d \in Unheard(t)
                 PROVE  d \in C
      OBVIOUS
    <3>1. /\ d \in Host /\ ~Knows(t, d) /\ mac_to_port[t][d] = NONE
          /\ \A n \in UpMessage : In(n, up[t]) => <<n, d>> \notin UpTells
      BY DEF Unheard, Unlearned, Untold
    <3>2. ~(t = s /\ d = f.src)
      BY <1>6, <1>7, <1>8, <3>1, UpAsking
    <3>3. d \in Unlearned(t)' /\ d \in Untold(t)'
      BY <1>1, <1>11, <3>1, <3>2 DEF Unlearned, Untold, Knows
    <3> QED
      BY <1>5, <1>25, <3>1, <3>3 DEF Unheard
  <2>2. Fresh(rx[t][q], RxAsks(t, q), RxTells, Unheard(t))
    BY DEF Way, Asking
  <2> QED
    BY <2>1, <2>2 DEF Fresh
<1>26. ASSUME NEW t \in Switch
       PROVE  Asking(t)'
  <2>1. Unlearned(t)' = Unlearned(t)
    BY <1>1 DEF Unlearned, Knows
  <2> QED
    BY <1>1, <1>23, <1>24, <1>25, <2>1 DEF Asking
<1> QED
  BY <1>20, <1>21, <1>22, <1>26 DEF Way

\* Every step keeps it, until the controller forgets.
LEMMA NextWay ==
    ASSUME Inv, WayInv, [Next]_vars
    PROVE  WayInv'
<1> SUFFICES ASSUME program' = "centralized", ~forgot'
             PROVE  Way'
  BY DEF WayInv
<1>1. CASE Sends
  <2>1. PICK flow \in Traffic : Send(flow[1], flow[2])
    BY <1>1 DEF Sends
  <2>2. PICK h \in Host, dst \in Host \cup {BROADCAST} : flow = <<h, dst>>
    BY LearningNetAssumption
  <2>3. h # dst /\ Send(h, dst)
    BY <2>1, <2>2, LearningNetAssumption
  <2>4. Way
    BY <2>3 DEF WayInv, Send
  <2> QED
    BY <2>3, <2>4, SendWay
<1>2. CASE \E s \in Switch, p \in Port : Forward(s, p)
  <2>1. PICK s \in Switch, p \in Port : Forward(s, p)
    BY <1>2
  <2>2. Way /\ program = "centralized"
    BY <2>1 DEF WayInv, Forward
  <2> QED
    BY <2>1, <2>2, ForwardWay
<1>3. CASE \E s \in Switch : Receive(s)
  <2>1. PICK s \in Switch : Receive(s)
    BY <1>3
  <2>2. Way
    BY <2>1 DEF WayInv, Receive
  <2> QED
    BY <2>1, <2>2, TableWay, PacketOutWay DEF Receive
<1>4. CASE \E s \in Switch : Handle(s)
  <2>1. PICK s \in Switch : Handle(s)
    BY <1>4
  <2>2. /\ up[s] # << >> /\ up' = [up EXCEPT ![s] = Tail(@)] /\ UNCHANGED <<switch, rx>>
        /\ program = "centralized" /\ ~forgot
    <3>1. forgot' = forgot \/ forgot' = (forgot \/ mac_to_port # Unknown)
      BY <2>1, Zenon DEF Handle, RecvHello, RecvPacketIn
    <3>2. ~forgot
      BY <3>1, Zenon
    <3>3. /\ up[s] # << >> /\ up' = [up EXCEPT ![s] = Tail(@)] /\ UNCHANGED <<switch, rx>>
          /\ UNCHANGED program
      BY <2>1 DEF Handle
    <3> QED
      BY <3>2, <3>3
  <2>3. Way
    BY <2>2 DEF WayInv
  <2> QED
    BY <2>1, <2>2, <2>3, HelloWay, PacketInWay DEF Handle
<1>5. CASE UNCHANGED vars
  <2>1. /\ UNCHANGED program /\ UNCHANGED forgot
        /\ UNCHANGED inports /\ UNCHANGED tx /\ UNCHANGED rx /\ UNCHANGED up
        /\ UNCHANGED down /\ UNCHANGED mac_to_port
    BY <1>5 DEF vars, switch, history
  <2>2. Way
    BY <2>1 DEF WayInv
  <2>3. \A t \in Switch : /\ Unlearned(t)' = Unlearned(t) /\ Untold(t)' = Untold(t)
                          /\ Unheard(t)' = Unheard(t)
    BY <2>1 DEF Unheard, Unlearned, Untold, Knows
  <2>4. RxAway' /\ TxAway' /\ DownAway'
    BY <2>1, <2>2 DEF Way, RxAway, TxAway, DownAway
  <2>5. \A t \in Switch : Asking(t)'
    BY <2>1, <2>2, <2>3 DEF Way, Asking
  <2>6. \A t \in Switch : Told(t)'
    BY <2>1, <2>2 DEF Way, Told, Knows
  <2> QED
    BY <2>4, <2>5, <2>6 DEF Way
<1> QED
  BY <1>1, <1>2, <1>3, <1>4, <1>5 DEF Next, Step

-----------------------------------------------------------------------------
(* One copy                                                                *)

\* While the controller forgets nothing, all goes away from its source.
LEMMA Directions ==
    ASSUME Inv, WayInv, ~forgot
    PROVE  /\ RxAway
           /\ \A s \in Switch, p \in Port, f \in Frame :
                  In(f, tx[s][p]) => Toward[s][f.src] # p
           /\ program = "centralized" => Way
<1>1. CASE program = "centralized"
  BY <1>1 DEF WayInv, Way, TxAway, AwayTo
<1>2. CASE program = "learningswitch"
  <2>1. RxAway
    BY <1>2 DEF Inv, RxOK, RxAway, Fitting
  <2>2. \A s \in Switch, p \in Port : tx[s][p] = << >>
    BY <1>2, NothingWaits
  <2> QED
    BY <1>2, <2>1, <2>2 DEF In
<1> QED
  BY <1>1, <1>2 DEF Inv, TypeOK

\* where in a sequence the members of C are
Pos(seq, C) == {k \in 1 .. Len(seq) : seq[k] \in C}

LEMMA PosTail ==
    ASSUME NEW S, NEW seq \in Seq(S), seq # << >>, NEW C
    PROVE  /\ \A k \in Pos(Tail(seq), C) : k \in Nat /\ k # 0 /\ k + 1 \in Pos(seq, C)
           /\ Head(seq) \in C => 1 \in Pos(seq, C)
<1>1. /\ Len(seq) \in Nat /\ Len(seq) >= 1 /\ Head(seq) = seq[1]
      /\ Len(Tail(seq)) = Len(seq) - 1
      /\ \A i \in 1 .. Len(seq) - 1 : Tail(seq)[i] = seq[i + 1]
  OBVIOUS
<1>2. ASSUME NEW k \in 1 .. Len(seq) - 1
      PROVE  k \in Nat /\ k # 0 /\ k + 1 \in 1 .. Len(seq)
  BY <1>1
<1>3. 1 \in 1 .. Len(seq)
  BY <1>1
<1> QED
  BY <1>1, <1>2, <1>3 DEF Pos

LEMMA PosMore ==
    ASSUME NEW S, NEW seq \in Seq(S), NEW more \in Seq(S), NEW C, NEW k \in Pos(seq \o more, C)
    PROVE  /\ k \in Nat /\ Len(seq) \in Nat
           /\ k \in Pos(seq, C) \/ \E i \in Pos(more, C) : i \in Nat /\ k = Len(seq) + i
<1> DEFINE whole == seq \o more
<1>1. /\ Len(seq) \in Nat /\ Len(more) \in Nat /\ Len(whole) = Len(seq) + Len(more)
      /\ \A i \in 1 .. Len(seq) : whole[i] = seq[i]
      /\ \A i \in 1 .. Len(more) : whole[Len(seq) + i] = more[i]
  BY InConcat
<1>2. k \in 1 .. Len(whole) /\ whole[k] \in C
  BY DEF Pos
<1> HIDE DEF whole
<1>3. CASE k <= Len(seq)
  <2>1. k \in 1 .. Len(seq)
    BY <1>1, <1>2, <1>3
  <2> QED
    BY <1>1, <1>2, <2>1 DEF Pos
<1>4. CASE k > Len(seq)
  <2>1. k - Len(seq) \in 1 .. Len(more) /\ k = Len(seq) + (k - Len(seq))
        /\ k - Len(seq) \in Nat
    BY <1>1, <1>2, <1>4
  <2>2. k - Len(seq) \in Pos(more, C)
    BY <1>1, <1>2, <2>1 DEF Pos
  <2> QED
    BY <1>1, <1>2, <2>1, <2>2
<1> QED
  BY <1>1, <1>2, <1>3, <1>4

LEMMA PosAppend ==
    ASSUME NEW S, NEW seq \in Seq(S), NEW x \in S, NEW C, NEW k \in Pos(Append(seq, x), C)
    PROVE  /\ k \in Nat /\ Len(seq) + 1 \in Nat
           /\ k \in Pos(seq, C) \/ (k = Len(seq) + 1 /\ x \in C)
<1>1. /\ Len(seq) \in Nat /\ Len(Append(seq, x)) = Len(seq) + 1
      /\ \A i \in 1 .. Len(seq) : Append(seq, x)[i] = seq[i]
      /\ Append(seq, x)[Len(seq) + 1] = x
  OBVIOUS
<1>2. k \in 1 .. Len(seq) + 1 /\ Append(seq, x)[k] \in C
  BY <1>1 DEF Pos
<1>3. CASE k = Len(seq) + 1
  BY <1>1, <1>2, <1>3
<1>4. CASE k # Len(seq) + 1
  <2>1. k \in 1 .. Len(seq)
    BY <1>1, <1>2, <1>4
  <2> QED
    BY <1>1, <1>2, <2>1 DEF Pos
<1> QED
  BY <1>3, <1>4

\* The places where a frame may be on its way to a host: what carries f, on the
\* switches for which f comes from another side than where h is.
Place == {"rx", "tx", "up", "down", "got"} \X Switch

Carries(f) ==
    {m \in UpMessage \cup DownMessage : m.type \in {"PACKET_IN", "PACKET_OUT"} /\ m.frame = f}

On(f, h, t) == Toward[t][f.src] # Toward[t][h]

\* where in each of them copies of f are
Line(R, T, U, D, G, f, h) ==
    [a \in Place |->
        IF a[1] = "got" THEN IF a[2] = At[h][1] THEN Pos(G[h], {f}) ELSE {}
        ELSE IF ~On(f, h, a[2]) THEN {}
        ELSE IF a[1] = "rx" THEN Pos(R[a[2]][Toward[a[2]][f.src]], {f})
        ELSE IF a[1] = "tx" THEN Pos(T[a[2]][Toward[a[2]][h]], {f})
        ELSE IF a[1] = "up" THEN Pos(U[a[2]], Carries(f))
        ELSE Pos(D[a[2]], Carries(f))]

Lines == [Place -> SUBSET Nat]

Single(Z) == \A a, b \in Place : \A i \in Z[a], j \in Z[b] : a = b /\ i = j
None(Z) == \A a \in Place : Z[a] = {}

\* the line, place by place
Reads(Z, R, T, U, D, G, f, h) ==
    \A t \in Switch :
        /\ Z[<<"got", t>>] = IF t = At[h][1] THEN Pos(G[h], {f}) ELSE {}
        /\ Z[<<"rx", t>>] = IF On(f, h, t) THEN Pos(R[t][Toward[t][f.src]], {f}) ELSE {}
        /\ Z[<<"tx", t>>] = IF On(f, h, t) THEN Pos(T[t][Toward[t][h]], {f}) ELSE {}
        /\ Z[<<"up", t>>] = IF On(f, h, t) THEN Pos(U[t], Carries(f)) ELSE {}
        /\ Z[<<"down", t>>] = IF On(f, h, t) THEN Pos(D[t], Carries(f)) ELSE {}

LEMMA LineIs ==
    ASSUME NEW R, NEW T, NEW U, NEW D, NEW G, NEW f, NEW h
    PROVE  /\ Line(R, T, U, D, G, f, h) \in Lines
           /\ Reads(Line(R, T, U, D, G, f, h), R, T, U, D, G, f, h)
<1>1. \A seq, C : Pos(seq, C) \in SUBSET Nat
  BY DEF Pos
<1>2. Line(R, T, U, D, G, f, h) \in Lines
  BY <1>1 DEF Line, Lines
<1>3. \A k \in {"rx", "tx", "up", "down", "got"}, t \in Switch : <<k, t>> \in Place
  BY DEF Place
<1>4. Reads(Line(R, T, U, D, G, f, h), R, T, U, D, G, f, h)
  BY <1>3, Zenon DEF Line, Reads
<1> QED
  BY <1>2, <1>4

LEMMA Places ==
    ASSUME NEW a \in Place
    PROVE  \E t \in Switch : a \in {<<"rx", t>>, <<"tx", t>>, <<"up", t>>, <<"down", t>>, <<"got", t>>}
BY DEF Place

\* A line with at most one copy keeps at most one, and one with none has none.
Kept(Z, Z2) == (Single(Z) => Single(Z2)) /\ (None(Z) => None(Z2))

\* The first of one place is taken, and may be put into another.
Shifts(Z, Z2, a, b, n) ==
    /\ a # b
    /\ \A i \in Z2[a] : i \in Nat /\ i # 0 /\ i + 1 \in Z[a]
    /\ \A i \in Z2[b] : i \in Z[b] \/ (i = n /\ 1 \in Z[a])
    /\ \A c \in Place : c # a /\ c # b => Z2[c] \subseteq Z[c]

LEMMA SingleMove ==
    ASSUME NEW Z \in Lines, NEW Z2 \in Lines, NEW a \in Place, NEW b \in Place, NEW n \in Nat,
           Shifts(Z, Z2, a, b, n)
    PROVE  Kept(Z, Z2)
<1> USE DEF Shifts
<1>1. ASSUME Single(Z), NEW c \in Place, NEW d \in Place, NEW i \in Z2[c], NEW j \in Z2[d]
      PROVE  c = d /\ i = j
  <2>1. CASE c = a
    <3>1. i \in Nat /\ i # 0 /\ i + 1 \in Z[a]
      BY <2>1
    <3>2. i + 1 # 1
      BY <3>1
    <3>3. d = a
      BY <1>1, <3>1, <3>2 DEF Single
    <3>4. j \in Nat /\ j + 1 \in Z[a]
      BY <3>3
    <3>5. i + 1 = j + 1
      BY <1>1, <3>1, <3>4 DEF Single
    <3> QED
      BY <2>1, <3>1, <3>3, <3>4, <3>5
  <2>2. CASE d = a
    <3>1. j \in Nat /\ j # 0 /\ j + 1 \in Z[a]
      BY <2>2
    <3>2. j + 1 # 1
      BY <3>1
    <3>3. c = a
      BY <1>1, <3>1, <3>2 DEF Single
    <3> QED
      BY <2>1, <3>3
  <2>3. CASE c # a /\ d # a
    <3>1. i \in Z[c] \/ (c = b /\ i = n /\ 1 \in Z[a])
      BY <2>3
    <3>2. j \in Z[d] \/ (d = b /\ j = n /\ 1 \in Z[a])
      BY <2>3
    <3> QED
      BY <1>1, <2>3, <3>1, <3>2 DEF Single
  <2> QED
    BY <2>1, <2>2, <2>3
<1>2. ASSUME None(Z)
      PROVE  None(Z2)
  BY <1>2 DEF None
<1> QED
  BY <1>1, <1>2 DEF Single, Kept

\* Something is taken away.
LEMMA SingleLess ==
    ASSUME NEW Z \in Lines, NEW Z2 \in Lines,
           \A c \in Place : Z2[c] \subseteq Z[c]
    PROVE  /\ Single(Z) => Single(Z2)
           /\ None(Z) => None(Z2)
BY DEF Single, None

\* One place is poured out into another, behind the first n there.
Pours(Z, Z2, a, b, n) ==
    /\ a # b
    /\ Z2[a] = {}
    /\ \A i \in Z2[b] : i \in Z[b] \/ \E j \in Z[a] : j \in Nat /\ i = n + j
    /\ \A c \in Place : c # a /\ c # b => Z2[c] \subseteq Z[c]

LEMMA SinglePour ==
    ASSUME NEW Z \in Lines, NEW Z2 \in Lines, NEW a \in Place, NEW b \in Place, NEW n \in Nat,
           Pours(Z, Z2, a, b, n)
    PROVE  Kept(Z, Z2)
<1> USE DEF Pours
<1>1. ASSUME Single(Z), NEW c \in Place, NEW d \in Place, NEW i \in Z2[c], NEW j \in Z2[d]
      PROVE  c = d /\ i = j
  <2>1. c # a /\ d # a
    OBVIOUS
  <2>2. i \in Z[c] \/ (c = b /\ \E k \in Z[a] : k \in Nat /\ i = n + k)
    BY <2>1
  <2>3. j \in Z[d] \/ (d = b /\ \E k \in Z[a] : k \in Nat /\ j = n + k)
    BY <2>1
  <2> QED
    BY <1>1, <2>1, <2>2, <2>3 DEF Single
<1>2. ASSUME None(Z)
      PROVE  None(Z2)
  BY <1>2 DEF None
<1> QED
  BY <1>1, <1>2 DEF Single, Kept

\* behind the frames of a port come those that arrive there
LEMMA PosFrames ==
    ASSUME NEW seq \in Seq(Frame), NEW more \in Seq(Frame), NEW C
    PROVE  \A i \in Pos(seq \o more, C) :
               i \in Pos(seq, C) \/ \E j \in Pos(more, C) : j \in Nat /\ i = Len(seq) + j
BY PosMore

\* What arrives on the way to h comes from the port of the last switch behind
\* which h is.
ComesOn(f, h, s, out) ==
    \A t \in Switch, q \in Port :
        q = Toward[t][f.src] /\ On(f, h, t) /\ Arriving(s, out, t, q) # << >> =>
            /\ On(f, h, s)
            /\ <<s, Toward[s][h], t, q>> \in Links
            /\ Arriving(s, out, t, q) = out[Toward[s][h]]

LEMMA ArrivesOn ==
    ASSUME NEW f \in Frame, NEW h \in Host, NEW s \in Switch, NEW out \in [Port -> Seq(Frame)]
    PROVE  ComesOn(f, h, s, out)
<1> SUFFICES ASSUME NEW t \in Switch, NEW q \in Port, q = Toward[t][f.src], On(f, h, t),
                    Arriving(s, out, t, q) # << >>
             PROVE  /\ On(f, h, s)
                    /\ <<s, Toward[s][h], t, q>> \in Links
                    /\ Arriving(s, out, t, q) = out[Toward[s][h]]
  BY DEF ComesOn
<1>1. PICK r \in Port : <<s, r, t, q>> \in Links /\ Arriving(s, out, t, q) = out[r]
  BY ArrivingFrom
<1>2. f.src \in Host /\ Toward[t][h] # q
  BY FrameType DEF On
<1>3. Toward[s][f.src] # r /\ Toward[s][h] = r
  BY <1>1, <1>2, LearningNetAssumption
<1> QED
  BY <1>1, <1>3 DEF On

\* When the ports of s send, what is on the way stays so, and is no more.
LEMMA Poured ==
    ASSUME NEW s \in Switch, NEW out \in [Port -> Seq(Frame)],
           NEW R \in [Switch -> [Port -> Seq(Frame)]], NEW G \in [Host -> Seq(Frame)],
           NEW T, NEW U, NEW D, NEW R2, NEW T2, NEW G2, NEW f \in Frame, NEW h \in Host,
           T[s] = out, \A r \in Port : T2[s][r] = << >>, \A t \in Switch : t # s => T2[t] = T[t],
           \A t \in Switch, q \in Port : R2[t][q] = R[t][q] \o Arriving(s, out, t, q),
           G2[h] = IF At[h][1] = s THEN G[h] \o out[At[h][2]] ELSE G[h],
           \A r \in Port : In(f, out[r]) => Toward[s][f.src] # r
    PROVE  Kept(Line(R, T, U, D, G, f, h), Line(R2, T2, U, D, G2, f, h))
<1> DEFINE Z == Line(R, T, U, D, G, f, h)
           Z2 == Line(R2, T2, U, D, G2, f, h)
<1>3. PICK p \in Port : p = Toward[s][h]
  BY LearningNetAssumption
<1>4. f.src \in Host /\ \A t \in Switch : Toward[t][f.src] \in Port /\ Toward[t][h] \in Port
  <2>1. f.src \in Host /\ h \in Host
    BY FrameType
  <2>2. Toward \in [Switch -> [Host -> Port]]
    BY LearningNetAssumption
  <2> QED
    BY ONLY <2>1, <2>2
<1>5. s \in Switch /\ out \in [Port -> Seq(Frame)] /\ f \in Frame /\ h \in Host
  OBVIOUS
<1>6. \A t \in Switch, q \in Port :
          q = Toward[t][f.src] /\ On(f, h, t) /\ Arriving(s, out, t, q) # << >> =>
              On(f, h, s) /\ <<s, p, t, q>> \in Links /\ Arriving(s, out, t, q) = out[p]
  <2>1. ComesOn(f, h, s, out)
    BY ONLY <1>5, ArrivesOn, Zenon
  <2> QED
    BY ONLY <1>3, <2>1 DEF ComesOn
<1>8. Z \in Lines /\ Z2 \in Lines
  BY LineIs
<1>a. Reads(Z, R, T, U, D, G, f, h)
  BY LineIs
<1>b. Reads(Z2, R2, T2, U, D, G2, f, h)
  BY LineIs
<1> SUFFICES Kept(Z, Z2)
  BY DEF Z, Z2
<1> HIDE DEF Z, Z2
\* the rings of s are empty then, those of the others as they were
<1>9. Z2[<<"tx", s>>] = {} /\ \A t \in Switch : t # s => Z2[<<"tx", t>>] = Z[<<"tx", t>>]
  <2>1. Pos(T2[s][p], {f}) = {}
    <3>1. T2[s][p] = << >>
      BY <1>3
    <3> QED
      BY <3>1 DEF Pos
  <2>2. \A t \in Switch : t # s => T2[t] = T[t]
    OBVIOUS
  <2>3. s \in Switch
    OBVIOUS
  <2>4. Z2[<<"tx", s>>] = {}
    BY ONLY <1>3, <1>b, <2>1, <2>3 DEF Reads
  <2> QED
    <3>1. ASSUME NEW t \in Switch, t # s
          PROVE  Z2[<<"tx", t>>] = Z[<<"tx", t>>]
      <4>1. Z[<<"tx", t>>] = IF On(f, h, t) THEN Pos(T[t][Toward[t][h]], {f}) ELSE {}
        BY ONLY <1>a, t \in Switch DEF Reads
      <4>2. Z2[<<"tx", t>>] = IF On(f, h, t) THEN Pos(T2[t][Toward[t][h]], {f}) ELSE {}
        BY ONLY <1>b, t \in Switch DEF Reads
      <4>3. T2[t] = T[t]
        BY <3>1
      <4> QED
        BY ONLY <4>1, <4>2, <4>3
    <3> QED
      BY <2>4, <3>1, Zenon
<1>10. \A t \in Switch : Z2[<<"up", t>>] = Z[<<"up", t>>] /\ Z2[<<"down", t>>] = Z[<<"down", t>>]
  <2> SUFFICES ASSUME NEW t \in Switch
               PROVE  Z2[<<"up", t>>] = Z[<<"up", t>>] /\ Z2[<<"down", t>>] = Z[<<"down", t>>]
    BY Zenon
  <2>1. /\ Z[<<"up", t>>] = IF On(f, h, t) THEN Pos(U[t], Carries(f)) ELSE {}
        /\ Z[<<"down", t>>] = IF On(f, h, t) THEN Pos(D[t], Carries(f)) ELSE {}
    BY ONLY <1>a, t \in Switch DEF Reads
  <2>2. /\ Z2[<<"up", t>>] = IF On(f, h, t) THEN Pos(U[t], Carries(f)) ELSE {}
        /\ Z2[<<"down", t>>] = IF On(f, h, t) THEN Pos(D[t], Carries(f)) ELSE {}
    BY ONLY <1>b, t \in Switch DEF Reads
  <2> QED
    BY ONLY <2>1, <2>2
\* what arrives
<1>11. ASSUME NEW t \in Switch, ~(On(f, h, s) /\ <<s, p, t, Toward[t][f.src]>> \in Links)
       PROVE  Z2[<<"rx", t>>] = Z[<<"rx", t>>]
  <2>1. CASE ~On(f, h, t)
    BY <1>a, <1>b, <2>1 DEF Reads
  <2>2. CASE On(f, h, t)
    <3>1. PICK q \in Port : q = Toward[t][f.src]
      BY <1>4
    <3>3. Arriving(s, out, t, q) = << >>
      BY ONLY <1>6, <1>11, <2>2, <3>1
    <3>4. R[t][q] \in Seq(Frame) /\ R2[t][q] = R[t][q] \o Arriving(s, out, t, q)
      OBVIOUS
    <3>5. R2[t][q] = R[t][q]
      BY ONLY <3>3, <3>4
    <3> QED
      <4>1. Z[<<"rx", t>>] = IF On(f, h, t) THEN Pos(R[t][Toward[t][f.src]], {f}) ELSE {}
        BY ONLY <1>a, t \in Switch DEF Reads
      <4>2. Z2[<<"rx", t>>] = IF On(f, h, t) THEN Pos(R2[t][Toward[t][f.src]], {f}) ELSE {}
        BY ONLY <1>b, t \in Switch DEF Reads
      <4> QED
        BY ONLY <3>1, <3>5, <4>1, <4>2
  <2> QED
    BY <2>1, <2>2
<1>12. ASSUME NEW t \in Switch, On(f, h, s), <<s, p, t, Toward[t][f.src]>> \in Links
       PROVE  \E n \in Nat : \A i \in Z2[<<"rx", t>>] :
                  i \in Z[<<"rx", t>>] \/ \E j \in Z[<<"tx", s>>] : j \in Nat /\ i = n + j
  <2>1. PICK q \in Port : q = Toward[t][f.src]
    BY <1>4
  <2>2. R[t][q] \in Seq(Frame) /\ out[p] \in Seq(Frame) /\ Len(R[t][q]) \in Nat
    OBVIOUS
  <2>3. CASE ~On(f, h, t)
    BY <1>b, <2>3 DEF Reads
  <2>4. CASE On(f, h, t)
    <3>1. Arriving(s, out, t, q) = << >> \/ Arriving(s, out, t, q) = out[p]
      BY ONLY <1>6, <2>1, <2>4, <1>12
    <3>5. R2[t][q] = R[t][q] \o Arriving(s, out, t, q)
      OBVIOUS
    <3>2. R2[t][q] = R[t][q] \/ R2[t][q] = R[t][q] \o out[p]
      <4>1. R[t][q] \o << >> = R[t][q]
        BY ONLY <2>2
      <4> QED
        BY ONLY <3>1, <3>5, <4>1
    <3>3. /\ Z2[<<"rx", t>>] = Pos(R2[t][q], {f})
          /\ Z[<<"rx", t>>] = Pos(R[t][q], {f})
          /\ Z[<<"tx", s>>] = Pos(out[p], {f})
      BY <1>3, <1>12, <1>a, <1>b, <2>1, <2>4 DEF Reads
    <3>4. \A i \in Pos(R[t][q] \o out[p], {f}) :
              \/ i \in Pos(R[t][q], {f})
              \/ \E j \in Pos(out[p], {f}) : j \in Nat /\ i = Len(R[t][q]) + j
      BY ONLY <2>2, PosFrames
    <3>6. \A i \in Z2[<<"rx", t>>] :
              \/ i \in Z[<<"rx", t>>]
              \/ \E j \in Z[<<"tx", s>>] : j \in Nat /\ i = Len(R[t][q]) + j
      BY ONLY <3>2, <3>3, <3>4
    <3> QED
      BY ONLY <2>2, <3>6
  <2> QED
    BY <2>3, <2>4
\* what the host gets
<1>13. At[h] \in Switch \X Port /\ Toward[At[h][1]][h] = At[h][2] /\ ~Wired(At[h][1], At[h][2])
  BY LearningNetAssumption
<1>14. At[h][1] # s => \A t \in Switch : Z2[<<"got", t>>] = Z[<<"got", t>>]
  <2>1. At[h][1] # s => G2[h] = G[h]
    OBVIOUS
  <2> QED
    <3> SUFFICES ASSUME At[h][1] # s, NEW t \in Switch
                 PROVE  Z2[<<"got", t>>] = Z[<<"got", t>>]
      BY Zenon
    <3>1. Z[<<"got", t>>] = IF t = At[h][1] THEN Pos(G[h], {f}) ELSE {}
      BY ONLY <1>a, t \in Switch DEF Reads
    <3>2. Z2[<<"got", t>>] = IF t = At[h][1] THEN Pos(G2[h], {f}) ELSE {}
      BY ONLY <1>b, t \in Switch DEF Reads
    <3> QED
      BY <2>1, <3>1, <3>2
<1>15. ASSUME At[h][1] = s
       PROVE  \E n \in Nat : \A t \in Switch : \A i \in Z2[<<"got", t>>] :
                  \/ i \in Z[<<"got", t>>]
                  \/ t = s /\ On(f, h, s) /\ \E j \in Z[<<"tx", s>>] : j \in Nat /\ i = n + j
  <2>1. G[h] \in Seq(Frame) /\ out[p] \in Seq(Frame) /\ Len(G[h]) \in Nat
    OBVIOUS
  <2>2. G2[h] = G[h] \o out[p]
    BY <1>3, <1>13, <1>15
  <2>3. ASSUME NEW t \in Switch, NEW i \in Z2[<<"got", t>>]
        PROVE  \/ i \in Z[<<"got", t>>]
               \/ /\ t = s /\ On(f, h, s)
                  /\ \E j \in Z[<<"tx", s>>] : j \in Nat /\ i = Len(G[h]) + j
    <3>1. t = s /\ i \in Pos(G[h] \o out[p], {f})
      <4>1. Z2[<<"got", t>>] = IF t = s THEN Pos(G[h] \o out[p], {f}) ELSE {}
        BY ONLY <1>15, <1>b, <2>2, t \in Switch DEF Reads
      <4> QED
        BY ONLY <4>1, i \in Z2[<<"got", t>>]
    <3>2. i \in Pos(G[h], {f}) \/ \E j \in Pos(out[p], {f}) : j \in Nat /\ i = Len(G[h]) + j
      BY ONLY <2>1, <3>1, PosFrames
    <3>3. CASE i \in Pos(G[h], {f})
      BY <1>15, <1>a, <3>1, <3>3 DEF Reads
    <3>4. CASE \E j \in Pos(out[p], {f}) : j \in Nat /\ i = Len(G[h]) + j
      <4>1. PICK j \in Pos(out[p], {f}) : j \in Nat /\ i = Len(G[h]) + j
        BY <3>4
      <4>2. In(f, out[p])
        BY <4>1 DEF Pos, In
      <4>3. On(f, h, s)
        BY <1>3, <4>2 DEF On
      <4>4. Z[<<"tx", s>>] = Pos(out[p], {f})
        BY <1>3, <1>a, <4>3 DEF Reads
      <4> QED
        BY <3>1, <4>1, <4>3, <4>4
    <3> QED
      BY <3>2, <3>3, <3>4
  <2> QED
    BY <2>1, <2>3
\* at most one of them gets it
<1>16. \A t \in Switch : /\ <<"tx", t>> \in Place /\ <<"rx", t>> \in Place /\ <<"got", t>> \in Place
                         /\ <<"up", t>> \in Place /\ <<"down", t>> \in Place
  BY DEF Place
<1>17. CASE On(f, h, s) /\ At[h][1] = s
  <2>1. \A t \in Switch : Z2[<<"rx", t>>] = Z[<<"rx", t>>]
    <3>1. \A t \in Switch, q \in Port : <<s, p, t, q>> \notin Links
      BY <1>3, <1>13, <1>17 DEF Wired
    <3> QED
      BY <1>4, <1>11, <3>1, Zenon
  <2>2. PICK n \in Nat : \A t \in Switch : \A i \in Z2[<<"got", t>>] :
            \/ i \in Z[<<"got", t>>]
            \/ t = s /\ On(f, h, s) /\ \E j \in Z[<<"tx", s>>] : j \in Nat /\ i = n + j
    BY <1>15, <1>17
  <2>3. \A c \in Place : c # <<"tx", s>> /\ c # <<"got", s>> => Z2[c] \subseteq Z[c]
    <3> SUFFICES ASSUME NEW c \in Place, c # <<"tx", s>> /\ c # <<"got", s>>
                 PROVE  Z2[c] \subseteq Z[c]
      OBVIOUS
    <3>1. PICK t \in Switch : c \in {<<"rx", t>>, <<"tx", t>>, <<"up", t>>, <<"down", t>>, <<"got", t>>}
      BY Places
    <3>2. t = s => c \in {<<"rx", t>>, <<"up", t>>, <<"down", t>>}
      BY ONLY <3>1, c # <<"tx", s>> /\ c # <<"got", s>>
    <3> QED
      BY ONLY <1>9, <1>10, <2>1, <2>2, <3>1, <3>2
  <2>4. \A i \in Z2[<<"got", s>>] :
            i \in Z[<<"got", s>>] \/ \E j \in Z[<<"tx", s>>] : j \in Nat /\ i = n + j
    BY <2>2
  <2>5. <<"tx", s>> # <<"got", s>>
    OBVIOUS
  <2> QED
    <3>1. Z2[<<"tx", s>>] = {} /\ <<"tx", s>> \in Place /\ <<"got", s>> \in Place
      BY ONLY <1>9, <1>16, s \in Switch
    <3>2. Pours(Z, Z2, <<"tx", s>>, <<"got", s>>, n)
      BY ONLY <2>3, <2>4, <2>5, <3>1 DEF Pours
    <3> QED
      BY ONLY <1>8, n \in Nat, <3>1, <3>2, SinglePour, Zenon
<1>18. CASE At[h][1] # s /\ On(f, h, s) /\ \E t \in Switch : <<s, p, t, Toward[t][f.src]>> \in Links
  <2>1. PICK t \in Switch : <<s, p, t, Toward[t][f.src]>> \in Links
    BY <1>18
  <2>2. \A u \in Switch : u # t => Z2[<<"rx", u>>] = Z[<<"rx", u>>]
    <3>1. ASSUME NEW u \in Switch, <<s, p, u, Toward[u][f.src]>> \in Links
          PROVE  u = t
      <4>1. \A u1, u2 \in Switch, p1, q1, r1 \in Port :
                <<s, p1, u1, q1>> \in Links /\ <<s, p1, u2, r1>> \in Links => u1 = u2
        BY LearningNetAssumption
      <4> QED
        BY ONLY <1>3, <1>4, <2>1, <3>1, <4>1
    <3> QED
      BY <1>11, <3>1
  <2>3. PICK n \in Nat : \A i \in Z2[<<"rx", t>>] :
            i \in Z[<<"rx", t>>] \/ \E j \in Z[<<"tx", s>>] : j \in Nat /\ i = n + j
    BY <1>12, <1>18, <2>1
  <2>4. \A c \in Place : c # <<"tx", s>> /\ c # <<"rx", t>> => Z2[c] \subseteq Z[c]
    <3> SUFFICES ASSUME NEW c \in Place, c # <<"tx", s>> /\ c # <<"rx", t>>
                 PROVE  Z2[c] \subseteq Z[c]
      OBVIOUS
    <3>1. PICK u \in Switch : c \in {<<"rx", u>>, <<"tx", u>>, <<"up", u>>, <<"down", u>>, <<"got", u>>}
      BY Places
    <3> QED
      BY ONLY <1>9, <1>10, <1>14, <1>18, <2>2, <3>1, c # <<"tx", s>> /\ c # <<"rx", t>>
  <2>5. <<"tx", s>> # <<"rx", t>>
    OBVIOUS
  <2> QED
    <3>1. Z2[<<"tx", s>>] = {} /\ <<"tx", s>> \in Place /\ <<"rx", t>> \in Place
      BY ONLY <1>9, <1>16, <2>1, s \in Switch
    <3>2. Pours(Z, Z2, <<"tx", s>>, <<"rx", t>>, n)
      BY ONLY <2>3, <2>4, <2>5, <3>1 DEF Pours
    <3> QED
      BY ONLY <1>8, n \in Nat, <3>1, <3>2, SinglePour, Zenon
<1>19. CASE \/ ~On(f, h, s)
            \/ At[h][1] # s /\ ~\E t \in Switch : <<s, p, t, Toward[t][f.src]>> \in Links
  <2>1. \A t \in Switch : Z2[<<"rx", t>>] = Z[<<"rx", t>>]
    BY <1>11, <1>19, Zenon
  <2>2. \A t \in Switch : Z2[<<"got", t>>] \subseteq Z[<<"got", t>>]
    BY <1>14, <1>15, <1>19, Zenon
  <2>3. \A c \in Place : Z2[c] \subseteq Z[c]
    <3> SUFFICES ASSUME NEW c \in Place
                 PROVE  Z2[c] \subseteq Z[c]
      OBVIOUS
    <3>1. PICK t \in Switch : c \in {<<"rx", t>>, <<"tx", t>>, <<"up", t>>, <<"down", t>>, <<"got", t>>}
      BY Places
    <3>2. Z2[<<"tx", t>>] \subseteq Z[<<"tx", t>>]
      BY ONLY <1>9, t \in Switch
    <3>3. /\ Z2[<<"rx", t>>] \subseteq Z[<<"rx", t>>]
          /\ Z2[<<"up", t>>] \subseteq Z[<<"up", t>>]
          /\ Z2[<<"down", t>>] \subseteq Z[<<"down", t>>]
          /\ Z2[<<"got", t>>] \subseteq Z[<<"got", t>>]
      BY ONLY <1>10, <2>1, <2>2, t \in Switch
    <3> QED
      BY ONLY <3>1, <3>2, <3>3
  <2> QED
    BY ONLY <1>8, <2>3, SingleLess, Zenon DEF Kept
<1>20. \/ On(f, h, s) /\ At[h][1] = s
       \/ At[h][1] # s /\ On(f, h, s) /\ \E t \in Switch : <<s, p, t, Toward[t][f.src]>> \in Links
       \/ ~On(f, h, s)
       \/ At[h][1] # s /\ ~\E t \in Switch : <<s, p, t, Toward[t][f.src]>> \in Links
  OBVIOUS
<1> QED
  BY ONLY <1>17, <1>18, <1>19, <1>20

\* Nothing but what is at s changes.
Near(s, R, T, U, D, R2, T2, U2, D2) ==
    \A t \in Switch : t # s => R2[t] = R[t] /\ T2[t] = T[t] /\ U2[t] = U[t] /\ D2[t] = D[t]

\* What that leaves alone in a line.
Apart(s, Z, Z2, off) ==
    /\ Z \in Lines /\ Z2 \in Lines
    /\ \A c \in Place : c \notin {<<"rx", s>>, <<"tx", s>>, <<"up", s>>, <<"down", s>>} =>
           Z2[c] = Z[c]
    /\ off => \A c \in Place : Z2[c] = Z[c]

LEMMA OneSwitch ==
    ASSUME NEW s \in Switch, NEW f, NEW h, NEW R, NEW T, NEW U, NEW D, NEW G,
           NEW R2, NEW T2, NEW U2, NEW D2, Near(s, R, T, U, D, R2, T2, U2, D2)
    PROVE  Apart(s, Line(R, T, U, D, G, f, h), Line(R2, T2, U2, D2, G, f, h), ~On(f, h, s))
<1> DEFINE Z == Line(R, T, U, D, G, f, h)
           Z2 == Line(R2, T2, U2, D2, G, f, h)
<1>0. Z = Line(R, T, U, D, G, f, h) /\ Z2 = Line(R2, T2, U2, D2, G, f, h)
  OBVIOUS
<1> SUFFICES Apart(s, Z, Z2, ~On(f, h, s))
  OBVIOUS
<1> HIDE DEF Z, Z2
<1>1. Z \in Lines /\ Z2 \in Lines
  BY LineIs DEF Z, Z2
<1>2. Reads(Z, R, T, U, D, G, f, h)
  BY LineIs DEF Z
<1>3. Reads(Z2, R2, T2, U2, D2, G, f, h)
  BY LineIs DEF Z2
<1>4. ASSUME NEW t \in Switch
      PROVE  /\ Z2[<<"got", t>>] = Z[<<"got", t>>]
             /\ t # s \/ ~On(f, h, t) \/ R2[t] = R[t] => Z2[<<"rx", t>>] = Z[<<"rx", t>>]
             /\ t # s \/ ~On(f, h, t) \/ T2[t] = T[t] => Z2[<<"tx", t>>] = Z[<<"tx", t>>]
             /\ t # s \/ ~On(f, h, t) \/ U2[t] = U[t] => Z2[<<"up", t>>] = Z[<<"up", t>>]
             /\ t # s \/ ~On(f, h, t) \/ D2[t] = D[t] => Z2[<<"down", t>>] = Z[<<"down", t>>]
  <2>1. t # s => R2[t] = R[t] /\ T2[t] = T[t] /\ U2[t] = U[t] /\ D2[t] = D[t]
    BY DEF Near
  <2>2. /\ Z[<<"got", t>>] = IF t = At[h][1] THEN Pos(G[h], {f}) ELSE {}
        /\ Z[<<"rx", t>>] = IF On(f, h, t) THEN Pos(R[t][Toward[t][f.src]], {f}) ELSE {}
        /\ Z[<<"tx", t>>] = IF On(f, h, t) THEN Pos(T[t][Toward[t][h]], {f}) ELSE {}
        /\ Z[<<"up", t>>] = IF On(f, h, t) THEN Pos(U[t], Carries(f)) ELSE {}
        /\ Z[<<"down", t>>] = IF On(f, h, t) THEN Pos(D[t], Carries(f)) ELSE {}
    BY ONLY <1>2, t \in Switch DEF Reads
  <2>3. /\ Z2[<<"got", t>>] = IF t = At[h][1] THEN Pos(G[h], {f}) ELSE {}
        /\ Z2[<<"rx", t>>] = IF On(f, h, t) THEN Pos(R2[t][Toward[t][f.src]], {f}) ELSE {}
        /\ Z2[<<"tx", t>>] = IF On(f, h, t) THEN Pos(T2[t][Toward[t][h]], {f}) ELSE {}
        /\ Z2[<<"up", t>>] = IF On(f, h, t) THEN Pos(U2[t], Carries(f)) ELSE {}
        /\ Z2[<<"down", t>>] = IF On(f, h, t) THEN Pos(D2[t], Carries(f)) ELSE {}
    BY ONLY <1>3, t \in Switch DEF Reads
  <2> QED
    BY ONLY <2>1, <2>2, <2>3
<1>5. ASSUME NEW c \in Place,
             \/ c \notin {<<"rx", s>>, <<"tx", s>>, <<"up", s>>, <<"down", s>>}
             \/ ~On(f, h, s)
      PROVE  Z2[c] = Z[c]
  <2>1. PICK t \in Switch : c \in {<<"rx", t>>, <<"tx", t>>, <<"up", t>>, <<"down", t>>, <<"got", t>>}
    BY Places
  <2>2. /\ c = <<"got", t>> \/ t # s \/ ~On(f, h, t)
    BY ONLY <1>5, <2>1
  <2> QED
    BY ONLY <1>4, <2>1, <2>2, t \in Switch
<1> QED
  BY ONLY <1>1, <1>5 DEF Apart

\* The first of one place is taken, and may be put at the end of another.
Moves(Z, Z2, a, b) ==
    /\ Z \in Lines /\ Z2 \in Lines /\ a \in Place /\ b \in Place /\ a # b
    /\ \A i \in Z2[a] : i \in Nat /\ i # 0 /\ i + 1 \in Z[a]
    /\ \E n \in Nat : \A i \in Z2[b] : i \in Z[b] \/ (i = n /\ 1 \in Z[a])
    /\ \A c \in Place : c # a /\ c # b => Z2[c] = Z[c]

LEMMA Hop ==
    ASSUME NEW Z, NEW Z2, NEW a, NEW b, Moves(Z, Z2, a, b)
    PROVE  Kept(Z, Z2)
<1>1. PICK n \in Nat : \A i \in Z2[b] : i \in Z[b] \/ (i = n /\ 1 \in Z[a])
  BY DEF Moves
<1>2. Z \in Lines /\ Z2 \in Lines /\ a \in Place /\ b \in Place /\ a # b /\ n \in Nat
  BY DEF Moves
<1>3. \A i \in Z2[a] : i \in Nat /\ i # 0 /\ i + 1 \in Z[a]
  BY DEF Moves
<1>4. \A c \in Place : c # a /\ c # b => Z2[c] \subseteq Z[c]
  BY DEF Moves
<1>5. Shifts(Z, Z2, a, b, n)
  BY ONLY <1>1, <1>2, <1>3, <1>4 DEF Shifts
<1> QED
  BY ONLY <1>2, <1>5, SingleMove, Zenon

\* Nothing comes in.
LEMMA Less ==
    ASSUME NEW Z \in Lines, NEW Z2 \in Lines, \A c \in Place : Z2[c] \subseteq Z[c]
    PROVE  Kept(Z, Z2)
BY SingleLess DEF Kept

LEMMA HerePlaces ==
    ASSUME NEW s \in Switch
    PROVE  /\ <<"rx", s>> \in Place /\ <<"tx", s>> \in Place
           /\ <<"up", s>> \in Place /\ <<"down", s>> \in Place
BY DEF Place

LEMMA TowardPort ==
    ASSUME NEW s \in Switch, NEW h \in Host
    PROVE  Toward[s][h] \in Port
BY LearningNetAssumption

\* g is the first at port p of s, from the side of its source, and is taken.
Takes(s, p, g, R, R2) ==
    /\ R[s][p] # << >> /\ g = Head(R[s][p]) /\ Toward[s][g.src] = p
    /\ R2 = [R EXCEPT ![s][p] = Tail(@)]

\* g is put into some of the rings of s.
Puts(s, g, T, T2) ==
    /\ \A t \in Switch : t # s => T2[t] = T[t]
    /\ \A r \in Port : T2[s][r] = T[s][r] \/ T2[s][r] = Append(T[s][r], g)

\* A frame goes from where it came in to the transmit rings of the switch.
LEMMA RxToTx ==
    ASSUME NEW s \in Switch, NEW p \in Port, NEW g \in Frame, NEW f \in Frame, NEW h \in Host,
           NEW R \in [Switch -> [Port -> Seq(Frame)]], NEW T \in [Switch -> [Port -> Seq(Frame)]],
           NEW U, NEW D, NEW G, NEW R2, NEW T2,
           Takes(s, p, g, R, R2), Puts(s, g, T, T2)
    PROVE  Kept(Line(R, T, U, D, G, f, h), Line(R2, T2, U, D, G, f, h))
<1>a. /\ R[s][p] # << >> /\ g = Head(R[s][p]) /\ Toward[s][g.src] = p
      /\ R2 = [R EXCEPT ![s][p] = Tail(@)]
  BY DEF Takes
<1>b. /\ \A t \in Switch : t # s => T2[t] = T[t]
      /\ \A r \in Port : T2[s][r] = T[s][r] \/ T2[s][r] = Append(T[s][r], g)
  BY DEF Puts
<1> DEFINE Z == Line(R, T, U, D, G, f, h)
           Z2 == Line(R2, T2, U, D, G, f, h)
<1>1. Near(s, R, T, U, D, R2, T2, U, D)
  BY <1>a, <1>b DEF Near
<1> SUFFICES Kept(Z, Z2)
  OBVIOUS
<1> HIDE DEF Z, Z2
<1>2. /\ Z \in Lines /\ Z2 \in Lines
      /\ \A c \in Place : c \notin {<<"rx", s>>, <<"tx", s>>, <<"up", s>>, <<"down", s>>} =>
             Z2[c] = Z[c]
      /\ ~On(f, h, s) => \A c \in Place : Z2[c] = Z[c]
  <2>1. Apart(s, Z, Z2, ~On(f, h, s))
    BY <1>1, OneSwitch DEF Z, Z2
  <2> QED
    BY ONLY <2>1 DEF Apart
<1>3. ASSUME On(f, h, s)
      PROVE  /\ Z[<<"rx", s>>] = Pos(R[s][Toward[s][f.src]], {f})
             /\ Z[<<"tx", s>>] = Pos(T[s][Toward[s][h]], {f})
             /\ Z2[<<"rx", s>>] = Pos(R2[s][Toward[s][f.src]], {f})
             /\ Z2[<<"tx", s>>] = Pos(T2[s][Toward[s][h]], {f})
             /\ Z2[<<"up", s>>] = Z[<<"up", s>>]
             /\ Z2[<<"down", s>>] = Z[<<"down", s>>]
  <2>1. Reads(Z, R, T, U, D, G, f, h)
    BY LineIs DEF Z
  <2>2. Reads(Z2, R2, T2, U, D, G, f, h)
    BY LineIs DEF Z2
  <2> QED
    BY ONLY <1>3, <2>1, <2>2, s \in Switch DEF Reads
<1>4. PICK a \in Place, b \in Place : a = <<"rx", s>> /\ b = <<"tx", s>> /\ a # b
  BY HerePlaces
<1>5. \A c \in Place : c # a /\ c # b => Z2[c] = Z[c]
  BY ONLY <1>2, <1>3, <1>4
<1>6. CASE ~On(f, h, s)
  BY <1>2, <1>6, Less
<1>7. CASE On(f, h, s)
  <2>1. PICK q \in Port, r \in Port : q = Toward[s][f.src] /\ r = Toward[s][h]
    <3>1. f.src \in Host
      BY FrameType
    <3> QED
      BY <3>1, TowardPort
  <2>2. /\ R[s][p] \in Seq(Frame) /\ T[s][r] \in Seq(Frame) /\ R2[s][p] = Tail(R[s][p])
        /\ \A u \in Port : u # p => R2[s][u] = R[s][u]
    BY <1>a
  <2>3. /\ Z[a] = Pos(R[s][q], {f}) /\ Z2[a] = Pos(R2[s][q], {f})
        /\ Z[b] = Pos(T[s][r], {f}) /\ Z2[b] = Pos(T2[s][r], {f})
    BY ONLY <1>3, <1>4, <1>7, <2>1
  <2>4. PICK n \in Nat : n = Len(T[s][r]) + 1
    BY <2>2
  <2>5. \A i \in Z2[b] : i \in Z[b] \/ (i = n /\ g = f)
    <3> SUFFICES ASSUME NEW i \in Z2[b]
                 PROVE  i \in Z[b] \/ (i = n /\ g = f)
      OBVIOUS
    <3>1. CASE T2[s][r] = T[s][r]
      BY ONLY <2>3, <3>1, i \in Z2[b]
    <3>2. CASE T2[s][r] = Append(T[s][r], g)
      <4>1. i \in Pos(Append(T[s][r], g), {f})
        BY ONLY <2>3, <3>2, i \in Z2[b]
      <4>2. i \in Pos(T[s][r], {f}) \/ (i = Len(T[s][r]) + 1 /\ g \in {f})
        BY <2>2, <4>1, PosAppend
      <4> QED
        BY ONLY <2>3, <2>4, <4>2
    <3> QED
      BY <1>b, <3>1, <3>2
  <2>6. CASE q = p
    <3>1. Z[a] = Pos(R[s][p], {f}) /\ Z2[a] = Pos(Tail(R[s][p]), {f})
      BY ONLY <2>2, <2>3, <2>6
    <3>3. R[s][p] # << >>
      BY <1>a
    <3>4. (\A i \in Z2[a] : i \in Nat /\ i # 0 /\ i + 1 \in Z[a]) /\ (g = f => 1 \in Z[a])
      BY <1>a, <2>2, <3>1, <3>3, PosTail
    <3>5. \A i \in Z2[b] : i \in Z[b] \/ (i = n /\ 1 \in Z[a])
      BY ONLY <2>5, <3>4
    <3>6. Moves(Z, Z2, a, b)
      BY ONLY <1>2, <1>4, <1>5, <3>4, <3>5, n \in Nat, a \in Place, b \in Place DEF Moves
    <3> QED
      BY <3>6, Hop
  <2>7. CASE q # p
    <3>1. Z2[a] = Z[a]
      BY ONLY <2>2, <2>3, <2>7, q \in Port
    <3>2. g # f
      BY <1>a, <2>1, <2>7
    <3>3. \A c \in Place : Z2[c] \subseteq Z[c]
      BY ONLY <1>5, <2>5, <3>1, <3>2
    <3> QED
      BY <1>2, <3>3, Less
  <2> QED
    BY <2>6, <2>7
<1> QED
  BY <1>6, <1>7

\* The controller is asked about a frame that came in.
LEMMA RxToUp ==
    ASSUME NEW s \in Switch, NEW p \in Port, NEW g \in Frame, NEW f \in Frame, NEW h \in Host,
           NEW R \in [Switch -> [Port -> Seq(Frame)]], NEW U \in [Switch -> Seq(UpMessage)],
           NEW T, NEW D, NEW G, NEW R2, NEW U2,
           Takes(s, p, g, R, R2),
           U2 = [U EXCEPT ![s] = Append(@, PacketIn(g, p))]
    PROVE  Kept(Line(R, T, U, D, G, f, h), Line(R2, T, U2, D, G, f, h))
<1>a. /\ R[s][p] # << >> /\ g = Head(R[s][p]) /\ Toward[s][g.src] = p
      /\ R2 = [R EXCEPT ![s][p] = Tail(@)]
  BY DEF Takes
<1> DEFINE Z == Line(R, T, U, D, G, f, h)
           Z2 == Line(R2, T, U2, D, G, f, h)
<1>1. Near(s, R, T, U, D, R2, T, U2, D)
  BY <1>a DEF Near
<1> SUFFICES Kept(Z, Z2)
  OBVIOUS
<1> HIDE DEF Z, Z2
<1>2. /\ Z \in Lines /\ Z2 \in Lines
      /\ \A c \in Place : c \notin {<<"rx", s>>, <<"tx", s>>, <<"up", s>>, <<"down", s>>} =>
             Z2[c] = Z[c]
      /\ ~On(f, h, s) => \A c \in Place : Z2[c] = Z[c]
  <2>1. Apart(s, Z, Z2, ~On(f, h, s))
    BY <1>1, OneSwitch DEF Z, Z2
  <2> QED
    BY ONLY <2>1 DEF Apart
<1>3. ASSUME On(f, h, s)
      PROVE  /\ Z[<<"rx", s>>] = Pos(R[s][Toward[s][f.src]], {f})
             /\ Z[<<"up", s>>] = Pos(U[s], Carries(f))
             /\ Z2[<<"rx", s>>] = Pos(R2[s][Toward[s][f.src]], {f})
             /\ Z2[<<"up", s>>] = Pos(U2[s], Carries(f))
             /\ Z2[<<"tx", s>>] = Z[<<"tx", s>>]
             /\ Z2[<<"down", s>>] = Z[<<"down", s>>]
  <2>1. Reads(Z, R, T, U, D, G, f, h)
    BY LineIs DEF Z
  <2>2. Reads(Z2, R2, T, U2, D, G, f, h)
    BY LineIs DEF Z2
  <2> QED
    BY ONLY <1>3, <2>1, <2>2, s \in Switch DEF Reads
<1>4. PICK a \in Place, b \in Place : a = <<"rx", s>> /\ b = <<"up", s>> /\ a # b
  BY HerePlaces
<1>5. \A c \in Place : c # a /\ c # b => Z2[c] = Z[c]
  BY ONLY <1>2, <1>3, <1>4
<1>6. CASE ~On(f, h, s)
  BY <1>2, <1>6, Less
<1>7. CASE On(f, h, s)
  <2>1. PICK q \in Port : q = Toward[s][f.src]
    <3>1. f.src \in Host
      BY FrameType
    <3> QED
      BY <3>1, TowardPort
  <2>m. PICK m \in UpMessage : m = PacketIn(g, p) /\ (m \in Carries(f) => g = f)
    <3>1. PacketIn(g, p) \in UpMessage
      BY DEF UpMessage
    <3>2. PacketIn(g, p).frame = g
      BY DEF PacketIn
    <3> QED
      BY <3>1, <3>2 DEF Carries
  <2>2. /\ R[s][p] \in Seq(Frame) /\ U[s] \in Seq(UpMessage) /\ R2[s][p] = Tail(R[s][p])
        /\ \A u \in Port : u # p => R2[s][u] = R[s][u]
        /\ U2[s] = Append(U[s], m)
    BY <1>a, <2>m
  <2>3. /\ Z[a] = Pos(R[s][q], {f}) /\ Z2[a] = Pos(R2[s][q], {f})
        /\ Z[b] = Pos(U[s], Carries(f)) /\ Z2[b] = Pos(Append(U[s], m), Carries(f))
    BY ONLY <1>3, <1>4, <1>7, <2>1, <2>2
  <2>4. PICK n \in Nat : n = Len(U[s]) + 1
    BY <2>2
  <2>5. \A i \in Z2[b] : i \in Z[b] \/ (i = n /\ g = f)
    <3> SUFFICES ASSUME NEW i \in Z2[b]
                 PROVE  i \in Z[b] \/ (i = n /\ g = f)
      OBVIOUS
    <3>1. i \in Pos(Append(U[s], m), Carries(f))
      BY ONLY <2>3, i \in Z2[b]
    <3>2. i \in Pos(U[s], Carries(f)) \/ (i = Len(U[s]) + 1 /\ m \in Carries(f))
      BY <2>2, <3>1, PosAppend
    <3> QED
      BY ONLY <2>m, <2>3, <2>4, <3>2
  <2>6. CASE q = p
    <3>1. Z[a] = Pos(R[s][p], {f}) /\ Z2[a] = Pos(Tail(R[s][p]), {f})
      BY ONLY <2>2, <2>3, <2>6
    <3>3. R[s][p] # << >>
      BY <1>a
    <3>4. (\A i \in Z2[a] : i \in Nat /\ i # 0 /\ i + 1 \in Z[a]) /\ (g = f => 1 \in Z[a])
      BY <1>a, <2>2, <3>1, <3>3, PosTail
    <3>5. \A i \in Z2[b] : i \in Z[b] \/ (i = n /\ 1 \in Z[a])
      BY ONLY <2>5, <3>4
    <3>6. Moves(Z, Z2, a, b)
      BY ONLY <1>2, <1>4, <1>5, <3>4, <3>5, n \in Nat, a \in Place, b \in Place DEF Moves
    <3> QED
      BY <3>6, Hop
  <2>7. CASE q # p
    <3>1. Z2[a] = Z[a]
      BY ONLY <2>2, <2>3, <2>7, q \in Port
    <3>2. g # f
      BY <1>a, <2>1, <2>7
    <3>3. \A c \in Place : Z2[c] \subseteq Z[c]
      BY ONLY <1>5, <2>5, <3>1, <3>2
    <3> QED
      BY <1>2, <3>3, Less
  <2> QED
    BY <2>6, <2>7
<1> QED
  BY <1>6, <1>7

\* The first message of s is taken, and more is answered, with its frame at most.
Answers(s, f, more, U, D, U2, D2) ==
    /\ U[s] # << >> /\ U2 = [U EXCEPT ![s] = Tail(@)] /\ D2 = [D EXCEPT ![s] = @ \o more]
    /\ \A j \in Pos(more, Carries(f)) : j = 2 /\ Head(U[s]) \in Carries(f)

\* The controller answers a message, with the frame once or not at all.
LEMMA UpToDown ==
    ASSUME NEW s \in Switch, NEW f \in Frame, NEW h \in Host,
           NEW U \in [Switch -> Seq(UpMessage)], NEW D \in [Switch -> Seq(DownMessage)],
           NEW R, NEW T, NEW G, NEW U2, NEW D2, NEW more \in Seq(DownMessage),
           Answers(s, f, more, U, D, U2, D2)
    PROVE  Kept(Line(R, T, U, D, G, f, h), Line(R, T, U2, D2, G, f, h))
<1> DEFINE Z == Line(R, T, U, D, G, f, h)
           Z2 == Line(R, T, U2, D2, G, f, h)
<1>1. Near(s, R, T, U, D, R, T, U2, D2)
  BY DEF Near, Answers
<1> SUFFICES Kept(Z, Z2)
  OBVIOUS
<1> HIDE DEF Z, Z2
<1>2. /\ Z \in Lines /\ Z2 \in Lines
      /\ \A c \in Place : c \notin {<<"rx", s>>, <<"tx", s>>, <<"up", s>>, <<"down", s>>} =>
             Z2[c] = Z[c]
      /\ ~On(f, h, s) => \A c \in Place : Z2[c] = Z[c]
  <2>1. Apart(s, Z, Z2, ~On(f, h, s))
    BY <1>1, OneSwitch DEF Z, Z2
  <2> QED
    BY ONLY <2>1 DEF Apart
<1>3. ASSUME On(f, h, s)
      PROVE  /\ Z[<<"up", s>>] = Pos(U[s], Carries(f))
             /\ Z[<<"down", s>>] = Pos(D[s], Carries(f))
             /\ Z2[<<"up", s>>] = Pos(U2[s], Carries(f))
             /\ Z2[<<"down", s>>] = Pos(D2[s], Carries(f))
             /\ Z2[<<"rx", s>>] = Z[<<"rx", s>>]
             /\ Z2[<<"tx", s>>] = Z[<<"tx", s>>]
  <2>1. Reads(Z, R, T, U, D, G, f, h)
    BY LineIs DEF Z
  <2>2. Reads(Z2, R, T, U2, D2, G, f, h)
    BY LineIs DEF Z2
  <2> QED
    BY ONLY <1>3, <2>1, <2>2, s \in Switch DEF Reads
<1>4. PICK a \in Place, b \in Place : a = <<"up", s>> /\ b = <<"down", s>> /\ a # b
  BY HerePlaces
<1>5. \A c \in Place : c # a /\ c # b => Z2[c] = Z[c]
  BY ONLY <1>2, <1>3, <1>4
<1>6. CASE ~On(f, h, s)
  BY <1>2, <1>6, Less
<1>7. CASE On(f, h, s)
  <2>1. /\ U[s] \in Seq(UpMessage) /\ D[s] \in Seq(DownMessage) /\ U[s] # << >>
        /\ U2[s] = Tail(U[s]) /\ D2[s] = D[s] \o more
    BY DEF Answers
  <2>2. /\ Z[a] = Pos(U[s], Carries(f)) /\ Z2[a] = Pos(Tail(U[s]), Carries(f))
        /\ Z[b] = Pos(D[s], Carries(f)) /\ Z2[b] = Pos(D[s] \o more, Carries(f))
    BY ONLY <1>3, <1>4, <1>7, <2>1
  <2>3. PICK n \in Nat : n = Len(D[s]) + 2
    BY <2>1
  <2>4. \A i \in Z2[b] : i \in Z[b] \/ (i = n /\ Head(U[s]) \in Carries(f))
    <3> SUFFICES ASSUME NEW i \in Z2[b]
                 PROVE  i \in Z[b] \/ (i = n /\ Head(U[s]) \in Carries(f))
      OBVIOUS
    <3>1. i \in Pos(D[s] \o more, Carries(f))
      BY ONLY <2>2, i \in Z2[b]
    <3>2. \/ i \in Pos(D[s], Carries(f))
          \/ \E j \in Pos(more, Carries(f)) : j \in Nat /\ i = Len(D[s]) + j
      BY <2>1, <3>1, PosMore
    <3>3. \A j \in Pos(more, Carries(f)) : j = 2 /\ Head(U[s]) \in Carries(f)
      BY DEF Answers
    <3> QED
      BY ONLY <2>2, <2>3, <3>2, <3>3
  <2>6. /\ \A i \in Z2[a] : i \in Nat /\ i # 0 /\ i + 1 \in Z[a]
        /\ Head(U[s]) \in Carries(f) => 1 \in Z[a]
    BY <2>1, <2>2, PosTail
  <2>7. \A i \in Z2[b] : i \in Z[b] \/ (i = n /\ 1 \in Z[a])
    BY ONLY <2>4, <2>6
  <2>8. Moves(Z, Z2, a, b)
    BY ONLY <1>2, <1>4, <1>5, <2>6, <2>7, n \in Nat, a \in Place, b \in Place DEF Moves
  <2> QED
    BY <2>8, Hop
<1> QED
  BY <1>6, <1>7

\* The first message from the controller is taken, and g, if it carries it, is
\* put into some of the rings of s.
Empties(s, g, D, T, D2, T2) ==
    /\ D[s] # << >> /\ D2 = [D EXCEPT ![s] = Tail(@)]
    /\ \A t \in Switch : t # s => T2[t] = T[t]
    /\ \A r \in Port : \/ T2[s][r] = T[s][r]
                       \/ /\ T2[s][r] = Append(T[s][r], g) /\ g \in Frame
                          /\ Head(D[s]) \in Carries(g)

\* A message is taken from the controller, and its frame put into the rings.
LEMMA DownToTx ==
    ASSUME NEW s \in Switch, NEW g, NEW f \in Frame, NEW h \in Host,
           NEW D \in [Switch -> Seq(DownMessage)], NEW T \in [Switch -> [Port -> Seq(Frame)]],
           NEW R, NEW U, NEW G, NEW D2, NEW T2,
           Empties(s, g, D, T, D2, T2)
    PROVE  Kept(Line(R, T, U, D, G, f, h), Line(R, T2, U, D2, G, f, h))
<1> DEFINE Z == Line(R, T, U, D, G, f, h)
           Z2 == Line(R, T2, U, D2, G, f, h)
<1>1. Near(s, R, T, U, D, R, T2, U, D2)
  BY DEF Near, Empties
<1> SUFFICES Kept(Z, Z2)
  OBVIOUS
<1> HIDE DEF Z, Z2
<1>2. /\ Z \in Lines /\ Z2 \in Lines
      /\ \A c \in Place : c \notin {<<"rx", s>>, <<"tx", s>>, <<"up", s>>, <<"down", s>>} =>
             Z2[c] = Z[c]
      /\ ~On(f, h, s) => \A c \in Place : Z2[c] = Z[c]
  <2>1. Apart(s, Z, Z2, ~On(f, h, s))
    BY <1>1, OneSwitch DEF Z, Z2
  <2> QED
    BY ONLY <2>1 DEF Apart
<1>3. ASSUME On(f, h, s)
      PROVE  /\ Z[<<"down", s>>] = Pos(D[s], Carries(f))
             /\ Z[<<"tx", s>>] = Pos(T[s][Toward[s][h]], {f})
             /\ Z2[<<"down", s>>] = Pos(D2[s], Carries(f))
             /\ Z2[<<"tx", s>>] = Pos(T2[s][Toward[s][h]], {f})
             /\ Z2[<<"rx", s>>] = Z[<<"rx", s>>]
             /\ Z2[<<"up", s>>] = Z[<<"up", s>>]
  <2>1. Reads(Z, R, T, U, D, G, f, h)
    BY LineIs DEF Z
  <2>2. Reads(Z2, R, T2, U, D2, G, f, h)
    BY LineIs DEF Z2
  <2> QED
    BY ONLY <1>3, <2>1, <2>2, s \in Switch DEF Reads
<1>4. PICK a \in Place, b \in Place : a = <<"down", s>> /\ b = <<"tx", s>> /\ a # b
  BY HerePlaces
<1>5. \A c \in Place : c # a /\ c # b => Z2[c] = Z[c]
  BY ONLY <1>2, <1>3, <1>4
<1>6. CASE ~On(f, h, s)
  BY <1>2, <1>6, Less
<1>7. CASE On(f, h, s)
  <2>1. PICK r \in Port : r = Toward[s][h]
    BY TowardPort
  <2>2. /\ D[s] \in Seq(DownMessage) /\ T[s][r] \in Seq(Frame) /\ D2[s] = Tail(D[s])
        /\ D[s] # << >>
    BY DEF Empties
  <2>3. /\ Z[a] = Pos(D[s], Carries(f)) /\ Z2[a] = Pos(Tail(D[s]), Carries(f))
        /\ Z[b] = Pos(T[s][r], {f}) /\ Z2[b] = Pos(T2[s][r], {f})
    BY ONLY <1>3, <1>4, <1>7, <2>1, <2>2
  <2>4. PICK n \in Nat : n = Len(T[s][r]) + 1
    BY <2>2
  <2>5. \A i \in Z2[b] : i \in Z[b] \/ (i = n /\ Head(D[s]) \in Carries(f))
    <3> SUFFICES ASSUME NEW i \in Z2[b]
                 PROVE  i \in Z[b] \/ (i = n /\ Head(D[s]) \in Carries(f))
      OBVIOUS
    <3>1. CASE T2[s][r] = T[s][r]
      BY ONLY <2>3, <3>1, i \in Z2[b]
    <3>2. CASE /\ T2[s][r] = Append(T[s][r], g) /\ g \in Frame
               /\ Head(D[s]) \in Carries(g)
      <4>1. i \in Pos(Append(T[s][r], g), {f})
        BY ONLY <2>3, <3>2, i \in Z2[b]
      <4>2. i \in Pos(T[s][r], {f}) \/ (i = Len(T[s][r]) + 1 /\ g \in {f})
        BY <2>2, <3>2, <4>1, PosAppend
      <4> QED
        BY ONLY <2>3, <2>4, <3>2, <4>2
    <3> QED
      BY <3>1, <3>2 DEF Empties
  <2>6. /\ \A i \in Z2[a] : i \in Nat /\ i # 0 /\ i + 1 \in Z[a]
        /\ Head(D[s]) \in Carries(f) => 1 \in Z[a]
    BY <2>2, <2>3, PosTail
  <2>7. \A i \in Z2[b] : i \in Z[b] \/ (i = n /\ 1 \in Z[a])
    BY ONLY <2>5, <2>6
  <2>8. Moves(Z, Z2, a, b)
    BY ONLY <1>2, <1>4, <1>5, <2>6, <2>7, n \in Nat, a \in Place, b \in Place DEF Moves
  <2> QED
    BY <2>8, Hop
<1> QED
  BY <1>6, <1>7

LEMMA KeptTwice ==
    ASSUME NEW Z, NEW Y, NEW Z2, Kept(Z, Y), Kept(Y, Z2)
    PROVE  Kept(Z, Z2)
BY DEF Kept

\* what there is of f on its way to h, or got there
Here(f, h) == Line(rx, tx, up, down, got, f, h)

Stays == \A f \in Frame, h \in Host : Kept(Here(f, h), Here(f, h)')

NotOwn == \A h \in Host, f \in Frame : In(f, got[h]) => f.src # h

\* what the rings hold when out is to leave s
Ready(s, out, T) == T[s] = out /\ \A t \in Switch : t # s => T[t] = tx[t]

Left(R, T, U, D) ==
    /\ \A f \in Frame, h \in Host :
           Kept(Line(R, T, U, D, got, f, h), Line(rx', tx', U, D, got', f, h))
    /\ NotOwn => NotOwn'

\* When the ports of s have sent, what was on the way is, and no host gets its own.
LEMMA LeaveCopy ==
    ASSUME TypeOK, NEW s \in Switch, NEW out \in [Port -> Seq(Frame)],
           NEW queues \in [Switch -> [Port -> Seq(Frame)]], Leave(s, out, queues),
           NEW T, Ready(s, out, T), NEW U, NEW D, Outward(s, out)
    PROVE  Left(queues, T, U, D)
<1>1. /\ tx \in [Switch -> [Port -> Seq(Frame)]] /\ got \in [Host -> Seq(Frame)]
  BY DEF TypeOK
<1>2. PICK R2, T2, G2 : R2 = rx' /\ T2 = tx' /\ G2 = got'
  OBVIOUS
<1>3. PICK G \in [Host -> Seq(Frame)] : G = got
  BY <1>1
<1>4. \A r \in Port : T2[s][r] = << >>
  BY <1>1, <1>2 DEF Leave
<1>5. \A t \in Switch : t # s => T2[t] = T[t]
  BY <1>1, <1>2 DEF Leave, Ready
<1>6. \A t \in Switch, q \in Port : R2[t][q] = queues[t][q] \o Arriving(s, out, t, q)
  BY <1>2 DEF Leave
<1>7. \A h \in Host : G2[h] = IF At[h][1] = s THEN G[h] \o out[At[h][2]] ELSE G[h]
  BY <1>2, <1>3 DEF Leave
<1>8. ASSUME NEW f \in Frame, NEW h \in Host
      PROVE  Kept(Line(queues, T, U, D, G, f, h), Line(R2, T2, U, D, G2, f, h))
  <2>1. G2[h] = IF At[h][1] = s THEN G[h] \o out[At[h][2]] ELSE G[h]
    BY <1>7
  <2>2. \A r \in Port : In(f, out[r]) => Toward[s][f.src] # r
    BY DEF Outward
  <2>3. T[s] = out
    BY DEF Ready
  <2> QED
    BY <1>4, <1>5, <1>6, <2>1, <2>2, <2>3, Poured
<1>9. ASSUME NotOwn, NEW h \in Host, NEW f \in Frame, In(f, G2[h])
      PROVE  f.src # h
  <2>1. CASE In(f, G[h])
    BY <1>3, <1>9, <2>1 DEF NotOwn
  <2>2. CASE ~In(f, G[h])
    <3>1. At[h] \in Switch \X Port /\ Toward[At[h][1]][h] = At[h][2]
      BY LearningNetAssumption
    <3>2. At[h][1] = s /\ In(f, G[h] \o out[At[h][2]])
      BY <1>7, <1>9, <2>2
    <3>3. G[h] \in Seq(Frame) /\ out[At[h][2]] \in Seq(Frame) /\ At[h][2] \in Port
      BY <3>1
    <3>4. In(f, out[At[h][2]])
      BY <2>2, <3>2, <3>3, InConcat
    <3> QED
      BY <3>1, <3>2, <3>3, <3>4 DEF Outward
  <2> QED
    BY <2>1, <2>2
<1>10. NotOwn => NotOwn'
  BY <1>2, <1>9 DEF NotOwn
<1> QED
  BY <1>2, <1>3, <1>8, <1>10 DEF Left

\* One frame in the loop of main.
LEMMA ForwardCopy ==
    ASSUME Inv, WayInv, ~forgot, NEW s \in Switch, NEW p \in Port, Forward(s, p)
    PROVE  Stays /\ (NotOwn => NotOwn')
<1>0. RxAway /\ (program = "centralized" => Way)
      /\ \A t \in Switch, r \in Port, f \in Frame : In(f, tx[t][r]) => Toward[t][f.src] # r
  BY Directions
<1>1. PICK g \in Frame, out \in [Port -> Seq(Frame)] : Does(s, p, g, out)
  BY <1>0, ForwardDoes
<1>2. UNCHANGED down
  BY DEF Forward
<1>3. TypeOK
  BY DEF Inv
<1>4. PICK R \in [Switch -> [Port -> Seq(Frame)]], T \in [Switch -> [Port -> Seq(Frame)]],
           U \in [Switch -> Seq(UpMessage)], D \in [Switch -> Seq(DownMessage)],
           G \in [Host -> Seq(Frame)] :
          R = rx /\ T = tx /\ U = up /\ D = down /\ G = got
  BY <1>3 DEF TypeOK
<1>5. PICK U2 : U2 = up'
  OBVIOUS
<1>6. /\ R[s][p] # << >> /\ g = Head(R[s][p]) /\ Toward[s][g.src] = p
      /\ Leave(s, out, [rx EXCEPT ![s][p] = Tail(@)])
      /\ U2 = U \/ (U2 = [U EXCEPT ![s] = Append(@, PacketIn(g, p))] /\ out = T[s])
  BY <1>1, <1>4, <1>5 DEF Does
<1>7. PICK queues \in [Switch -> [Port -> Seq(Frame)]] : queues = [R EXCEPT ![s][p] = Tail(@)]
  <2>1. Tail(R[s][p]) \in Seq(Frame)
    BY <1>6, InTail
  <2>2. [R EXCEPT ![s][p] = Tail(@)] \in [Switch -> [Port -> Seq(Frame)]]
    BY <2>1
  <2> QED
    BY <2>2
<1>8. Leave(s, out, queues)
  BY <1>4, <1>6, <1>7
<1>9. \A r \in Port : \/ out[r] = T[s][r]
                      \/ out[r] = Append(T[s][r], g) /\ Toward[s][g.src] # r
  BY <1>1, <1>4 DEF Does, Going
<1>10. ASSUME NEW r \in Port, NEW f \in Frame, In(f, out[r])
       PROVE  Toward[s][f.src] # r
  <2>1. T[s][r] \in Seq(Frame)
    OBVIOUS
  <2>2. In(f, T[s][r]) => Toward[s][f.src] # r
    BY <1>0, <1>4
  <2>3. CASE out[r] = T[s][r]
    BY <1>10, <2>2, <2>3
  <2>4. CASE out[r] = Append(T[s][r], g) /\ Toward[s][g.src] # r
    <3>1. In(f, T[s][r]) \/ f = g
      BY <1>10, <2>1, <2>4, InAppend
    <3> QED
      BY <2>2, <2>4, <3>1
  <2> QED
    BY <1>9, <2>3, <2>4
<1>11. PICK T1 : T1 = [T EXCEPT ![s] = out]
  OBVIOUS
<1>12. T1[s] = out /\ \A t \in Switch : t # s => T1[t] = T[t]
  BY <1>11
<1>13. Left(queues, T1, U2, D)
  <2>1. Ready(s, out, T1)
    BY <1>4, <1>12 DEF Ready
  <2>2. Outward(s, out)
    BY <1>10 DEF Outward
  <2> QED
    BY <1>3, <1>8, <2>1, <2>2, LeaveCopy
<1>14. ASSUME NEW f \in Frame, NEW h \in Host
       PROVE  Kept(Line(R, T, U, D, G, f, h), Line(queues, T1, U2, D, G, f, h))
  <2>1. CASE U2 = U
    <3>1. Puts(s, g, T, T1)
      BY <1>9, <1>12 DEF Puts
    <3>2. Takes(s, p, g, R, queues)
      BY <1>6, <1>7 DEF Takes
    <3>4. Kept(Line(R, T, U, D, G, f, h), Line(queues, T1, U, D, G, f, h))
      BY <3>1, <3>2, RxToTx
    <3> QED
      BY <2>1, <3>4
  <2>2. CASE U2 = [U EXCEPT ![s] = Append(@, PacketIn(g, p))] /\ out = T[s]
    <3>1. T1 = T
      BY <1>11, <2>2
    <3>3. Takes(s, p, g, R, queues)
      BY <1>6, <1>7 DEF Takes
    <3>4. Kept(Line(R, T, U, D, G, f, h), Line(queues, T, U2, D, G, f, h))
      BY <2>2, <3>3, RxToUp
    <3> QED
      BY <3>1, <3>4
  <2> QED
    BY <1>6, <2>1, <2>2
<1>15. ASSUME NEW f \in Frame, NEW h \in Host
       PROVE  Kept(Here(f, h), Here(f, h)')
  <2>1. Kept(Line(R, T, U, D, G, f, h), Line(queues, T1, U2, D, G, f, h))
    BY <1>14
  <2>2. Kept(Line(queues, T1, U2, D, G, f, h), Line(rx', tx', U2, D, got', f, h))
    BY <1>4, <1>13 DEF Left
  <2>3. Kept(Line(R, T, U, D, G, f, h), Line(rx', tx', U2, D, got', f, h))
    BY <2>1, <2>2, KeptTwice
  <2> QED
    BY <1>2, <1>4, <1>5, <2>3 DEF Here
<1> QED
  BY <1>13, <1>15 DEF Stays, Left

\* A message that changes no more than what s has installed, or its table.
LEMMA TableCopy ==
    ASSUME Inv, NEW s \in Switch, Receive(s), RecvInstall(s) \/ RecvInsert(s)
    PROVE  Stays /\ (NotOwn => NotOwn')
<1>1. /\ down[s] # << >> /\ down' = [down EXCEPT ![s] = Tail(@)]
      /\ UNCHANGED rx /\ UNCHANGED tx /\ UNCHANGED up /\ UNCHANGED got
  BY DEF Receive, RecvInstall, RecvInsert
<1>2. PICK D \in [Switch -> Seq(DownMessage)], T \in [Switch -> [Port -> Seq(Frame)]] :
          D = down /\ T = tx
  BY DEF Inv, TypeOK
<1>3. PICK R, U, G, D2 : R = rx /\ U = up /\ G = got /\ D2 = down'
  OBVIOUS
<1>4. Empties(s, s, D, T, D2, T)
  BY <1>1, <1>2, <1>3 DEF Empties
<1>5. ASSUME NEW f \in Frame, NEW h \in Host
      PROVE  Kept(Here(f, h), Here(f, h)')
  <2>1. Kept(Line(R, T, U, D, G, f, h), Line(R, T, U, D2, G, f, h))
    BY <1>4, DownToTx
  <2> QED
    BY <1>1, <1>2, <1>3, <2>1 DEF Here
<1>6. NotOwn => NotOwn'
  BY <1>1 DEF NotOwn
<1> QED
  BY <1>5, <1>6 DEF Stays

\* The frame of a PacketOut goes into the rings, and leaves them when flooded.
LEMMA PacketOutCopy ==
    ASSUME Inv, WayInv, ~forgot, NEW s \in Switch, Receive(s), RecvPacketOut(s)
    PROVE  Stays /\ (NotOwn => NotOwn')
<1>0. \A t \in Switch, r \in Port, f \in Frame : In(f, tx[t][r]) => Toward[t][f.src] # r
  BY Directions
<1>1. /\ down[s] # << >> /\ down' = [down EXCEPT ![s] = Tail(@)] /\ UNCHANGED up
  BY DEF Receive, RecvPacketOut
<1>2. PICK m \in DownMessage :
          /\ m = Head(down[s]) /\ m = down[s][1]
          /\ m.type = "PACKET_OUT" => PacketOutOK(s, 1, m) /\ Knows(s, m.frame.src)
  BY <1>1, FirstMessage
<1>3. m.type = "PACKET_OUT"
  BY <1>2 DEF RecvPacketOut
<1>4. PICK g \in Frame, p \in Port, port \in Port \cup {FLOOD} :
          g = m.frame /\ p = m.in_port /\ port = m.out_port
  BY <1>3, DownTypes DEF Install
<1>5. Toward[s][g.src] = p
  BY <1>2, <1>3, <1>4 DEF PacketOutOK
<1>6. TypeOK /\ m \in Carries(g)
  BY <1>3, <1>4 DEF Inv, Carries
<1>7. PICK R \in [Switch -> [Port -> Seq(Frame)]], T \in [Switch -> [Port -> Seq(Frame)]],
           D \in [Switch -> Seq(DownMessage)] : R = rx /\ T = tx /\ D = down
  BY <1>6 DEF TypeOK
<1>8. PICK U, G, D2 : U = up /\ G = got /\ D2 = down'
  OBVIOUS
<1>9. /\ D[s] # << >> /\ D2 = [D EXCEPT ![s] = Tail(@)] /\ Head(D[s]) \in Carries(g)
  BY <1>1, <1>2, <1>6, <1>7, <1>8
<1>10. CASE port = FLOOD
  <2>1. PICK out : out = Flooded(s, g, p)
    OBVIOUS
  <2>2. Leave(s, out, R)
    BY <1>2, <1>4, <1>7, <1>10, <2>1 DEF RecvPacketOut
  <2>3. /\ out \in [Port -> Seq(Frame)]
        /\ \A r \in Port : out[r] = IF r # p THEN Append(T[s][r], g) ELSE T[s][r]
    <3>1. ASSUME NEW r \in Port
          PROVE  T[s][r] \in Seq(Frame) /\ Append(T[s][r], g) \in Seq(Frame)
      BY InAppend
    <3> QED
      BY <1>7, <2>1, <3>1 DEF Flooded
  <2>4. ASSUME NEW r \in Port, NEW f \in Frame, In(f, out[r])
        PROVE  Toward[s][f.src] # r
    <3>1. T[s][r] \in Seq(Frame)
      OBVIOUS
    <3>2. In(f, Append(T[s][r], g)) => In(f, T[s][r]) \/ f = g
      BY ONLY <3>1, g \in Frame, InAppend
    <3>3. In(f, T[s][r]) \/ (f = g /\ r # p)
      BY <2>3, <2>4, <3>2
    <3> QED
      BY <1>0, <1>5, <1>7, <3>3
  <2>5. PICK T1 : T1 = [T EXCEPT ![s] = out]
    OBVIOUS
  <2>6. T1[s] = out /\ \A t \in Switch : t # s => T1[t] = T[t]
    BY <2>5
  <2>7. Left(R, T1, U, D2)
    <3>1. Ready(s, out, T1)
      BY <1>7, <2>6 DEF Ready
    <3>2. Outward(s, out)
      BY <2>4 DEF Outward
    <3> QED
      BY <1>6, <2>2, <2>3, <3>1, <3>2, LeaveCopy
  <2>8. Empties(s, g, D, T, D2, T1)
    BY <1>9, <2>3, <2>6 DEF Empties
  <2>9. ASSUME NEW f \in Frame, NEW h \in Host
        PROVE  Kept(Here(f, h), Here(f, h)')
    <3>1. Kept(Line(R, T, U, D, G, f, h), Line(R, T1, U, D2, G, f, h))
      BY <2>8, DownToTx
    <3>2. Kept(Line(R, T1, U, D2, G, f, h), Line(rx', tx', U, D2, got', f, h))
      BY <1>8, <2>7 DEF Left
    <3>3. Kept(Line(R, T, U, D, G, f, h), Line(rx', tx', U, D2, got', f, h))
      BY <3>1, <3>2, KeptTwice
    <3> QED
      BY <1>1, <1>7, <1>8, <3>3 DEF Here
  <2> QED
    BY <2>7, <2>9 DEF Stays, Left
<1>11. CASE port # FLOOD
  <2>1. /\ tx' = [tx EXCEPT ![s] = Queued(s, g, port)] /\ UNCHANGED rx /\ UNCHANGED got
    BY <1>2, <1>4, <1>11 DEF RecvPacketOut
  <2>2. PICK T2 : T2 = tx'
    OBVIOUS
  <2>3. /\ \A t \in Switch : t # s => T2[t] = T[t]
        /\ \A r \in Port : T2[s][r] = T[s][r] \/ T2[s][r] = Append(T[s][r], g)
    <3>1. T2 = [T EXCEPT ![s] = [T[s] EXCEPT ![port] = Append(@, g)]]
      BY <1>7, <2>1, <2>2 DEF Queued
    <3> QED
      BY <3>1
  <2>4. Empties(s, g, D, T, D2, T2)
    BY <1>9, <2>3 DEF Empties
  <2>5. ASSUME NEW f \in Frame, NEW h \in Host
        PROVE  Kept(Here(f, h), Here(f, h)')
    <3>1. Kept(Line(R, T, U, D, G, f, h), Line(R, T2, U, D2, G, f, h))
      BY <2>4, DownToTx
    <3> QED
      BY <1>1, <1>7, <1>8, <2>1, <2>2, <3>1 DEF Here
  <2>6. NotOwn => NotOwn'
    BY <2>1 DEF NotOwn
  <2> QED
    BY <2>5, <2>6 DEF Stays
<1> QED
  BY <1>10, <1>11

\* The controller answers.
LEMMA HandleCopy ==
    ASSUME Inv, NEW s \in Switch, Handle(s)
    PROVE  Stays /\ (NotOwn => NotOwn')
<1>1. /\ up[s] # << >> /\ up' = [up EXCEPT ![s] = Tail(@)]
      /\ UNCHANGED rx /\ UNCHANGED tx /\ UNCHANGED got
  BY DEF Handle, switch, history
<1>2. PICK U \in [Switch -> Seq(UpMessage)], D \in [Switch -> Seq(DownMessage)] :
          U = up /\ D = down
  BY DEF Inv, TypeOK
<1>3. PICK R, T, G, U2, D2 : R = rx /\ T = tx /\ G = got /\ U2 = up' /\ D2 = down'
  OBVIOUS
<1>4. PICK m \in UpMessage : m = Head(U[s])
  BY <1>1, <1>2, InTail
<1>5. ASSUME NEW more \in Seq(DownMessage), D2 = [D EXCEPT ![s] = @ \o more],
             \A f \in Frame : \A j \in Pos(more, Carries(f)) : j = 2 /\ m \in Carries(f)
      PROVE  Stays /\ (NotOwn => NotOwn')
  <2>1. ASSUME NEW f \in Frame, NEW h \in Host
        PROVE  Kept(Here(f, h), Here(f, h)')
    <3>1. Answers(s, f, more, U, D, U2, D2)
      BY <1>1, <1>2, <1>3, <1>4, <1>5 DEF Answers
    <3>2. Kept(Line(R, T, U, D, G, f, h), Line(R, T, U2, D2, G, f, h))
      BY <3>1, UpToDown
    <3> QED
      BY <1>1, <1>2, <1>3, <3>2 DEF Here
  <2>2. NotOwn => NotOwn'
    BY <1>1 DEF NotOwn
  <2> QED
    BY <2>1, <2>2 DEF Stays
<1>6. CASE RecvHello(s)
  <2>1. PICK i \in DownMessage : i = Install /\ i.type = "INSTALL"
    <3>1. Install \in DownMessage /\ Install.type = "INSTALL"
      BY DEF DownMessage, Install
    <3> QED
      BY <3>1
  <2>2. PICK more \in Seq(DownMessage) : more = <<i>>
    <3>1. <<i>> \in Seq(DownMessage)
      OBVIOUS
    <3> QED
      BY <3>1
  <2>3. D2 = [D EXCEPT ![s] = @ \o more]
    <3>1. D[s] \o more = Append(D[s], i)
      BY <2>2, OneMore
    <3> QED
      BY <1>2, <1>3, <1>6, <2>1, <3>1 DEF RecvHello
  <2>4. \A f \in Frame : \A j \in Pos(more, Carries(f)) : j = 2 /\ m \in Carries(f)
    <3>1. \A j \in 1 .. Len(more) : more[j] = i
      BY <2>2
    <3> QED
      BY <2>1, <3>1 DEF Pos, Carries
  <2> QED
    BY <1>5, <2>3, <2>4
<1>7. CASE RecvPacketIn(s)
  <2>1. m.type = "PACKET_IN"
    BY <1>2, <1>4, <1>7 DEF RecvPacketIn
  <2>2. PICK g \in Frame, p \in Port : g = m.frame /\ p = m.in_port
    BY <2>1, UpTypes DEF Hello
  <2>3. PICK port \in Port \cup {FLOOD} : D2 = [D EXCEPT ![s] = @ \o Reply(g, p, port)]
    <3>1. PICK table : table = [mac_to_port[s] EXCEPT ![g.src] = p]
      OBVIOUS
    <3>2. \A h \in Host : table[h] \in Port \cup {NONE}
      BY <3>1 DEF Inv, TypeOK
    <3>3. OutPort(table, g.dst) \in Port \cup {FLOOD}
      BY <3>2, FrameType DEF OutPort
    <3>4. D2 = [D EXCEPT ![s] = @ \o Reply(g, p, OutPort(table, g.dst))]
      BY <1>2, <1>3, <1>4, <1>7, <2>2, <3>1 DEF RecvPacketIn
    <3> QED
      BY <3>3, <3>4
  <2>4. PICK i \in DownMessage, o \in DownMessage :
            /\ i = Insert(g.src, p) /\ o = PacketOut(g, p, port)
            /\ i.type = "INSERT" /\ o.type = "PACKET_OUT" /\ o.frame = g
    <3>1. Insert(g.src, p) \in DownMessage /\ PacketOut(g, p, port) \in DownMessage
      BY FrameType, MessagesMade
    <3> QED
      BY <3>1 DEF Insert, PacketOut
  <2>5. PICK more \in Seq(DownMessage) : more = <<i, o>>
    <3>1. <<i, o>> \in Seq(DownMessage)
      OBVIOUS
    <3> QED
      BY <3>1
  <2>6. D2 = [D EXCEPT ![s] = @ \o more]
    BY <2>3, <2>4, <2>5 DEF Reply
  <2>7. ASSUME NEW f \in Frame, NEW j \in Pos(more, Carries(f))
        PROVE  j = 2 /\ m \in Carries(f)
    <3>1. (j = 1 /\ i \in Carries(f)) \/ (j = 2 /\ o \in Carries(f))
      BY <2>5 DEF Pos
    <3>2. i \notin Carries(f)
      BY <2>4 DEF Carries
    <3>3. j = 2 /\ g = f
      BY <2>4, <3>1, <3>2 DEF Carries
    <3> QED
      BY <2>1, <2>2, <3>3 DEF Carries
  <2>8. \A f \in Frame : \A j \in Pos(more, Carries(f)) : j = 2 /\ m \in Carries(f)
    BY <2>7
  <2> QED
    BY <1>5, <2>6, <2>8
<1> QED
  BY <1>6, <1>7 DEF Handle

Joins(s, p, g, R, R2) == R2 = [R EXCEPT ![s][p] = Append(@, g)]

\* Nothing of f comes in unless f is g, of which nothing was there.
Adds(Z, Z2, f, g) == (f # g => Kept(Z, Z2)) /\ (f = g /\ None(Z) => Single(Z2))

\* A host sends g.
LEMMA Sent ==
    ASSUME NEW s \in Switch, NEW p \in Port, NEW g \in Frame, NEW f \in Frame, NEW h \in Host,
           NEW R \in [Switch -> [Port -> Seq(Frame)]], NEW T, NEW U, NEW D, NEW G, NEW R2,
           Joins(s, p, g, R, R2)
    PROVE  Adds(Line(R, T, U, D, G, f, h), Line(R2, T, U, D, G, f, h), f, g)
<1> DEFINE Z == Line(R, T, U, D, G, f, h)
           Z2 == Line(R2, T, U, D, G, f, h)
<1> SUFFICES /\ f # g => Kept(Z, Z2)
             /\ f = g /\ None(Z) => Single(Z2)
  BY DEF Adds
<1> HIDE DEF Z, Z2
<1>1. Near(s, R, T, U, D, R2, T, U, D)
  BY DEF Near, Joins
<1>2. /\ Z \in Lines /\ Z2 \in Lines
      /\ \A c \in Place : c \notin {<<"rx", s>>, <<"tx", s>>, <<"up", s>>, <<"down", s>>} =>
             Z2[c] = Z[c]
      /\ ~On(f, h, s) => \A c \in Place : Z2[c] = Z[c]
  <2>1. Apart(s, Z, Z2, ~On(f, h, s))
    BY <1>1, OneSwitch DEF Z, Z2
  <2> QED
    BY ONLY <2>1 DEF Apart
<1>3. Reads(Z, R, T, U, D, G, f, h) /\ Reads(Z2, R2, T, U, D, G, f, h)
  BY LineIs DEF Z, Z2
<1>4. PICK a \in Place : a = <<"rx", s>>
  BY HerePlaces
<1>5. \A c \in Place : c # a => Z2[c] = Z[c]
  <2>1. /\ Z2[<<"tx", s>>] = Z[<<"tx", s>>] /\ Z2[<<"up", s>>] = Z[<<"up", s>>]
        /\ Z2[<<"down", s>>] = Z[<<"down", s>>]
    <3>1. /\ Z[<<"tx", s>>] = IF On(f, h, s) THEN Pos(T[s][Toward[s][h]], {f}) ELSE {}
          /\ Z[<<"up", s>>] = IF On(f, h, s) THEN Pos(U[s], Carries(f)) ELSE {}
          /\ Z[<<"down", s>>] = IF On(f, h, s) THEN Pos(D[s], Carries(f)) ELSE {}
      BY ONLY <1>3, s \in Switch DEF Reads
    <3>2. /\ Z2[<<"tx", s>>] = IF On(f, h, s) THEN Pos(T[s][Toward[s][h]], {f}) ELSE {}
          /\ Z2[<<"up", s>>] = IF On(f, h, s) THEN Pos(U[s], Carries(f)) ELSE {}
          /\ Z2[<<"down", s>>] = IF On(f, h, s) THEN Pos(D[s], Carries(f)) ELSE {}
      BY ONLY <1>3, s \in Switch DEF Reads
    <3> QED
      BY ONLY <3>1, <3>2
  <2> QED
    BY ONLY <1>2, <1>4, <2>1
<1>n. PICK n : n = Len(R[s][Toward[s][f.src]]) + 1
  OBVIOUS
<1>6. \A i \in Z2[a] : i \in Z[a] \/ (i = n /\ f = g)
  <2>1. CASE ~On(f, h, s)
    BY <1>2, <2>1
  <2>2. CASE On(f, h, s)
    <3>1. PICK q \in Port : q = Toward[s][f.src]
      BY FrameType, TowardPort
    <3>2. R[s][q] \in Seq(Frame) /\ (R2[s][q] = R[s][q] \/ R2[s][q] = Append(R[s][q], g))
      BY DEF Joins
    <3>3. Z[a] = Pos(R[s][q], {f}) /\ Z2[a] = Pos(R2[s][q], {f})
      BY ONLY <1>3, <1>4, <2>2, <3>1, s \in Switch DEF Reads
    <3>4. ASSUME NEW i \in Z2[a]
          PROVE  i \in Z[a] \/ (i = Len(R[s][q]) + 1 /\ f = g)
      <4>1. CASE R2[s][q] = R[s][q]
        BY <3>3, <4>1
      <4>2. CASE R2[s][q] = Append(R[s][q], g)
        <5>1. i \in Pos(Append(R[s][q], g), {f})
          BY <3>3, <4>2
        <5>2. i \in Pos(R[s][q], {f}) \/ (i = Len(R[s][q]) + 1 /\ g \in {f})
          BY <3>2, <5>1, PosAppend
        <5> QED
          BY <3>3, <5>2
      <4> QED
        BY <3>2, <4>1, <4>2
    <3>5. \A i \in Z2[a] : i \in Z[a] \/ (i = Len(R[s][q]) + 1 /\ f = g)
      BY <3>4
    <3> QED
      BY ONLY <1>n, <3>1, <3>5
  <2> QED
    BY <2>1, <2>2
<1>7. ASSUME f # g
      PROVE  Kept(Z, Z2)
  <2>1. \A c \in Place : Z2[c] \subseteq Z[c]
    BY <1>5, <1>6, <1>7
  <2> QED
    BY <1>2, <2>1, Less
<1>8. ASSUME None(Z)
      PROVE  Single(Z2)
  <2>1. \A c \in Place : \A i \in Z2[c] : c = a /\ i = n
    BY <1>5, <1>6, <1>8 DEF None
  <2> QED
    BY <2>1 DEF Single
<1> QED
  BY <1>7, <1>8

\* Nowhere on the way of a frame to a host are two of it, nor one before it was sent.
OneCopy ==
    \A f \in Frame, h \in Host :
        Single(Here(f, h)) /\ (f.id > Len(sent) => None(Here(f, h)))

CopyInv == ~forgot => OneCopy /\ NotOwn

LEMMA SendCopy ==
    ASSUME TypeOK, OneCopy, NotOwn, NEW hh \in Host, NEW dst \in Host \cup {BROADCAST}, Send(hh, dst)
    PROVE  OneCopy' /\ NotOwn'
<1>1. /\ UNCHANGED tx /\ UNCHANGED up /\ UNCHANGED down /\ UNCHANGED got
      /\ Len(sent) < MaxFrames
  BY DEF Send, switch
<1>2. MaxFrames \in Nat /\ At[hh] \in Switch \X Port
  BY LearningNetAssumption
<1>3. PICK R \in [Switch -> [Port -> Seq(Frame)]] : R = rx
  BY DEF TypeOK
<1>4. sent \in Seq(Frame) /\ Len(sent) \in Nat
  BY DEF TypeOK
<1>5. PICK g \in Frame : g = [src |-> hh, dst |-> dst, id |-> Len(sent) + 1] /\ g.id = Len(sent) + 1
  <2>1. Len(sent) + 1 \in 1 .. MaxFrames
    BY <1>1, <1>2, <1>4
  <2>2. [src |-> hh, dst |-> dst, id |-> Len(sent) + 1] \in Frame
    BY <2>1 DEF Frame
  <2> QED
    BY <2>2
<1>6. PICK s \in Switch, p \in Port : s = At[hh][1] /\ p = At[hh][2]
  BY <1>2
<1>7. PICK T, U, D, G, R2 : T = tx /\ U = up /\ D = down /\ G = got /\ R2 = rx'
  OBVIOUS
<1>8. R2 = [R EXCEPT ![s][p] = Append(@, g)] /\ sent' = Append(sent, g)
  BY <1>3, <1>5, <1>6, <1>7 DEF Send
<1>9. Len(sent') = Len(sent) + 1
  BY <1>4, <1>8
<1>10. ASSUME NEW f \in Frame, NEW h \in Host
       PROVE  Single(Here(f, h))' /\ (f.id > Len(sent') => None(Here(f, h)'))
  <2>1. PICK Z : Z = Line(R, T, U, D, G, f, h)
    OBVIOUS
  <2>2. PICK Z2 : Z2 = Line(R2, T, U, D, G, f, h)
    OBVIOUS
  <2>3. Here(f, h) = Z /\ Here(f, h)' = Z2
    BY <1>1, <1>3, <1>7, <2>1, <2>2 DEF Here
  <2>4. Single(Z) /\ (f.id > Len(sent) => None(Z))
    BY <2>3 DEF OneCopy
  <2>5. /\ f # g => Kept(Z, Z2)
        /\ f = g /\ None(Z) => Single(Z2)
    <3>1. Joins(s, p, g, R, R2)
      BY <1>8 DEF Joins
    <3>2. Adds(Line(R, T, U, D, G, f, h), Line(R2, T, U, D, G, f, h), f, g)
      BY <3>1, Sent
    <3>3. Adds(Z, Z2, f, g)
      BY ONLY <2>1, <2>2, <3>2
    <3> QED
      BY ONLY <3>3 DEF Adds
  <2>6. f.id \in Nat
    BY <1>2 DEF Frame
  <2>7. Single(Z2) /\ (f.id > Len(sent') => None(Z2))
    <3>1. CASE f = g
      <4>1. f.id > Len(sent) /\ ~(f.id > Len(sent'))
        BY <1>4, <1>5, <1>9, <3>1
      <4> QED
        BY <2>4, <2>5, <3>1, <4>1
    <3>2. CASE f # g
      <4>1. f.id > Len(sent') => f.id > Len(sent)
        BY <1>4, <1>9, <2>6
      <4> QED
        BY <2>4, <2>5, <3>2, <4>1 DEF Kept
    <3> QED
      BY <3>1, <3>2
  <2> QED
    BY <2>3, <2>7
<1>11. NotOwn'
  BY <1>1 DEF NotOwn
<1> QED
  BY <1>10, <1>11 DEF OneCopy

LEMMA InitCopy == Init => CopyInv
<1> SUFFICES ASSUME Init
             PROVE  CopyInv
  OBVIOUS
<1>1. ASSUME NEW f \in Frame, NEW h \in Host
      PROVE  None(Here(f, h))
  <2>1. /\ rx = [s \in Switch |-> [p \in Port |-> << >>]]
        /\ tx = [s \in Switch |-> [p \in Port |-> << >>]]
        /\ got = [k \in Host |-> << >>]
        /\ \A s \in Switch : up[s] \in {<< >>, <<Hello>>} /\ down[s] \in {<< >>, <<Install>>}
    BY DEF Init
  <2>2. \A C : Pos(<< >>, C) = {}
    BY DEF Pos
  <2>3. Pos(<<Hello>>, Carries(f)) = {} /\ Pos(<<Install>>, Carries(f)) = {}
    <3>1. Hello \notin Carries(f) /\ Install \notin Carries(f)
      BY DEF Carries, Hello, Install
    <3> QED
      BY <3>1 DEF Pos
  <2>4. Reads(Here(f, h), rx, tx, up, down, got, f, h)
    BY LineIs DEF Here
  <2>5. ASSUME NEW t \in Switch
        PROVE  /\ Here(f, h)[<<"got", t>>] = {} /\ Here(f, h)[<<"rx", t>>] = {}
               /\ Here(f, h)[<<"tx", t>>] = {} /\ Here(f, h)[<<"up", t>>] = {}
               /\ Here(f, h)[<<"down", t>>] = {}
    <3>1. Toward[t][f.src] \in Port /\ Toward[t][h] \in Port
      BY FrameType, TowardPort
    <3>2. /\ got[h] = << >> /\ rx[t][Toward[t][f.src]] = << >> /\ tx[t][Toward[t][h]] = << >>
      BY <2>1, <3>1
    <3>3. up[t] \in {<< >>, <<Hello>>} /\ down[t] \in {<< >>, <<Install>>}
      BY <2>1
    <3>4. Pos(up[t], Carries(f)) = {} /\ Pos(down[t], Carries(f)) = {}
      BY <2>2, <2>3, <3>3
    <3> QED
      <4>0. /\ Pos(got[h], {f}) = {} /\ Pos(rx[t][Toward[t][f.src]], {f}) = {}
            /\ Pos(tx[t][Toward[t][h]], {f}) = {}
        BY <2>2, <3>2
      <4>1. Here(f, h)[<<"got", t>>] = {}
        BY ONLY <2>4, <4>0, t \in Switch DEF Reads
      <4>2. Here(f, h)[<<"rx", t>>] = {} /\ Here(f, h)[<<"tx", t>>] = {}
        BY ONLY <2>4, <4>0, t \in Switch DEF Reads
      <4>3. Here(f, h)[<<"up", t>>] = {} /\ Here(f, h)[<<"down", t>>] = {}
        BY ONLY <2>4, <3>4, t \in Switch DEF Reads
      <4> QED
        BY <4>1, <4>2, <4>3
  <2> QED
    BY <2>5, Places DEF None
<1>2. OneCopy
  BY <1>1 DEF OneCopy, None, Single
<1>3. NotOwn
  <2>1. \A h \in Host : got[h] = << >>
    BY DEF Init
  <2> QED
    BY <2>1 DEF NotOwn, In
<1> QED
  BY <1>2, <1>3 DEF CopyInv

\* Every step keeps it, until the controller forgets.
LEMMA NextCopy ==
    ASSUME Inv, WayInv, CopyInv, [Next]_vars
    PROVE  CopyInv'
<1> SUFFICES ASSUME ~forgot'
             PROVE  OneCopy' /\ NotOwn'
  BY DEF CopyInv
<1>1. ~forgot
  <2>1. forgot' = forgot \/ forgot' = (forgot \/ mac_to_port # Unknown)
    BY Zenon DEF Next, Sends, Step, Send, Forward, Receive, Handle, RecvHello, RecvPacketIn, vars
  <2> QED
    BY <2>1, Zenon
<1>2. TypeOK /\ OneCopy /\ NotOwn
  BY <1>1 DEF Inv, CopyInv
<1>3. ASSUME Stays, UNCHANGED sent
      PROVE  OneCopy'
  <2>1. ASSUME NEW f \in Frame, NEW h \in Host
        PROVE  Single(Here(f, h))' /\ (f.id > Len(sent') => None(Here(f, h)'))
    <3>1. Kept(Here(f, h), Here(f, h)')
      BY <1>3 DEF Stays
    <3>2. Single(Here(f, h)) /\ (f.id > Len(sent) => None(Here(f, h)))
      BY <1>2 DEF OneCopy
    <3> QED
      BY <1>3, <3>1, <3>2 DEF Kept
  <2> QED
    BY <2>1 DEF OneCopy
<1>4. CASE Sends
  <2>1. PICK flow \in Traffic : Send(flow[1], flow[2])
    BY <1>4 DEF Sends
  <2>2. PICK h \in Host, dst \in Host \cup {BROADCAST} : flow = <<h, dst>>
    BY LearningNetAssumption
  <2>3. Send(h, dst)
    BY <2>1, <2>2
  <2> QED
    BY <1>2, <2>3, SendCopy
<1>5. CASE \E s \in Switch, p \in Port : Forward(s, p)
  <2>1. PICK s \in Switch, p \in Port : Forward(s, p)
    BY <1>5
  <2>2. UNCHANGED sent
    BY <2>1 DEF Forward
  <2>3. Stays /\ NotOwn'
    BY <1>1, <1>2, <2>1, ForwardCopy
  <2> QED
    BY <1>3, <2>2, <2>3
<1>6. CASE \E s \in Switch : Receive(s)
  <2>1. PICK s \in Switch : Receive(s)
    BY <1>6
  <2>2. UNCHANGED sent
    BY <2>1 DEF Receive
  <2>3. Stays /\ NotOwn'
    BY <1>1, <1>2, <2>1, TableCopy, PacketOutCopy DEF Receive
  <2> QED
    BY <1>3, <2>2, <2>3
<1>7. CASE \E s \in Switch : Handle(s)
  <2>1. PICK s \in Switch : Handle(s)
    BY <1>7
  <2>2. UNCHANGED sent
    BY <2>1 DEF Handle, history
  <2>3. Stays /\ NotOwn'
    BY <1>1, <1>2, <2>1, HandleCopy
  <2> QED
    BY <1>3, <2>2, <2>3
<1>8. CASE UNCHANGED vars
  <2>1. /\ UNCHANGED tx /\ UNCHANGED rx /\ UNCHANGED up /\ UNCHANGED down
        /\ UNCHANGED got /\ UNCHANGED sent
    BY <1>8 DEF vars, switch, history
  <2>2. Stays
    BY <2>1 DEF Stays, Here, Kept
  <2>3. NotOwn'
    BY <1>2, <2>1 DEF NotOwn
  <2> QED
    BY <1>3, <2>1, <2>2, <2>3
<1> QED
  BY <1>4, <1>5, <1>6, <1>7, <1>8 DEF Next, Step

\* What a host got is at one place of the line that ends there.
LEMMA OneGot ==
    ASSUME TypeOK, CopyInv
    PROVE  OnceEach
<1> SUFFICES ASSUME ~forgot, NEW h \in Host
             PROVE  /\ \A i, j \in DOMAIN got[h] : got[h][i] = got[h][j] => i = j
                    /\ \A i \in DOMAIN got[h] : got[h][i].src # h
  BY DEF OnceEach
<1>1. /\ got[h] \in Seq(Frame) /\ DOMAIN got[h] = 1 .. Len(got[h])
      /\ \A i \in DOMAIN got[h] : got[h][i] \in Frame
  BY DEF TypeOK
<1>2. ASSUME NEW i \in DOMAIN got[h], NEW j \in DOMAIN got[h], got[h][i] = got[h][j]
      PROVE  i = j
  <2>1. PICK f \in Frame : f = got[h][i]
    BY <1>1
  <2>2. PICK t \in Switch : t = At[h][1]
    BY LearningNetAssumption
  <2>3. Here(f, h)[<<"got", t>>] = Pos(got[h], {f})
    <3>1. Reads(Here(f, h), rx, tx, up, down, got, f, h)
      BY LineIs DEF Here
    <3> QED
      BY ONLY <2>2, <3>1 DEF Reads
  <2>4. i \in Pos(got[h], {f}) /\ j \in Pos(got[h], {f})
    BY <1>1, <1>2, <2>1 DEF Pos
  <2>5. Single(Here(f, h)) /\ <<"got", t>> \in Place
    BY DEF CopyInv, OneCopy, Place
  <2> QED
    BY ONLY <2>3, <2>4, <2>5 DEF Single
<1>3. ASSUME NEW i \in DOMAIN got[h]
      PROVE  got[h][i].src # h
  <2>1. In(got[h][i], got[h]) /\ got[h][i] \in Frame
    BY <1>1 DEF In
  <2> QED
    BY <2>1 DEF CopyInv, NotOwn
<1> QED
  BY <1>2, <1>3
-----------------------------------------------------------------------------
(* The theorems                                                            *)

\* Every step of the network keeps the invariant.
LEMMA NextInv ==
    ASSUME Inv, [Next]_vars
    PROVE  Inv'
<1>1. CASE Sends
  <2>1. PICK flow \in Traffic : Send(flow[1], flow[2])
    BY <1>1 DEF Sends
  <2>2. PICK h \in Host, dst \in Host \cup {BROADCAST} : flow = <<h, dst>>
    BY LearningNetAssumption
  <2>3. h # dst
    BY <2>2, LearningNetAssumption
  <2> QED
    BY <2>1, <2>2, <2>3, SendInv
<1>2. CASE Step
  BY <1>2, ForwardInv, ReceiveInv, HandleInv DEF Step
<1>3. CASE UNCHANGED vars
  <2>1. UNCHANGED program /\ UNCHANGED installed /\ UNCHANGED inports /\ UNCHANGED tx
        /\ UNCHANGED rx /\ UNCHANGED up /\ UNCHANGED down /\ UNCHANGED mac_to_port
        /\ UNCHANGED sent /\ UNCHANGED got /\ UNCHANGED promised /\ UNCHANGED forgot
    BY <1>3 DEF vars, switch, history
  <2>2. Remembers
    BY <2>1 DEF Remembers, Knows
  <2>3. TypeOK'
    BY <2>1 DEF Inv, TypeOK
  <2>4. LearnedRight' /\ FromNeighbour'
    BY <2>1 DEF Inv, LearnedRight, FromNeighbour, Knows, Behind
  <2>5. Ahead'
    BY ONLY Inv, <2>1 DEF Inv, Ahead, Knows
  <2> QED
    BY <2>1, <2>2, <2>3, <2>4, <2>5, RestKept DEF Inv, TypeOK
<1> QED
  BY <1>1, <1>2, <1>3 DEF Next

\* Every variable of the network holds what the code can put there.
THEOREM TypeCorrect == Spec => []TypeOK
<1>1. Inv => TypeOK
  BY DEF Inv
<1> QED
  BY <1>1, InitInv, NextInv, PTL DEF Spec

\* Whatever the hosts send, in any tree of switches, and whenever switches say
\* hello: what a switch or the controller has learned is where the host is.
THEOREM LearnedRightHolds == Spec => []LearnedRight
<1>1. Inv => LearnedRight
  BY DEF Inv
<1> QED
  BY <1>1, InitInv, NextInv, PTL DEF Spec

\* No host gets a frame twice, nor one of its own, as long as the controller forgets
\* nothing: a frame is on the way to a host at one place at most, and goes back to
\* where it came from in neither program.
THEOREM OnceEachHolds == Spec => []OnceEach
<1>1. Init => Inv /\ WayInv /\ CopyInv
  BY InitInv, InitWay, InitCopy
<1>2. Inv /\ WayInv /\ CopyInv /\ [Next]_vars => (Inv /\ WayInv /\ CopyInv)'
  BY NextInv, NextWay, NextCopy
<1>3. Inv /\ WayInv /\ CopyInv => OnceEach
  BY OneGot DEF Inv
<1> QED
  BY <1>1, <1>2, <1>3, PTL DEF Spec
=============================================================================
