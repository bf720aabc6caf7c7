------------------------------- MODULE MCDpdk -------------------------------
(* Small instances of Dpdk for TLC. *)
EXTENDS Dpdk

CONSTANTS b1, b2, b3

MCMbuf == {b1, b2, b3}

\* lcore 1 polls both ports and sends to both; nothing comes from the agent
MCTwoPorts == [lcores |-> {1}, ports |-> {0, 1}, mbufs |-> {b1, b2, b3},
               program |-> {0, 1}, agent |-> {}]

\* lcore 1 polls, and the agent's thread has the bursts of lcore 0
MCAgentAlone == [lcores |-> {1}, ports |-> {0, 1}, mbufs |-> {b1, b2, b3},
                 program |-> {1, DROP}, agent |-> {1}]

\* the agent's thread shares the bursts of lcore 0 with the lcore
MCAgentShares == [lcores |-> {0}, ports |-> {0}, mbufs |-> {b1, b2},
                  program |-> {0}, agent |-> {0}]

\* a program that floods
MCFlooding == [lcores |-> {1}, ports |-> {0, 1}, mbufs |-> {b1, b2},
               program |-> {FLOOD}, agent |-> {}]

MCSetups == {MCTwoPorts, MCAgentAlone, MCAgentShares, MCFlooding}
MCFloods == {MCFlooding}
=============================================================================
