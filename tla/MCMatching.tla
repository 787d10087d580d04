----------------------------- MODULE MCMatching -----------------------------
(***************************************************************************)
(* Small instances of Matching for TLC.                                    *)
(***************************************************************************)
EXTENDS Matching, TLC

CONSTANTS customer, agent1, agent2

MCUsers == {customer, agent1, agent2}
MCAgents == {agent1, agent2}

\* Threads and ids are interchangeable, and so are the two agents.
MCSymmetry ==
    Permutations(Threads) \cup Permutations(Searches) \cup Permutations(Requests)
       \cup Permutations(Txns) \cup Permutations(MCAgents)
=============================================================================
