----------------------------- MODULE MCExchange -----------------------------
(***************************************************************************)
(* Small instances of Exchange, and of the fees of its searches, for TLC.  *)
(***************************************************************************)
EXTENDS Exchange, Fees, TLC

CONSTANTS customer, agent

MCUsers == {customer, agent}
MCAgents == {agent}

\* Threads and ids are interchangeable.
MCSymmetry ==
    Permutations(Threads) \cup Permutations(Requests) \cup Permutations(Txns)
       \cup Permutations(Refs) \cup Permutations(Ratings)

\* Both sides of every bound of a band and of the range, in kobo.
MCAmounts ==
    UNION {{b - 1, b, b + 1} : b \in {500000, 1000000, 2000000, 5000000}}
=============================================================================
