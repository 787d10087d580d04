--------------------------- MODULE MCRegistration ---------------------------
(***************************************************************************)
(* Small instances of Registration for TLC: two spellings of one address.  *)
(***************************************************************************)
EXTENDS Registration, TLC

CONSTANTS plain, capital

MCEmails == {plain, capital}
MCLower == [e \in MCEmails |-> plain]

\* Tokens, mobile numbers and threads are interchangeable.
MCSymmetry == Permutations(Tokens) \cup Permutations(Mobiles) \cup Permutations(Threads)
=============================================================================
