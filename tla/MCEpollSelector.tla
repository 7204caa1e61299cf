--------------------------- MODULE MCEpollSelector ---------------------------
(***************************************************************************)
(* EpollSelector on small instances.                                       *)
(***************************************************************************)
EXTENDS EpollSelector, TLC

Symmetry == Permutations(Threads) \cup Permutations(Handles) \cup Permutations(Tokens)

==============================================================================
