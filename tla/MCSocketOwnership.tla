------------------------- MODULE MCSocketOwnership -------------------------
(***************************************************************************)
(* SocketOwnership for TLC: threads, streams and sockets are each alike.   *)
(***************************************************************************)
EXTENDS SocketOwnership, TLC

Symmetry ==
  Permutations(Threads) \cup Permutations(Streams) \cup Permutations(Sockets)
=============================================================================
