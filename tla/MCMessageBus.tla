----------------------------- MODULE MCMessageBus -----------------------------
(* Three clients ask for overlapping lists of two topics, in both orders;   *)
(* the channel holds two of the four messages.                              *)
EXTENDS MessageBus, TLC

Symmetry == Permutations(Clients)
MCRequests == {<<1>>, <<1, 2>>, <<2, 1>>, <<2, 2>>}
===============================================================================
