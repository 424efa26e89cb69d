---------------------------- MODULE MCWebsocket ----------------------------
(* The swaps are interchangeable. *)
EXTENDS Websocket, TLC

Symmetry == Permutations(Swaps)
=============================================================================
