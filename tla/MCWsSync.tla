------------------------------- MODULE MCWsSync -------------------------------
(* WsSync for TLC: changes are model values, interchangeable among their kind. *)
EXTENDS WsSync, TLC

Symmetry == Permutations(ClientChange) \cup Permutations(ServerChange)
=============================================================================
