------------------------------- MODULE MCWsRoom -------------------------------
(* WsRoom for TLC: WebSockets and schemas are interchangeable model values. *)
EXTENDS WsRoom, TLC

Symmetry == Permutations(Conn) \cup Permutations(Schema)
=============================================================================
