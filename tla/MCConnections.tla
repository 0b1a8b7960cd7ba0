--------------------------- MODULE MCConnections ---------------------------
(* Connections on small sets, for TLC. *)
EXTENDS Connections

CONSTANTS o1, a1
OneOrder == [a \in Acts |-> o1]
=============================================================================
