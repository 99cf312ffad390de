--------------------------- MODULE MCPushReceive ---------------------------
(* Small instances of PushReceive.                                         *)
EXTENDS PushReceive, TLC

ConsumerSymmetry == Permutations(Consumers)
=============================================================================
