---------------------------- MODULE MCMessageSend ----------------------------
(* Small instances of MessageSend.                                         *)
EXTENDS MessageSend, TLC

(* Without timers the messages are alike, as the threads always are.       *)
SendSymmetry == Permutations(Consumers) \cup Permutations(Messages)
=============================================================================
