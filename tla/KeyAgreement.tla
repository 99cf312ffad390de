---------------------------- MODULE KeyAgreement ---------------------------
(***************************************************************************)
(* What the ZRTP handshake promises, whatever the network does: the two    *)
(* phones take turns, each step of one answering the last step of the      *)
(* other, so that neither is ever more than one step from the other.  The  *)
(* responder has the secret confirmed at its fourth step, the initiator at *)
(* its fifth, which is the last of all.                                    *)
(***************************************************************************)
EXTENDS Naturals

VARIABLE progress   \* how many packets of the other side each has answered

Init == progress = [initiator |-> 0, responder |-> 0]

Lead(side, steps) == progress' = [progress EXCEPT ![side] = steps]

InitiatorAnswers == /\ progress["initiator"] = progress["responder"]
                    /\ Lead("initiator", progress["initiator"] + 1)

ResponderAnswers == /\ progress["initiator"] = progress["responder"] + 1
                    /\ progress["responder"] < 4
                    /\ Lead("responder", progress["responder"] + 1)

Next == InitiatorAnswers \/ ResponderAnswers

Spec == Init /\ [][Next]_progress
=============================================================================
