-------------------------- MODULE NumberedChannel --------------------------
(***************************************************************************)
(* What one direction of a call's audio promises, whatever the network     *)
(* does and however few bits a packet has for its number: a frame is heard *)
(* only as it was recorded, and only after it was sent.  Frames may be     *)
(* lost, heard twice and heard in another order.                           *)
(***************************************************************************)
EXTENDS Naturals

VARIABLES
  sent,   \* how many frames were recorded and sent; frames are 0, 1, 2, ...
  heard   \* the frames handed to the jitter buffer

Init == sent = 0 /\ heard = {}

SendFrame == sent' = sent + 1 /\ UNCHANGED heard

HearFrame == /\ \E n \in 0 .. (sent - 1) : heard' = heard \cup {n}
             /\ UNCHANGED sent

Next == SendFrame \/ HearFrame

Spec == Init /\ [][Next]_<<sent, heard>>
=============================================================================
