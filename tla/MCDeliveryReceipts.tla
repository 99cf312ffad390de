------------------------- MODULE MCDeliveryReceipts -------------------------
(* A small instance of DeliveryReceipts; its values are in the .cfg.       *)
EXTENDS DeliveryReceipts, TLC

CONSTANTS t1, t2, t3, p1, h1, h2

(* The threads are alike.  Only safety is checked.                         *)
Symmetry == Permutations(Handlers)
=============================================================================
