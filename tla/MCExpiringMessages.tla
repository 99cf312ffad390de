------------------------- MODULE MCExpiringMessages -------------------------
(* Small instances of ExpiringMessages.                                    *)
EXTENDS ExpiringMessages, TLC

(* The callers differ in nothing but their names (safety runs only).       *)
CallerSymmetry == Permutations(Callers)
=============================================================================
