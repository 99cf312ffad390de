--------------------------- MODULE MCRedPhoneCall ---------------------------
(* Small instances of RedPhoneCall.                                        *)
EXTENDS RedPhoneCall

CONSTANTS c1, c2
=============================================================================
