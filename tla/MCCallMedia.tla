---------------------------- MODULE MCCallMedia ----------------------------
(* A small instance of CallMedia: short numbers of two bits.               *)
EXTENDS CallMedia

ForeignPlaces == 1 .. 6
=============================================================================
