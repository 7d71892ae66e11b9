------------------------------ MODULE MCDvdRip ------------------------------
(* DvdRip for TLC: the constants are given by the .cfg files. *)
EXTENDS DvdRip, TLC
=============================================================================
