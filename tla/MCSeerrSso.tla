----------------------------- MODULE MCSeerrSso -----------------------------
(* Instances of SeerrSso for TLC. *)
EXTENDS SeerrSso

CONSTANTS p1, r1, r2

=============================================================================
