------------------------------ MODULE MCPublish ------------------------------
(* Publish for TLC.  Nothing tells names from each other, nor ISO paths. *)
EXTENDS Publish, TLC

Symmetry == Permutations(Names) \cup Permutations(Isos)
=============================================================================
