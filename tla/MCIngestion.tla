------------------------------ MODULE MCIngestion ------------------------------
(* Instances of Ingestion for TLC. *)
EXTENDS Ingestion, TLC

Symmetry == Permutations(Jobs) \cup Permutations(Vers)
=============================================================================
