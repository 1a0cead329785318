------------------------------ MODULE MCChatTurn ------------------------------
(* Instances of ChatTurn for TLC. *)
EXTENDS ChatTurn, TLC

Symmetry == Permutations(Turns) \cup Permutations(Sessions)
=============================================================================
