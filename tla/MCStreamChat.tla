---------------------------- MODULE MCStreamChat ----------------------------
(* Instances of StreamChat for TLC. *)
EXTENDS StreamChat, TLC

Symmetry == Permutations(Streams) \cup Permutations(Cancels)
=============================================================================
