------------------------------- MODULE MCRaft -------------------------------
(* Raft on small clusters.                                                 *)
EXTENDS Raft, TLC

Symmetry == Permutations(Server) \cup Permutations(Calls) \cup Permutations(Value)
=============================================================================
