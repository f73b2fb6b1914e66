---------------------------- MODULE MCRaftElected ----------------------------
(***************************************************************************)
(* Raft from the moment First has won the first election with every vote,  *)
(* so that replication to several followers fits in a search.              *)
(***************************************************************************)
EXTENDS Raft, TLC

CONSTANT First

ASSUME ElectedAssumption == First \in Server

ElectedInit ==
    /\ state       = [n \in Server |-> IF n = First THEN "Leader" ELSE "Follower"]
    /\ currentTerm = [n \in Server |-> IF n = First THEN 1 ELSE 0]
    /\ votedFor    = [n \in Server |-> First]
    /\ stateLog    = [n \in Server |-> <<>>]
    /\ written     = [n \in Server |-> 0]
    /\ commitIndex = [n \in Server |-> MaxUint64]
    /\ lastApplied = [n \in Server |-> MaxUint64]
    /\ applied     = [n \in Server |-> <<>>]
    /\ nextIndex   = [n \in Server |-> [p \in Server |-> 0]]
    /\ matchIndex  = [n \in Server |-> [p \in Server |-> 0]]
    /\ heartbeat   = [n \in Server |-> IF n = First THEN {"ready"} ELSE {}]
    /\ closed      = {}
    /\ fault       = [n \in Server |-> "none"]
    /\ starting    = {}
    /\ elections   = <<[cand |-> First, term |-> 0, votes |-> Cardinality(Server),
                        counted |-> Peers(First)]>>
    /\ voteCalls   = {}
    /\ pending     = {}
    /\ calls       = {}
    /\ created     = {}
    /\ torn        = FALSE

ElectedSpec == ElectedInit /\ [][Next]_vars

Symmetry == Permutations(Peers(First)) \cup Permutations(Calls) \cup Permutations(Value)
=============================================================================
