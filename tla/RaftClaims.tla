----------------------------- MODULE RaftClaims -----------------------------
(* What the comments, the tests and the README say of the protocol and the *)
(* code does not keep.  Each definition is the claim; its run exhibits a   *)
(* behaviour of the model of the code that breaks it.                      *)
EXTENDS Raft

(* "Checking single leader invariant" (pkg/tests/server_test.go:1261): no  *)
(* two servers lead in one term.  RequestVote grants every request of the  *)
(* current term without a look at votedFor.                                *)
OneLeaderPerTerm ==
    \A m, n \in Server :
        state[m] = "Leader" /\ state[n] = "Leader"
            /\ currentTerm[m] = currentTerm[n] => m = n
=============================================================================
