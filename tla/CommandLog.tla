----------------------------- MODULE CommandLog -----------------------------
(***************************************************************************)
(* What the consensus protocol promises the stores: there is one log of    *)
(* commands, it only gets longer at the end, and every server is delivered *)
(* a longer and longer beginning of it.                                    *)
(***************************************************************************)
EXTENDS Naturals, Sequences

CONSTANTS Server, Entry

VARIABLES
    history,     \* the commands, in their order
    delivered    \* what each server has been delivered

logVars == <<history, delivered>>

LogInit ==
    /\ history = <<>>
    /\ delivered = [s \in Server |-> <<>>]

Record ==
    /\ \E e \in Entry : history' = Append(history, e)
    /\ UNCHANGED delivered

Deliver(s) ==
    /\ \E k \in Len(delivered[s]) + 1 .. Len(history) :
          delivered' = [delivered EXCEPT ![s] = SubSeq(history, 1, k)]
    /\ UNCHANGED history

LogNext == Record \/ \E s \in Server : Deliver(s)
=============================================================================
