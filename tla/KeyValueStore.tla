---------------------------- MODULE KeyValueStore ----------------------------
(***************************************************************************)
(* What one server promises its readers: commands are committed in one     *)
(* sequence, and the store takes them in that order, each exactly once.    *)
(***************************************************************************)
EXTENDS Naturals, Sequences

CONSTANT Key

VARIABLES
    log,      \* the committed commands
    count,    \* how many of them the store has taken
    store     \* the value of each key, 0 when it has none

kvVars == <<log, count, store>>

Command == [key : Key, value : Nat]

KVInit == log = <<>> /\ count = 0 /\ store = [k \in Key |-> 0]

Commit ==
    /\ Len(log') > Len(log) /\ SubSeq(log', 1, Len(log)) = log
    /\ \A i \in 1 .. Len(log') : log'[i] \in Command
    /\ UNCHANGED <<count, store>>

Take ==
    /\ count < Len(log)
    /\ count' = count + 1
    /\ store' = [store EXCEPT ![log[count + 1].key] = log[count + 1].value]
    /\ UNCHANGED log

KVSpec == KVInit /\ [][Commit \/ Take]_kvVars
=============================================================================
