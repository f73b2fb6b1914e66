-------------------------------- MODULE Raft --------------------------------
(***************************************************************************)
(* The consensus protocol of pkg/server/consensus.go, run by a cluster.    *)
(*                                                                         *)
(* The code is a set of goroutines that share one RaftProtocol structure   *)
(* per server under its mutex raft.mu, and most of them take the mutex     *)
(* several times: they read a term, unlock, and act on it later.  One      *)
(* action of this module is one critical section, so every interleaving    *)
(* between two sections of a handler is a behaviour.  Two neighbouring     *)
(* sections share an action only where the first one reads nothing that a  *)
(* step in between could change to a different effect.                     *)
(*                                                                         *)
(* Indices are the code's uint64 values: 0-based, with MaxUint64 for the   *)
(* missing -1.  Entry i of the Go slice stateLog is stateLog[n][i + 1].    *)
(***************************************************************************)
EXTENDS Naturals, FiniteSets, Sequences

CONSTANTS
    Server,        \* the members of the cluster, each the peer of the others
    Value,         \* the commands clients submit
    MaxUint64,     \* math.MaxUint64, what "-1" wraps to
    Calls,         \* identities for the AppendEntries calls in progress
    Stoppable,     \* the servers that may be shut down
    MaxTerm,       \* bound: no election beyond this term
    MaxElections,  \* bound: elections started in one behaviour
    MaxLog         \* bound: entries in a log

ASSUME RaftAssumption ==
    /\ IsFiniteSet(Server)
    /\ Stoppable \subseteq Server
    /\ MaxTerm \in Nat /\ MaxElections \in Nat /\ MaxLog \in Nat
    /\ MaxUint64 \in Nat
    /\ MaxTerm < MaxUint64 /\ MaxLog < MaxUint64

VARIABLES
    state,         \* raft.state
    currentTerm,   \* raft.currentTerm
    votedFor,      \* raft.votedFor, None for math.MaxUint64
    stateLog,      \* raft.stateLog
    written,       \* slots of its array an entry was ever written to, a bound on cap
    commitIndex,   \* raft.volatileState.commitIndex
    lastApplied,   \* raft.volatileState.lastApplied
    applied,       \* the entries commitChannel has pushed to commitChan
    nextIndex,     \* raft.nextIndex, a missing key reads 0
    matchIndex,    \* raft.matchIndex, a missing key reads 0
    heartbeat,     \* where the leader's heartbeat goroutines are
    closed,        \* servers whose commitReadyChan has been closed
    fault,         \* "none", or the panic that ended the server's process
    starting,      \* startElection calls that have read the term, numbered
    elections,     \* every candidacy, with the votesReceived its goroutines share
    voteCalls,     \* goroutines of startElection and the handlers they call
    pending,       \* broadcastMsg goroutines that have not locked mu yet
    calls,         \* broadcastMsg goroutines after that, and the handlers they call
    created,       \* ghost: each log a leader had right after a Submit
    torn           \* ghost: an in-place append changed a message before it was sent

termVars   == <<state, currentTerm, votedFor>>
logVars    == <<stateLog, written, created, torn>>
commitVars == <<commitIndex, lastApplied, applied>>
leaderVars == <<nextIndex, matchIndex>>
procVars   == <<closed, fault>>
voteVars   == <<starting, elections, voteCalls>>
appendVars == <<pending, calls>>
vars == <<termVars, logVars, commitVars, leaderVars, heartbeat, procVars,
          voteVars, appendVars>>

-----------------------------------------------------------------------------
(* Data                                                                    *)

None == "none"
Stale == [stale |-> TRUE]   \* what a slice read past the end of stateLog may give

Term  == 0 .. MaxTerm
Index == 0 .. MaxUint64
Entry == [term : Term, value : Value]
Log   == {log \in Seq(Entry) : Len(log) <= MaxLog}

(* uint64 increment and decrement, which wrap.                             *)
Inc(i) == IF i = MaxUint64 THEN 0 ELSE i + 1
Dec(i) == IF i = 0 THEN MaxUint64 ELSE i - 1

Peers(n) == Server \ {n}
Majority(k) == k * 2 > Cardinality(Server)

Up(n) == fault[n] = "none"

(* lastLogIndexAndTerm: both are MaxUint64 for an empty log.               *)
LastLogIndex(log) == Dec(Len(log))
LastLogTerm(log)  == IF log = <<>> THEN MaxUint64 ELSE log[Len(log)].term

(* The log comparison of RequestVote, candidate's (index, term) on the     *)
(* left.  An empty log compares as the newest of all.                      *)
UpToDate(index, term, log) ==
    \/ term > LastLogTerm(log)
    \/ /\ term = LastLogTerm(log)
       /\ index >= LastLogIndex(log)
       /\ LastLogIndex(log) # MaxUint64

VoteCall ==
    [e : Nat, peer : Server,
     pc : {"spawned", "sent", "demote", "readlog", "decide", "replied",
           "withdraw", "tally", "count", "win"},
     lastIndex : Index, lastTerm : Index, ok : BOOLEAN,
     rterm : Term, votes : Nat]

AppendCall ==
    [id : Calls, src : Server, peer : Server, term : Term, next : Index,
     log : Log, lc : Index,
     pc : {"built", "sent", "demote", "recheck", "stepdown", "append", "replied"},
     ok : BOOLEAN, rterm : Term]

Election == [cand : Server, term : Term, votes : Nat, counted : SUBSET Server]

-----------------------------------------------------------------------------
(* NewRaftProtocol on every server.                                        *)
Init ==
    /\ state       = [n \in Server |-> "Follower"]
    /\ currentTerm = [n \in Server |-> 0]
    /\ votedFor    = [n \in Server |-> None]
    /\ stateLog    = [n \in Server |-> <<>>]
    /\ written     = [n \in Server |-> 0]
    /\ commitIndex = [n \in Server |-> MaxUint64]
    /\ lastApplied = [n \in Server |-> MaxUint64]
    /\ applied     = [n \in Server |-> <<>>]
    /\ nextIndex   = [n \in Server |-> [p \in Server |-> 0]]
    /\ matchIndex  = [n \in Server |-> [p \in Server |-> 0]]
    /\ heartbeat   = [n \in Server |-> {}]
    /\ closed      = {}
    /\ fault       = [n \in Server |-> "none"]
    /\ starting    = {}
    /\ elections   = <<>>
    /\ voteCalls   = {}
    /\ pending     = {}
    /\ calls       = {}
    /\ created     = {}
    /\ torn        = FALSE

(* makeFollower assigns the term it is given, whatever the current one.    *)
makeFollower(n, t) ==
    /\ state'       = [state EXCEPT ![n] = "Follower"]
    /\ currentTerm' = [currentTerm EXCEPT ![n] = t]
    /\ votedFor'    = [votedFor EXCEPT ![n] = None]

-----------------------------------------------------------------------------
(* Elections: the candidate's side                                         *)

(* runElectionTimer finds the server a Follower or Candidate, its timeout  *)
(* elapsed, and startElection reads the term.  makeFollower starts a timer *)
(* every time, so several may elapse together on one server.               *)
ElectionTimeout(n) ==
    /\ Up(n)
    /\ state[n] \in {"Follower", "Candidate"}
    /\ Cardinality(starting) + Len(elections) < MaxElections
    /\ starting' = starting \cup
           {[cand |-> n, term |-> currentTerm[n],
             id |-> Cardinality(starting) + Len(elections) + 1]}
    /\ UNCHANGED <<termVars, logVars, commitVars, leaderVars, heartbeat,
                   procVars, elections, voteCalls, appendVars>>

(* votesReceived starts with the candidate's own vote.                     *)
NewElectionVotesTwice(s) == [cand |-> s.cand, term |-> s.term, votes |-> 2, counted |-> {}]
NewElection(s) == [cand |-> s.cand, term |-> s.term, votes |-> 1, counted |-> {}]

(* The locked part of startElection: it does not look at the state again,  *)
(* increments whatever term there is now, and starts one goroutine per     *)
(* peer, which will all use the term read before.                          *)
BecomeCandidate(s) ==
    LET n == s.cand IN
    /\ Up(n)
    /\ currentTerm[n] < MaxTerm
    /\ state'       = [state EXCEPT ![n] = "Candidate"]
    /\ currentTerm' = [currentTerm EXCEPT ![n] = @ + 1]
    /\ votedFor'    = [votedFor EXCEPT ![n] = n]
    /\ starting'    = starting \ {s}
    /\ elections'   = Append(elections, NewElection(s))
    /\ voteCalls'   = voteCalls \cup
           {[e |-> Len(elections) + 1, peer |-> p, pc |-> "spawned",
             lastIndex |-> 0, lastTerm |-> 0, ok |-> FALSE, rterm |-> 0,
             votes |-> 0] : p \in Peers(n)}
    /\ UNCHANGED <<logVars, commitVars, leaderVars, heartbeat, procVars, appendVars>>

(* The goroutine moves on to d; the other goroutines stay where they are.  *)
VoteStep(c, d) == voteCalls' = (voteCalls \ {c}) \cup {d}
VoteDone(c)    == voteCalls' = voteCalls \ {c}

(* The goroutine reads the candidate's last entry and sends the request.   *)
SendVote(c) ==
    LET n == elections[c.e].cand IN
    /\ c.pc = "spawned" /\ Up(n)
    /\ VoteStep(c, [c EXCEPT !.pc = "sent",
                             !.lastIndex = LastLogIndex(stateLog[n]),
                             !.lastTerm  = LastLogTerm(stateLog[n])])
    /\ UNCHANGED <<termVars, logVars, commitVars, leaderVars, heartbeat,
                   procVars, starting, elections, appendVars>>

(* RemoteCall returned an error: the request or the reply was lost, timed  *)
(* out, or one of the two processes is gone.                               *)
LoseVote(c) ==
    /\ \/ c.pc \in {"sent", "replied"}
       \/ c.pc \in {"demote", "readlog", "decide"} /\ ~Up(c.peer)
    /\ VoteDone(c)
    /\ UNCHANGED <<termVars, logVars, commitVars, leaderVars, heartbeat,
                   procVars, starting, elections, appendVars>>

(* The reply arrives.  A server that is no longer a candidate ignores it,  *)
(* and a higher term ends the election.                                    *)
HandleVoteReply(c) ==
    LET e == elections[c.e] IN
    /\ c.pc = "replied" /\ Up(e.cand)
    /\ \/ /\ state[e.cand] # "Candidate"
          /\ VoteDone(c)
       \/ /\ state[e.cand] = "Candidate"
          /\ c.rterm > e.term
          /\ VoteStep(c, [c EXCEPT !.pc = "withdraw", !.ok = FALSE])
       \/ /\ state[e.cand] = "Candidate"
          /\ c.rterm <= e.term
          /\ VoteStep(c, [c EXCEPT !.pc = "tally"])
    /\ UNCHANGED <<termVars, logVars, commitVars, leaderVars, heartbeat,
                   procVars, starting, elections, appendVars>>

(* gotVote adds the vote to votesReceived, an argument evaluated without   *)
(* the lock, and looks at neither the state nor the term of the server.    *)
gotVote(c) ==
    LET e == elections[c.e] IN
    /\ c.pc = "tally" /\ Up(e.cand)
    /\ VoteStep(c, [c EXCEPT !.pc = "count",
           !.votes = IF c.rterm = e.term /\ c.ok THEN e.votes + 1 ELSE e.votes])
    /\ UNCHANGED <<termVars, logVars, commitVars, leaderVars, heartbeat,
                   procVars, starting, elections, appendVars>>

Withdraw(c) ==
    LET n == elections[c.e].cand IN
    /\ c.pc = "withdraw" /\ Up(n)
    /\ makeFollower(n, c.rterm)
    /\ VoteDone(c)
    /\ UNCHANGED <<logVars, commitVars, leaderVars, heartbeat, procVars,
                   starting, elections, appendVars>>

(* votesReceived is overwritten with the value computed from the old read, *)
(* so two replies handled together may count as one.                       *)
CountVote(c) ==
    LET e == elections[c.e] IN
    /\ c.pc = "count" /\ Up(e.cand)
    /\ elections' = [elections EXCEPT ![c.e] =
           [cand |-> e.cand, term |-> e.term, votes |-> c.votes,
            counted |-> IF c.rterm = e.term /\ c.ok
                        THEN e.counted \cup {c.peer} ELSE e.counted]]
    /\ IF Majority(c.votes)
       THEN VoteStep(c, [c EXCEPT !.pc = "win", !.ok = FALSE, !.rterm = 0, !.votes = 0])
       ELSE VoteDone(c)
    /\ UNCHANGED <<termVars, logVars, commitVars, leaderVars, heartbeat,
                   procVars, starting, appendVars>>

(* Mutant of StartLeader: resets nextIndex to the paper's 1-based value.   *)
StartLeaderOneBased(c) ==
    LET n == elections[c.e].cand IN
    /\ c.pc = "win" /\ Up(n)
    /\ state'     = [state EXCEPT ![n] = "Leader"]
    /\ heartbeat' = [heartbeat EXCEPT ![n] = @ \cup {"ready"}]
    /\ nextIndex' = [nextIndex EXCEPT ![n] = [p \in Server |-> Len(stateLog[n]) + 1]]
    /\ VoteDone(c)
    /\ UNCHANGED <<currentTerm, votedFor, logVars, commitVars, matchIndex,
                   procVars, starting, elections, appendVars>>

(* startLeader: makeLeader checks neither the state nor the term, keeps    *)
(* nextIndex and matchIndex, and a heartbeat goroutine starts.             *)
StartLeader(c) ==
    LET n == elections[c.e].cand IN
    /\ c.pc = "win" /\ Up(n)
    /\ state'     = [state EXCEPT ![n] = "Leader"]
    /\ heartbeat' = [heartbeat EXCEPT ![n] = @ \cup {"ready"}]
    /\ VoteDone(c)
    /\ UNCHANGED <<currentTerm, votedFor, logVars, commitVars, leaderVars,
                   procVars, starting, elections, appendVars>>

-----------------------------------------------------------------------------
(* Elections: the RequestVote handler                                      *)

(* The handler refuses when Dead, else compares terms.  RequestVoteCall    *)
(* and AppendEntriesCall look at serverState before that, which a call may *)
(* be past and Reconnect sets back to Running: refusals there are losses.  *)
ReceiveVote(c) ==
    LET e == elections[c.e] IN
    /\ c.pc = "sent" /\ Up(c.peer)
    /\ IF state[c.peer] = "Dead"
       THEN VoteDone(c)
       ELSE VoteStep(c, [c EXCEPT !.pc =
                IF e.term > currentTerm[c.peer] THEN "demote" ELSE "readlog"])
    /\ UNCHANGED <<termVars, logVars, commitVars, leaderVars, heartbeat,
                   procVars, starting, elections, appendVars>>

VoteDemote(c) ==
    /\ c.pc = "demote" /\ Up(c.peer)
    /\ makeFollower(c.peer, elections[c.e].term)
    /\ VoteStep(c, [c EXCEPT !.pc = "readlog"])
    /\ UNCHANGED <<logVars, commitVars, leaderVars, heartbeat, procVars,
                   starting, elections, appendVars>>

VoteReadLog(c) ==
    /\ c.pc = "readlog" /\ Up(c.peer)
    /\ VoteStep(c, [c EXCEPT !.pc = "decide", !.lastIndex = 0, !.lastTerm = 0,
                !.ok = UpToDate(c.lastIndex, c.lastTerm, stateLog[c.peer])])
    /\ UNCHANGED <<termVars, logVars, commitVars, leaderVars, heartbeat,
                   procVars, starting, elections, appendVars>>

(* votedFor is assigned and never consulted.                               *)
DecideVote(c) ==
    LET granted == currentTerm[c.peer] = elections[c.e].term \/ c.ok IN
    /\ c.pc = "decide" /\ Up(c.peer)
    /\ votedFor' = [votedFor EXCEPT ![c.peer] =
                        IF granted THEN elections[c.e].cand ELSE @]
    /\ VoteStep(c, [c EXCEPT !.pc = "replied", !.ok = granted,
                             !.rterm = currentTerm[c.peer]])
    /\ UNCHANGED <<state, currentTerm, logVars, commitVars, leaderVars,
                   heartbeat, procVars, starting, elections, appendVars>>

-----------------------------------------------------------------------------
(* Replication: the leader's side                                          *)

(* groupBroadcast reads the term, whatever the state has become, and       *)
(* starts one goroutine per peer.                                          *)
groupBroadcast(n) ==
    /\ Up(n)
    /\ "ready" \in heartbeat[n]
    /\ heartbeat' = [heartbeat EXCEPT ![n] = (@ \ {"ready"}) \cup {"wait"}]
    /\ pending' = pending \cup
           {[src |-> n, peer |-> p, term |-> currentTerm[n]] : p \in Peers(n)}
    /\ UNCHANGED <<termVars, logVars, commitVars, leaderVars, procVars,
                   voteVars, calls>>

(* After the tick the loop goes on only on a leader.                       *)
HeartbeatTick(n) ==
    /\ Up(n)
    /\ "wait" \in heartbeat[n]
    /\ heartbeat' = [heartbeat EXCEPT ![n] =
           (@ \ {"wait"}) \cup (IF state[n] = "Leader" THEN {"ready"} ELSE {})]
    /\ UNCHANGED <<termVars, logVars, commitVars, leaderVars, procVars,
                   voteVars, appendVars>>

(* An append() in place writes the slots beyond index k of the array that  *)
(* unsent messages of the server still refer to: what message c reads now. *)
Overlay(c, k, new) ==
    [i \in 1 .. Len(c.log) |->
        IF i > c.next /\ i > k /\ i <= Len(new) THEN new[i] ELSE c.log[i]]

(* The unsent messages of n that share the array written beyond index k.   *)
Exposed(n, k, new) ==
    {c \in calls : c.src = n /\ c.pc = "built" /\ Overlay(c, k, new) # c.log}

Overwritten(S, k, new) == {[c EXCEPT !.log = Overlay(c, k, new)] : c \in S}

(* An append() on stateLog.  A log that gets shorter leaves the entries    *)
(* beyond its end in the array.                                            *)
SetLog(n, new) ==
    /\ stateLog' = [stateLog EXCEPT ![n] = new]
    /\ written'  = [written EXCEPT ![n] = IF @ < Len(new) THEN Len(new) ELSE @]

(* Mutant of Submit: a server appends whatever its state.                  *)
SubmitAnywhere(n, v) ==
    LET new == Append(stateLog[n], [term |-> currentTerm[n], value |-> v]) IN
    /\ Up(n)
    /\ Len(stateLog[n]) < MaxLog
    /\ SetLog(n, new)
    /\ created'  = created \cup {new}
    /\ UNCHANGED <<termVars, torn, commitVars, leaderVars, heartbeat, procVars,
                   voteVars, appendVars>>

(* Submit appends on a leader only.                                        *)
Submit(n, v) ==
    LET old == stateLog[n]
        new == Append(old, [term |-> currentTerm[n], value |-> v])
    IN
    /\ Up(n)
    /\ state[n] = "Leader"
    /\ Len(old) < MaxLog
    /\ SetLog(n, new)
    /\ created'  = created \cup {new}
    /\ \E S \in SUBSET Exposed(n, Len(old), new) :
           /\ calls' = (calls \ S) \cup Overwritten(S, Len(old), new)
           /\ torn'  = (torn \/ S # {})
    /\ UNCHANGED <<termVars, commitVars, leaderVars, heartbeat, procVars,
                   voteVars, pending>>

(* broadcastMsg builds the message under the lock.  The record keeps the   *)
(* log and nextIndex: PrevLogIndex is Dec(next), PrevLogTerm the term of   *)
(* log[next], Entries what follows.  stateLog[nextIndex:] panics when      *)
(* nextIndex is beyond the log.                                            *)
BuildAppend(g) ==
    LET n == g.src IN
    /\ Up(n)
    /\ pending' = pending \ {g}
    /\ \/ /\ nextIndex[n][g.peer] > Len(stateLog[n])
          /\ fault' = [fault EXCEPT ![n] = "slice"]
          /\ UNCHANGED calls
       \/ /\ nextIndex[n][g.peer] <= Len(stateLog[n])
          /\ \E id \in Calls \ {c.id : c \in calls} :
                calls' = calls \cup
                   {[id |-> id, src |-> n, peer |-> g.peer, term |-> g.term,
                     next |-> nextIndex[n][g.peer], log |-> stateLog[n],
                     lc |-> 0, pc |-> "built", ok |-> FALSE, rterm |-> 0]}
          /\ UNCHANGED fault
    /\ UNCHANGED <<termVars, logVars, commitVars, leaderVars, heartbeat,
                   closed, voteVars>>

AppendStep(c, d) == calls' = (calls \ {c}) \cup {d}
AppendDone(c)    == calls' = calls \ {c}

(* LeaderCommit is read after the unlock, later than the entries, and the  *)
(* request is marshalled.                                                  *)
SendAppend(c) ==
    /\ c.pc = "built" /\ Up(c.src)
    /\ AppendStep(c, [c EXCEPT !.pc = "sent", !.lc = commitIndex[c.src]])
    /\ UNCHANGED <<termVars, logVars, commitVars, leaderVars, heartbeat,
                   procVars, voteVars, pending>>

LoseAppend(c) ==
    /\ \/ c.pc \in {"sent", "replied"}
       \/ c.pc \in {"demote", "recheck", "stepdown", "append"} /\ ~Up(c.peer)
    /\ AppendDone(c)
    /\ UNCHANGED <<termVars, logVars, commitVars, leaderVars, heartbeat,
                   procVars, voteVars, pending>>

(* The answer carries a higher term.                                       *)
AppendReplyNewTerm(c) ==
    /\ c.pc = "replied" /\ Up(c.src)
    /\ c.term < c.rterm
    /\ makeFollower(c.src, c.rterm)
    /\ AppendDone(c)
    /\ UNCHANGED <<logVars, commitVars, leaderVars, heartbeat, procVars,
                   voteVars, pending>>

(* Mutant of Committable: counts a peer that lacks the last entry.         *)
CommittableEarly(n, match) ==
    {i \in Inc(commitIndex[n]) .. MaxLog :
        /\ i < Len(stateLog[n])
        /\ stateLog[n][i + 1].term = currentTerm[n]
        /\ Majority(Cardinality({p \in Peers(n) : match[p] + 1 >= i}) + 1)}

(* The indices the loop of broadcastMsg raises commitIndex to, in order:   *)
(* the last of them is what remains.                                       *)
Committable(n, match) ==
    {i \in Inc(commitIndex[n]) .. MaxLog :
        /\ i < Len(stateLog[n])
        /\ stateLog[n][i + 1].term = currentTerm[n]
        /\ Majority(Cardinality({p \in Peers(n) : match[p] >= i}) + 1)}

(* Setting commitIndex to i and signalling commitReadyChan, which panics   *)
(* once Shutdown has closed it.                                            *)
SetCommit(n, i) ==
    /\ commitIndex' = [commitIndex EXCEPT ![n] = i]
    /\ fault' = [fault EXCEPT ![n] = IF n \in closed THEN "closed" ELSE @]

(* nextIndex + uint64(len(entries))                                        *)
NextAfterSkips(c) == Len(c.log) + 1
NextAfter(c) == Len(c.log)

AppendReplySuccess(c) ==
    LET n     == c.src
        match == [matchIndex[n] EXCEPT ![c.peer] = Dec(NextAfter(c))]
        C     == Committable(n, match)
    IN
    /\ c.pc = "replied" /\ Up(n)
    /\ c.term = c.rterm /\ state[n] = "Leader" /\ c.ok
    /\ nextIndex'  = [nextIndex EXCEPT ![n] = [@ EXCEPT ![c.peer] = NextAfter(c)]]
    /\ matchIndex' = [matchIndex EXCEPT ![n] = match]
    /\ \/ C = {} /\ UNCHANGED <<commitIndex, fault>>
       \/ \E i \in C : (\A j \in C : j <= i) /\ SetCommit(n, i)
    /\ AppendDone(c)
    /\ UNCHANGED <<termVars, logVars, lastApplied, applied, heartbeat, closed,
                   voteVars, pending>>

AppendReplyReject(c) ==
    LET n == c.src IN
    /\ c.pc = "replied" /\ Up(n)
    /\ c.term = c.rterm /\ state[n] = "Leader" /\ ~c.ok
    /\ nextIndex' = [nextIndex EXCEPT ![n] = [@ EXCEPT ![c.peer] = Dec(c.next)]]
    /\ AppendDone(c)
    /\ UNCHANGED <<termVars, logVars, commitVars, matchIndex, heartbeat,
                   procVars, voteVars, pending>>

(* The answer is of an older term, or the server leads no more.            *)
AppendReplyIgnored(c) ==
    /\ c.pc = "replied" /\ Up(c.src)
    /\ c.term > c.rterm \/ (c.term = c.rterm /\ state[c.src] # "Leader")
    /\ AppendDone(c)
    /\ UNCHANGED <<termVars, logVars, commitVars, leaderVars, heartbeat,
                   procVars, voteVars, pending>>

-----------------------------------------------------------------------------
(* Replication: the AppendEntries handler                                  *)

ReceiveAppend(c) ==
    /\ c.pc = "sent" /\ Up(c.peer)
    /\ IF state[c.peer] = "Dead"
       THEN AppendDone(c)
       ELSE AppendStep(c, [c EXCEPT !.pc =
                IF c.term > currentTerm[c.peer] THEN "demote" ELSE "recheck"])
    /\ UNCHANGED <<termVars, logVars, commitVars, leaderVars, heartbeat,
                   procVars, voteVars, pending>>

AppendDemote(c) ==
    /\ c.pc = "demote" /\ Up(c.peer)
    /\ makeFollower(c.peer, c.term)
    /\ AppendStep(c, [c EXCEPT !.pc = "recheck"])
    /\ UNCHANGED <<logVars, commitVars, leaderVars, heartbeat, procVars,
                   voteVars, pending>>

(* "we read it again": refuse another term, step down when not Follower.   *)
AppendRecheck(c) ==
    /\ c.pc = "recheck" /\ Up(c.peer)
    /\ AppendStep(c,
         IF c.term # currentTerm[c.peer]
         THEN [c EXCEPT !.pc = "replied", !.rterm = currentTerm[c.peer]]
         ELSE [c EXCEPT !.pc = IF state[c.peer] = "Follower"
                               THEN "append" ELSE "stepdown"])
    /\ UNCHANGED <<termVars, logVars, commitVars, leaderVars, heartbeat,
                   procVars, voteVars, pending>>

AppendStepDown(c) ==
    /\ c.pc = "stepdown" /\ Up(c.peer)
    /\ makeFollower(c.peer, c.term)
    /\ AppendStep(c, [c EXCEPT !.pc = "append"])
    /\ UNCHANGED <<logVars, commitVars, leaderVars, heartbeat, procVars,
                   voteVars, pending>>

(* The consistency check on PrevLogIndex and PrevLogTerm.                  *)
PrevMatches(log, c) ==
    c.next > 0 => c.next <= Len(log) /\ log[c.next].term = c.log[c.next].term

(* Entries up to i of the message are in the log already, by their terms.  *)
KnownByLength(log, c, i) == \A j \in c.next + 1 .. i : j <= Len(log)
Known(log, c, i) ==
    \A j \in c.next + 1 .. i : j <= Len(log) /\ log[j].term = c.log[j].term

(* The log after the handler: unchanged if every entry is known, else cut  *)
(* at the first unknown entry and continued with the message's.  The       *)
(* mutant cuts the log after the message even then.                        *)
SplicedAndCut(log, c) ==
    [i \in 1 .. Len(c.log) |->
        IF i <= c.next \/ Known(log, c, i) THEN log[i] ELSE c.log[i]]
Spliced(log, c) ==
    IF Known(log, c, Len(c.log)) THEN log
    ELSE [i \in 1 .. Len(c.log) |->
             IF i <= c.next \/ Known(log, c, i) THEN log[i] ELSE c.log[i]]

(* How many entries of the log the splice keeps in place.                  *)
Kept(log, c) ==
    CHOOSE k \in 0 .. Len(c.log) :
        /\ k >= c.next /\ Known(log, c, k)
        /\ k < Len(c.log) => ~Known(log, c, k + 1)

(* LeaderCommit as the handler compares it: MaxUint64 is greater than      *)
(* every index, and a fresh commitIndex of MaxUint64 yields to any other.  *)
RaisesCommit(lc, ci) == lc > ci \/ (lc # MaxUint64 /\ ci = MaxUint64)

(* uint64Min(req.LeaderCommit, uint64(len(raft.stateLog)-1)).  The mutants *)
(* leave out the conversion to uint64, and the minimum.                    *)
FollowerCommitAny(lc, log) == lc
FollowerCommitSigned(lc, log) ==
    IF lc < Len(log) - 1 THEN lc ELSE Len(log) - 1
FollowerCommit(lc, log) ==
    IF lc < LastLogIndex(log) THEN lc ELSE LastLogIndex(log)

(* The last critical section of AppendEntries looks at neither the term    *)
(* nor the state again.                                                    *)
AppendAccept(c) ==
    LET n   == c.peer
        new == Spliced(stateLog[n], c)
        k   == Kept(stateLog[n], c)
        d   == [c EXCEPT !.pc = "replied", !.ok = TRUE, !.rterm = c.term, !.lc = 0]
    IN
    /\ c.pc = "append" /\ Up(n)
    /\ PrevMatches(stateLog[n], c)
    /\ SetLog(n, new)
    /\ \E S \in SUBSET (IF new = stateLog[n] THEN {} ELSE Exposed(n, k, new)) :
           /\ calls' = (calls \ (S \cup {c})) \cup Overwritten(S, k, new) \cup {d}
           /\ torn'  = (torn \/ S # {})
    /\ IF RaisesCommit(c.lc, commitIndex[n])
       THEN SetCommit(n, FollowerCommit(c.lc, new))
       ELSE UNCHANGED <<commitIndex, fault>>
    /\ UNCHANGED <<termVars, created, lastApplied, applied, leaderVars,
                   heartbeat, closed, voteVars, pending>>

AppendRefuse(c) ==
    /\ c.pc = "append" /\ Up(c.peer)
    /\ ~PrevMatches(stateLog[c.peer], c)
    /\ AppendStep(c, [c EXCEPT !.pc = "replied", !.rterm = c.term, !.lc = 0])
    /\ UNCHANGED <<termVars, logVars, commitVars, leaderVars, heartbeat,
                   procVars, voteVars, pending>>

-----------------------------------------------------------------------------
(* Applying committed entries, and shutting down                           *)

(* Where the next turn of commitChannel begins.                            *)
FirstUnappliedReset(n) == 0
FirstUnapplied(n) == Inc(lastApplied[n])

(* One turn of commitChannel.  A signal waits in commitReadyChan whenever  *)
(* commitIndex has changed since the last turn.  Beyond the end of the log *)
(* the slice expression panics, or reads what an earlier, longer log left  *)
(* there, or reads nil, which panics when the entries before it have been  *)
(* pushed.                                                                 *)
ApplyCommits(n) ==
    LET lo == FirstUnapplied(n)
        hi == Inc(commitIndex[n])
        Pushed(k) == [i \in 1 .. k |-> IF lo + i <= Len(stateLog[n])
                                       THEN stateLog[n][lo + i] ELSE Stale]
    IN
    /\ Up(n)
    /\ commitIndex[n] # lastApplied[n]
    /\ commitIndex[n] > lastApplied[n] \/ lastApplied[n] = MaxUint64
    /\ \/ /\ lo <= hi /\ hi <= written[n]
          /\ lastApplied' = [lastApplied EXCEPT ![n] = commitIndex[n]]
          /\ applied' = [applied EXCEPT ![n] = @ \o Pushed(hi - lo)]
          /\ UNCHANGED fault
       \/ /\ lo > hi \/ hi > Len(stateLog[n])
          /\ fault' = [fault EXCEPT ![n] = "overrun"]
          /\ \E k \in 0 .. written[n] :
                /\ k > 0 => lo + k < hi /\ lo + k <= written[n]
                /\ applied' = [applied EXCEPT ![n] = @ \o Pushed(k)]
          /\ UNCHANGED lastApplied
    /\ UNCHANGED <<termVars, logVars, commitIndex, leaderVars, heartbeat,
                   closed, voteVars, appendVars>>

(* Shutdown closes commitReadyChan; a server that makeFollower brought     *)
(* back from Dead closes it a second time, which panics.                   *)
Shutdown(n) ==
    /\ Up(n) /\ n \in Stoppable
    /\ state[n] # "Dead"
    /\ state'  = [state EXCEPT ![n] = "Dead"]
    /\ closed' = closed \cup {n}
    /\ fault'  = [fault EXCEPT ![n] = IF n \in closed THEN "closed" ELSE @]
    /\ UNCHANGED <<currentTerm, votedFor, logVars, commitVars, leaderVars,
                   heartbeat, voteVars, appendVars>>

-----------------------------------------------------------------------------

VoteNext(c) ==
    \/ SendVote(c) \/ LoseVote(c) \/ HandleVoteReply(c) \/ Withdraw(c)
    \/ gotVote(c) \/ CountVote(c) \/ StartLeader(c)
    \/ ReceiveVote(c) \/ VoteDemote(c) \/ VoteReadLog(c) \/ DecideVote(c)

AppendNext(c) ==
    \/ SendAppend(c) \/ LoseAppend(c)
    \/ AppendReplyNewTerm(c) \/ AppendReplySuccess(c)
    \/ AppendReplyReject(c) \/ AppendReplyIgnored(c)
    \/ ReceiveAppend(c) \/ AppendDemote(c) \/ AppendRecheck(c)
    \/ AppendStepDown(c) \/ AppendAccept(c) \/ AppendRefuse(c)

ServerNext(n) ==
    \/ ElectionTimeout(n) \/ groupBroadcast(n) \/ HeartbeatTick(n)
    \/ ApplyCommits(n) \/ Shutdown(n)
    \/ \E v \in Value : Submit(n, v)

Next ==
    \/ \E n \in Server : ServerNext(n)
    \/ \E s \in starting : BecomeCandidate(s)
    \/ \E c \in voteCalls : VoteNext(c)
    \/ \E g \in pending : BuildAppend(g)
    \/ \E c \in calls : AppendNext(c)

Spec == Init /\ [][Next]_vars

-----------------------------------------------------------------------------
(* Properties                                                              *)

TypeTerm ==
    /\ state \in [Server -> {"Follower", "Candidate", "Leader", "Dead"}]
    /\ currentTerm \in [Server -> Term]
    /\ votedFor \in [Server -> Server \cup {None}]
TypeLog ==
    /\ stateLog \in [Server -> Log] /\ written \in [Server -> 0 .. MaxLog]
    /\ created \subseteq Log
    /\ torn \in BOOLEAN
TypeCommit ==
    /\ commitIndex \in [Server -> Index]
    /\ lastApplied \in [Server -> Index]
    /\ applied \in [Server -> Seq(Entry \cup {Stale})]
TypeLeader ==
    /\ nextIndex \in [Server -> [Server -> Index]]
    /\ matchIndex \in [Server -> [Server -> Index]]
TypeProc ==
    /\ heartbeat \in [Server -> SUBSET {"ready", "wait"}]
    /\ closed \subseteq Stoppable
    /\ fault \in [Server -> {"none", "slice", "overrun", "closed"}]
TypeVote ==
    /\ starting \subseteq [cand : Server, term : Term, id : Nat]
    /\ IsFiniteSet(starting)
    /\ elections \in Seq(Election)
    /\ voteCalls \subseteq VoteCall
    /\ \A c \in voteCalls : c.e \in 1 .. Len(elections)
TypeAppend ==
    /\ pending \subseteq [src : Server, peer : Server, term : Term]
    /\ calls \subseteq AppendCall
    /\ \A c \in calls : c.next <= Len(c.log)

(* Every variable has its type.  Indices are indices or the wrapped -1,    *)
(* terms stay within the bound although makeFollower takes any term, and a *)
(* message under construction never starts beyond the log it carries.      *)
TypeOK ==
    /\ TypeTerm /\ TypeLog /\ TypeCommit /\ TypeLeader
    /\ TypeProc /\ TypeVote /\ TypeAppend

(* A server leads only after a candidacy of its own in which a majority,   *)
(* itself included, granted a vote that was counted at the candidacy's     *)
(* term: the unlocked read of votesReceived may lose votes, never invent   *)
(* or double them.                                                         *)
LeaderWonElection ==
    \A n \in Server : state[n] = "Leader" =>
        \E e \in DOMAIN elections :
            /\ elections[e].cand = n
            /\ Majority(Cardinality(elections[e].counted) + 1)

(* No two Submits ever created the same index in the same term differently *)
(* (what one leader per term would give).                                  *)
UniqueCreated ==
    \A a, b \in created :
        Len(a) = Len(b) /\ a[Len(a)].term = b[Len(b)].term => a = b

(* Log Matching: as long as creation is unique and no message was torn,    *)
(* two logs that hold the same term at the same index agree up to there,   *)
(* through every overtaken, repeated or lost AppendEntries and every       *)
(* truncation the handler makes.                                           *)
LogMatching ==
    UniqueCreated /\ ~torn =>
        \A m, n \in Server :
            \A i \in DOMAIN stateLog[m] \cap DOMAIN stateLog[n] :
                stateLog[m][i].term = stateLog[n][i].term =>
                    \A j \in 1 .. i : stateLog[m][j] = stateLog[n][j]

Prefix(a, b) == Len(a) <= Len(b) /\ \A i \in 1 .. Len(a) : a[i] = b[i]

(* The Submits so far extend one log: leaders changed, if they did, only   *)
(* to servers that had every submitted entry, or that accepted none.       *)
SingleHistory == \A a, b \in created : Prefix(a, b) \/ Prefix(b, a)

(* Under a single history the nextIndex bookkeeping of broadcastMsg, which *)
(* is neither reset at an election nor protected against overtaking        *)
(* replies, never points past the log: stateLog[nextIndex:] cannot panic.  *)
NextIndexInLog ==
    SingleHistory => \A n, p \in Server : nextIndex[n][p] <= Len(stateLog[n])

(* Any two servers have applied the same commands in the same order, one   *)
(* perhaps fewer.                                                          *)
SameCommands ==
    \A m, n \in Server : Prefix(applied[m], applied[n]) \/ Prefix(applied[n], applied[m])

(* They have under a single history, although commitIndex may be raised    *)
(* too early, twice or out of order.                                       *)
StateMachineSafety == SingleHistory => SameCommands

(* The history is single, and the promise holds without a condition, when  *)
(* every candidacy was of one server, in however many elections it stood   *)
(* and whatever its votes, its messages and their answers met.             *)
OneCandidate == \A d, e \in DOMAIN elections : elections[d].cand = elections[e].cand
OneCandidateSafe == OneCandidate => SingleHistory /\ SameCommands

(* Server p has the first k entries of the log of n.                       *)
Holds(p, k, n) ==
    /\ k <= Len(stateLog[p]) /\ k <= Len(stateLog[n])
    /\ \A j \in 1 .. k : stateLog[p][j] = stateLog[n][j]

(* What matchIndex says a peer has stored, the peer has and keeps, however *)
(* late the answer was that said so.  It says nothing with the two values  *)
(* it has by accident: 0, which a missing key reads, and MaxUint64, which  *)
(* the answer to an empty log sets (broadcastMsg, consensus.go:838).       *)
AckedIsStored ==
    SingleHistory =>
        \A n, p \in Server : matchIndex[n][p] \notin {0, MaxUint64}
                                => Holds(p, matchIndex[n][p] + 1, n)

(* broadcastMsg raises commitIndex only over entries that a majority has   *)
(* stored, again but for the accidental values of matchIndex: index 0 is   *)
(* committed by the first answer, and a peer at MaxUint64 always counts.   *)
Accidental(n) == commitIndex[n] = 0 \/ \E p \in Server : matchIndex[n][p] = MaxUint64
CommitNeedsMajority ==
    [][SingleHistory' => \A c \in calls :
          /\ AppendReplySuccess(c)
          /\ commitIndex'[c.src] # commitIndex[c.src] /\ ~Accidental(c.src)'
          => Majority(Cardinality({p \in Server :
                                      Holds(p, commitIndex'[c.src] + 1, c.src)}))]_vars

(* commitChannel (consensus.go:971) can panic on an entry beyond the log,  *)
(* because a follower with an empty log takes any LeaderCommit; but once   *)
(* it has got through a turn it does not any more.                         *)
OverrunOnlyFirst ==
    SingleHistory => \A n \in Server : fault[n] = "overrun" => lastApplied[n] = MaxUint64

(* Under a single history AppendEntries never takes an entry away from a   *)
(* log, not even when an older and shorter message arrives last.           *)
LogOnlyGrows ==
    [][SingleHistory' => \A n \in Server : Prefix(stateLog[n], stateLog'[n])]_vars

(* As long as the history is single the cluster keeps the promise of       *)
(* CommandLog: the longest log a Submit made is the history, commitChannel *)
(* delivers it, and no step does anything else to either.                  *)
History == CHOOSE a \in created \cup {<<>>} : \A b \in created : Len(b) <= Len(a)
CL == INSTANCE CommandLog WITH history <- History, delivered <- applied
ImplementsLog == CL!LogInit /\ [][SingleHistory' => CL!LogNext]_(CL!logVars)
=============================================================================
