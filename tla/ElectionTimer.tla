---------------------------- MODULE ElectionTimer ----------------------------
(***************************************************************************)
(* The election timers of one server (pkg/server/consensus.go).            *)
(*                                                                         *)
(* runElectionTimer is a goroutine that lives for one state and one term:  *)
(* it withdraws when it finds either changed.  Whoever changes them must   *)
(* start another one, and a server without a timer never stands for        *)
(* election again.  Every place that starts one is here: the start of the  *)
(* server, startElection and makeFollower.  makeFollower is called by the  *)
(* two handlers, by the vote goroutines and by the leader's broadcasts.    *)
(*                                                                         *)
(* The other servers are the environment.  A call that is lost leaves no   *)
(* trace; the terms and the votes that others answer are arbitrary.  One   *)
(* action is one critical section of raft.mu.                              *)
(***************************************************************************)
EXTENDS Naturals, FiniteSets

CONSTANTS
    Timers,      \* bound: identities for goroutines in runElectionTimer
    Calls,       \* bound: identities for handlers and goroutines with a call
    Peers,       \* number of peers
    Patience,    \* the timeouts electionTimeout may return, 1 .. Patience
    MaxTerm,     \* bound: no election beyond this term
    MaxReceived, \* bound: requests received from others
    MaxChanges   \* bound: calls of Disconnect

ASSUME TimerAssumption ==
    /\ Timers # {}
    /\ Peers \in Nat /\ Patience \in Nat \ {0} /\ MaxTerm \in Nat
    /\ MaxReceived \in Nat /\ MaxChanges \in Nat

VARIABLES
    state,       \* raft.state
    currentTerm, \* raft.currentTerm
    elapsed,     \* time since raft.electionResetEvent, up to Patience
    serverState, \* server.serverState
    timer,       \* goroutines in runElectionTimer, with its locals
    call,        \* handlers and goroutines that may change state
    received,    \* requests received so far
    changes,     \* calls of Disconnect so far
    stopped,     \* Shutdown has been called
    orphaned     \* ghost: startElection was left early and no timer followed

protocolVars == <<state, currentTerm, elapsed>>
boundVars    == <<received, changes, stopped>>
vars == <<protocolVars, serverState, timer, call, boundVars, orphaned>>

Term  == 0 .. MaxTerm
State == {"Follower", "Candidate", "Leader", "Dead"}

Timer ==
    [pc : {"idle", "spawned", "wait", "checked", "valid", "elect", "stand", "ask"},
     duration : 0 .. Patience, term : Term, old : State, asked : 0 .. Peers]
Call ==
    [pc : {"idle", "asked", "withdraw", "win", "broadcast",
           "vote", "voteDemote", "voteDecide",
           "append", "appendDemote", "appendRecheck", "appendStepDown", "appendReset"},
     term : Term]

NoTimer == [pc |-> "idle", duration |-> 0, term |-> 0, old |-> "Follower", asked |-> 0]
Spawned == [NoTimer EXCEPT !.pc = "spawned"]
NoCall  == [pc |-> "idle", term |-> 0]

FreeTimers == {i \in Timers : timer[i].pc = "idle"}
FreeCalls  == {c \in Calls : call[c].pc = "idle"}
FreeTimer  == CHOOSE i \in FreeTimers : TRUE
FreeCall   == CHOOSE c \in FreeCalls : TRUE

-----------------------------------------------------------------------------
(* NewRaftProtocol: the first timer starts when the server is ready.       *)
Init ==
    /\ state = "Follower" /\ currentTerm = 0 /\ elapsed = 0
    /\ serverState = "Running"
    /\ LET first == CHOOSE i \in Timers : TRUE
       IN  timer = [i \in Timers |-> IF i = first THEN Spawned ELSE NoTimer]
    /\ call = [c \in Calls |-> NoCall]
    /\ received = 0 /\ changes = 0 /\ stopped = FALSE /\ orphaned = FALSE

(* Time passes.                                                            *)
Elapse ==
    /\ elapsed < Patience
    /\ elapsed' = elapsed + 1
    /\ UNCHANGED <<state, currentTerm, serverState, timer, call, boundVars, orphaned>>

-----------------------------------------------------------------------------
(* runElectionTimer                                                        *)

SetTimer(i, record) == timer' = [timer EXCEPT ![i] = record]

(* electionTimeout and getState.                                           *)
StartTimer(i) ==
    /\ timer[i].pc = "spawned"
    /\ \E d \in 1 .. Patience :
          SetTimer(i, [pc |-> "wait", duration |-> d, term |-> currentTerm,
                       old |-> state, asked |-> 0])
    /\ UNCHANGED <<protocolVars, serverState, call, boundVars, orphaned>>

(* A tick: the timer withdraws when the state has changed.                 *)
Tick(i) ==
    /\ timer[i].pc = "wait"
    /\ SetTimer(i, IF timer[i].old # state
                   THEN NoTimer ELSE [timer[i] EXCEPT !.pc = "checked"])
    /\ UNCHANGED <<protocolVars, serverState, call, boundVars, orphaned>>

StillValid(i) ==
    state \in {"Candidate", "Follower"} /\ timer[i].term = currentTerm

(* isExpired, which is true as long as the timer has not expired.          *)
isExpired(i) ==
    /\ timer[i].pc = "checked"
    /\ SetTimer(i, IF StillValid(i)
                   THEN [timer[i] EXCEPT !.pc = "valid"] ELSE NoTimer)
    /\ UNCHANGED <<protocolVars, serverState, call, boundVars, orphaned>>

isElectionReset(i) ==
    /\ timer[i].pc = "valid"
    /\ SetTimer(i, IF elapsed >= timer[i].duration
                   THEN [NoTimer EXCEPT !.pc = "elect"]
                   ELSE [timer[i] EXCEPT !.pc = "wait"])
    /\ UNCHANGED <<protocolVars, serverState, call, boundVars, orphaned>>

-----------------------------------------------------------------------------
(* startElection, called by the timer                                      *)

ReadTerm(i) ==
    /\ timer[i].pc = "elect"
    /\ SetTimer(i, [timer[i] EXCEPT !.pc = "stand", !.term = currentTerm])
    /\ UNCHANGED <<protocolVars, serverState, call, boundVars, orphaned>>

(* Neither the state nor the term is compared again.                       *)
BecomeCandidate(i) ==
    /\ timer[i].pc = "stand"
    /\ currentTerm < MaxTerm
    /\ state' = "Candidate"
    /\ currentTerm' = currentTerm + 1
    /\ elapsed' = 0
    /\ SetTimer(i, [timer[i] EXCEPT !.pc = "ask"])
    /\ UNCHANGED <<serverState, call, boundVars, orphaned>>

(* A goroutine for one more peer; when nothing comes of its call it leaves *)
(* no trace.  On a disconnected server startElection returns instead, and  *)
(* starts no timer.                                                        *)
AskPeer(i) ==
    /\ timer[i].pc = "ask" /\ timer[i].asked < Peers
    /\ \/ /\ serverState = "Disconnected"
          /\ SetTimer(i, NoTimer)
          /\ orphaned' = TRUE
          /\ UNCHANGED call
       \/ /\ serverState # "Disconnected"
          /\ SetTimer(i, [timer[i] EXCEPT !.asked = @ + 1])
          /\ \/ UNCHANGED call
             \/ /\ FreeCalls # {}
                /\ call' = [call EXCEPT ![FreeCall] =
                              [pc |-> "asked", term |-> timer[i].term]]
          /\ UNCHANGED orphaned
    /\ UNCHANGED <<protocolVars, serverState, boundVars>>

(* The timer is thought to go on by itself.                                *)
NextTimerForgotten(i) ==
    /\ timer[i].pc = "ask" /\ timer[i].asked = Peers
    /\ SetTimer(i, NoTimer)
    /\ UNCHANGED <<protocolVars, serverState, call, boundVars, orphaned>>

(* The last line of startElection: this goroutine ends and a new timer     *)
(* starts.                                                                 *)
NextTimer(i) ==
    /\ timer[i].pc = "ask" /\ timer[i].asked = Peers
    /\ SetTimer(i, Spawned)
    /\ orphaned' = FALSE
    /\ UNCHANGED <<protocolVars, serverState, call, boundVars>>

runElectionTimer(i) ==
    \/ StartTimer(i) \/ Tick(i) \/ isExpired(i) \/ isElectionReset(i)
    \/ ReadTerm(i) \/ BecomeCandidate(i) \/ AskPeer(i) \/ NextTimer(i)

-----------------------------------------------------------------------------
(* Whatever changes state beside the timers                                *)

SetCall(c, pc) == call' = [call EXCEPT ![c].pc = pc]
EndCall(c)     == call' = [call EXCEPT ![c] = NoCall]

(* A follower is thought to have a timer already.                          *)
makeFollowerOnce(t) ==
    /\ FreeTimers # {}
    /\ state' = "Follower"
    /\ currentTerm' = t
    /\ elapsed' = 0
    /\ IF state = "Follower" THEN UNCHANGED timer ELSE SetTimer(FreeTimer, Spawned)
    /\ orphaned' = FALSE
    /\ UNCHANGED <<serverState, boundVars>>

(* makeFollower takes any term and starts a timer.                         *)
makeFollower(t) ==
    /\ FreeTimers # {}
    /\ state' = "Follower"
    /\ currentTerm' = t
    /\ elapsed' = 0
    /\ SetTimer(FreeTimer, Spawned)
    /\ orphaned' = FALSE
    /\ UNCHANGED <<serverState, boundVars>>

Quiet == UNCHANGED <<protocolVars, serverState, timer, boundVars, orphaned>>

(* A vote goroutine has its answer.  Only a candidate looks at it; the     *)
(* answer may carry a higher term, complete a majority, or do neither.     *)
HandleVoteReply(c) ==
    /\ call[c].pc = "asked"
    /\ IF state # "Candidate"
       THEN EndCall(c)
       ELSE \/ \E t \in Term :
                  /\ t > call[c].term
                  /\ call' = [call EXCEPT ![c] = [pc |-> "withdraw", term |-> t]]
            \/ SetCall(c, "win")
            \/ EndCall(c)
    /\ Quiet

Withdraw(c) == call[c].pc = "withdraw" /\ makeFollower(call[c].term) /\ EndCall(c)

(* startLeader, whatever the state is by now.                              *)
StartLeader(c) ==
    /\ call[c].pc = "win"
    /\ state' = "Leader"
    /\ EndCall(c)
    /\ UNCHANGED <<currentTerm, elapsed, serverState, timer, boundVars, orphaned>>

(* A heartbeat of the leader for one peer, and an answer of higher term.   *)
Broadcast ==
    /\ state = "Leader" /\ serverState # "Disconnected"
    /\ FreeCalls # {}
    /\ call' = [call EXCEPT ![FreeCall] = [pc |-> "broadcast", term |-> currentTerm]]
    /\ Quiet

BroadcastReply(c) ==
    /\ call[c].pc = "broadcast"
    /\ \/ /\ \E t \in Term : t > call[c].term /\ makeFollower(t)
          /\ EndCall(c)
       \/ EndCall(c) /\ Quiet

(* A request of others gets past serverState and isDead.                   *)
Receive ==
    /\ received < MaxReceived
    /\ serverState = "Running" /\ state # "Dead"
    /\ FreeCalls # {}
    /\ \E t \in Term, kind \in {"vote", "append"} :
          call' = [call EXCEPT ![FreeCall] = [pc |-> kind, term |-> t]]
    /\ received' = received + 1
    /\ UNCHANGED <<protocolVars, serverState, timer, changes, stopped, orphaned>>

(* RequestVote                                                             *)
VoteCompare(c) ==
    /\ call[c].pc = "vote"
    /\ SetCall(c, IF call[c].term > currentTerm THEN "voteDemote" ELSE "voteDecide")
    /\ Quiet

VoteDemote(c) ==
    call[c].pc = "voteDemote" /\ makeFollower(call[c].term) /\ SetCall(c, "voteDecide")

(* A vote that is granted, for the term or for the candidate's log, puts   *)
(* this server's own election off.                                         *)
VoteDecide(c) ==
    /\ call[c].pc = "voteDecide"
    /\ \/ elapsed' = 0
       \/ call[c].term # currentTerm /\ UNCHANGED elapsed
    /\ EndCall(c)
    /\ UNCHANGED <<state, currentTerm, serverState, timer, boundVars, orphaned>>

(* AppendEntries                                                           *)
AppendCompare(c) ==
    /\ call[c].pc = "append"
    /\ SetCall(c, IF call[c].term > currentTerm THEN "appendDemote" ELSE "appendRecheck")
    /\ Quiet

AppendDemote(c) ==
    call[c].pc = "appendDemote" /\ makeFollower(call[c].term) /\ SetCall(c, "appendRecheck")

AppendRecheck(c) ==
    /\ call[c].pc = "appendRecheck"
    /\ IF call[c].term # currentTerm
       THEN EndCall(c)
       ELSE SetCall(c, IF state = "Follower" THEN "appendReset" ELSE "appendStepDown")
    /\ Quiet

AppendStepDown(c) ==
    call[c].pc = "appendStepDown" /\ makeFollower(call[c].term) /\ SetCall(c, "appendReset")

AppendReset(c) ==
    /\ call[c].pc = "appendReset"
    /\ elapsed' = 0
    /\ EndCall(c)
    /\ UNCHANGED <<state, currentTerm, serverState, timer, boundVars, orphaned>>

Handle(c) ==
    \/ HandleVoteReply(c) \/ Withdraw(c) \/ StartLeader(c) \/ BroadcastReply(c)
    \/ VoteCompare(c) \/ VoteDemote(c) \/ VoteDecide(c)
    \/ AppendCompare(c) \/ AppendDemote(c) \/ AppendRecheck(c)
    \/ AppendStepDown(c) \/ AppendReset(c)

-----------------------------------------------------------------------------
(* The server around the protocol                                          *)

Disconnect ==
    /\ changes < MaxChanges
    /\ serverState = "Running"
    /\ serverState' = "Disconnected"
    /\ changes' = changes + 1
    /\ UNCHANGED <<protocolVars, timer, call, received, stopped, orphaned>>

Reconnect ==
    /\ serverState = "Disconnected"
    /\ serverState' = "Running"
    /\ UNCHANGED <<protocolVars, timer, call, boundVars, orphaned>>

(* Shutdown of the protocol.  A second one, on a server that was revived,  *)
(* panics (see Raft).                                                      *)
Shutdown ==
    /\ ~stopped
    /\ stopped' = TRUE
    /\ state' = "Dead"
    /\ UNCHANGED <<currentTerm, elapsed, serverState, timer, call, received, changes, orphaned>>

Next ==
    \/ Elapse
    \/ \E i \in Timers : runElectionTimer(i)
    \/ \E c \in Calls : Handle(c)
    \/ Broadcast \/ Receive
    \/ Disconnect \/ Reconnect \/ Shutdown

(* Goroutines that can run do, and time passes.  Nothing is assumed of     *)
(* other servers, nor of who disconnects and shuts down.                   *)
Fairness ==
    /\ WF_vars(Elapse)
    /\ \A i \in Timers : WF_vars(runElectionTimer(i))
    /\ \A c \in Calls : WF_vars(Handle(c))

Spec == Init /\ [][Next]_vars
FairSpec == Spec /\ Fairness

-----------------------------------------------------------------------------
(* Properties                                                              *)

(* Every variable holds a value of its type; the locals of a timer that    *)
(* runs are those runElectionTimer and startElection give them.            *)
TypeOK ==
    /\ state \in State /\ currentTerm \in Term /\ elapsed \in 0 .. Patience
    /\ serverState \in {"Running", "Disconnected"}
    /\ timer \in [Timers -> Timer]
    /\ \A i \in Timers : timer[i].pc \in {"wait", "checked", "valid"} => timer[i].duration > 0
    /\ call \in [Calls -> Call]
    /\ received \in 0 .. MaxReceived /\ changes \in 0 .. MaxChanges
    /\ stopped \in BOOLEAN /\ orphaned \in BOOLEAN

(* A timer that will read the state, or has read what still holds, or is   *)
(* on its way through startElection.                                       *)
Watches(i) ==
    \/ timer[i].pc \in {"spawned", "elect", "stand", "ask"}
    \/ /\ timer[i].pc \in {"wait", "checked", "valid"}
       /\ timer[i].old = state /\ timer[i].term = currentTerm

(* A follower or candidate always has a timer that will not withdraw,      *)
(* however handlers, vote goroutines and timers interleave, unless         *)
(* startElection was left early because the server was disconnected        *)
(* (consensus.go:618) and no makeFollower came after it.                   *)
TimerAlive ==
    state \in {"Follower", "Candidate"} /\ ~orphaned => \E i \in Timers : Watches(i)

(* A follower or candidate that nobody keeps quiet any more does not stay  *)
(* as it is: it stands for election, or another term, a leadership or its  *)
(* end overtakes it.  The exception is the server TimerAlive excepts.      *)
StandsAgain ==
    \A t \in 0 .. MaxTerm - 1 :
        state \in {"Follower", "Candidate"} /\ currentTerm = t
            ~> \/ state \notin {"Follower", "Candidate"}
               \/ currentTerm # t
               \/ orphaned
==============================================================================
