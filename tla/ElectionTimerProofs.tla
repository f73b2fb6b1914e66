------------------------- MODULE ElectionTimerProofs -------------------------
(***************************************************************************)
(* For any number of timers, handlers and peers and any bounds: a follower *)
(* or candidate has a timer that will not withdraw.                        *)
(***************************************************************************)
EXTENDS ElectionTimer, TLAPS

LEMMA ConstantTypes ==
    /\ NoTimer \in Timer /\ Spawned \in Timer /\ NoCall \in Call
    /\ Spawned.pc = "spawned" /\ NoTimer.pc = "idle"
  BY TimerAssumption DEF NoTimer, Spawned, NoCall, Timer, Call, Term, State

LEMMA FreeTimerFree == FreeTimers # {} => FreeTimer \in Timers /\ timer[FreeTimer].pc = "idle"
  BY DEF FreeTimers, FreeTimer

LEMMA FreeCallFree == FreeCalls # {} => FreeCall \in Calls
  BY DEF FreeCalls, FreeCall

(* What a goroutine in runElectionTimer does keeps the types.              *)
LEMMA TimerTypes ==
    ASSUME TypeOK, NEW i \in Timers, runElectionTimer(i) PROVE TypeOK'
  <1> USE ConstantTypes, TimerAssumption DEF TypeOK, protocolVars, boundVars, SetTimer
  <1>1. CASE StartTimer(i)
    BY <1>1 DEF StartTimer, Timer
  <1>2. CASE Tick(i)
    BY <1>2 DEF Tick, Timer
  <1>3. CASE isExpired(i)
    BY <1>3 DEF isExpired, Timer
  <1>4. CASE isElectionReset(i)
    BY <1>4 DEF isElectionReset, Timer, NoTimer
  <1>5. CASE ReadTerm(i)
    BY <1>5 DEF ReadTerm, Timer
  <1>6. CASE BecomeCandidate(i)
    BY <1>6 DEF BecomeCandidate, Timer, Term, State
  <1>7. CASE AskPeer(i)
    <2>1. timer' \in [Timers -> Timer]
      BY <1>7 DEF AskPeer, Timer
    <2>2. call' \in [Calls -> Call]
      BY <1>7, FreeCallFree DEF AskPeer, Call, Timer
    <2>3. \A k \in Timers : timer'[k].pc \in {"wait", "checked", "valid"} => timer'[k].duration > 0
      BY <1>7 DEF AskPeer, Timer
    <2> QED BY <1>7, <2>1, <2>2, <2>3 DEF AskPeer
  <1>8. CASE NextTimer(i)
    BY <1>8 DEF NextTimer
  <1> QED BY <1>1, <1>2, <1>3, <1>4, <1>5, <1>6, <1>7, <1>8 DEF runElectionTimer

(* makeFollower keeps the types and leaves a timer that has yet to read    *)
(* the state.                                                              *)
LEMMA FollowerTypes ==
    ASSUME TypeOK, NEW t \in Term, makeFollower(t)
    PROVE  /\ state' \in State /\ currentTerm' \in Term /\ elapsed' \in 0 .. Patience
           /\ timer' \in [Timers -> Timer]
           /\ \A i \in Timers : timer'[i].pc \in {"wait", "checked", "valid"} => timer'[i].duration > 0
           /\ \E i \in Timers : timer'[i].pc = "spawned"
           /\ orphaned' \in BOOLEAN
           /\ UNCHANGED <<serverState, received, changes, stopped>>
  <1> DEFINE f == FreeTimer
  <1>1. f \in Timers /\ timer' = [timer EXCEPT ![f] = Spawned]
    BY FreeTimerFree DEF makeFollower, SetTimer
  <1>2. timer' \in [Timers -> Timer]
    BY <1>1, ConstantTypes DEF TypeOK
  <1>3. timer'[f].pc = "spawned"
    BY <1>1, ConstantTypes DEF TypeOK
  <1>4. \A i \in Timers : timer'[i].pc \in {"wait", "checked", "valid"} => timer'[i].duration > 0
    BY <1>1, ConstantTypes DEF TypeOK
  <1>5. /\ state' \in State /\ currentTerm' \in Term /\ elapsed' \in 0 .. Patience
        /\ UNCHANGED <<serverState, received, changes, stopped>>
    BY TimerAssumption DEF TypeOK, makeFollower, State, boundVars
  <1>6. orphaned' \in BOOLEAN
    BY Zenon DEF makeFollower
  <1> HIDE DEF f
  <1> QED BY <1>1, <1>2, <1>3, <1>4, <1>5, <1>6

LEMMA CallTypes ==
    ASSUME TypeOK, NEW c \in Calls, Handle(c) PROVE TypeOK'
  <1> USE ConstantTypes, TimerAssumption DEF TypeOK
  <1>0. call[c] \in Call /\ call[c].term \in Term
    BY DEF Call
  <1>1. CASE HandleVoteReply(c)
    BY <1>1 DEF HandleVoteReply, Call, SetCall, EndCall, Quiet, protocolVars, boundVars
  <1>2. CASE Withdraw(c)
    BY <1>0, <1>2, FollowerTypes DEF Withdraw, EndCall
  <1>3. CASE StartLeader(c)
    BY <1>3 DEF StartLeader, EndCall, State, boundVars
  <1>4. CASE BroadcastReply(c)
    <2>1. CASE \E t \in Term : t > call[c].term /\ makeFollower(t) /\ EndCall(c)
      BY <2>1, FollowerTypes DEF EndCall
    <2>2. CASE EndCall(c) /\ Quiet
      BY <2>2 DEF EndCall, Quiet, protocolVars, boundVars
    <2> QED BY <1>4, <2>1, <2>2 DEF BroadcastReply
  <1>5. CASE VoteCompare(c)
    BY <1>5 DEF VoteCompare, Call, SetCall, Quiet, protocolVars, boundVars
  <1>6. CASE VoteDemote(c)
    <2>1. call' \in [Calls -> Call]
      BY <1>6 DEF VoteDemote, SetCall, Call
    <2> QED BY <1>0, <1>6, <2>1, FollowerTypes DEF VoteDemote
  <1>7. CASE VoteDecide(c)
    BY <1>7 DEF VoteDecide, EndCall, boundVars
  <1>8. CASE AppendCompare(c)
    BY <1>8 DEF AppendCompare, Call, SetCall, Quiet, protocolVars, boundVars
  <1>9. CASE AppendDemote(c)
    <2>1. call' \in [Calls -> Call]
      BY <1>9 DEF AppendDemote, SetCall, Call
    <2> QED BY <1>0, <1>9, <2>1, FollowerTypes DEF AppendDemote
  <1>10. CASE AppendRecheck(c)
    BY <1>10 DEF AppendRecheck, Call, SetCall, EndCall, Quiet, protocolVars, boundVars
  <1>11. CASE AppendStepDown(c)
    <2>1. call' \in [Calls -> Call]
      BY <1>11 DEF AppendStepDown, SetCall, Call
    <2> QED BY <1>0, <1>11, <2>1, FollowerTypes DEF AppendStepDown
  <1>12. CASE AppendReset(c)
    BY <1>12 DEF AppendReset, EndCall, boundVars
  <1> QED BY <1>1, <1>2, <1>3, <1>4, <1>5, <1>6, <1>7, <1>8, <1>9, <1>10, <1>11, <1>12
          DEF Handle

LEMMA OtherTypes ==
    ASSUME TypeOK,
           Elapse \/ Broadcast \/ Receive \/ Disconnect \/ Reconnect \/ Shutdown
    PROVE  TypeOK'
  <1> USE TimerAssumption DEF TypeOK, protocolVars, boundVars
  <1>1. CASE Elapse
    BY <1>1 DEF Elapse
  <1>2. CASE Broadcast
    BY <1>2, FreeCallFree DEF Broadcast, Quiet, Call
  <1>3. CASE Receive
    BY <1>3, FreeCallFree DEF Receive, Call
  <1>4. CASE Disconnect
    BY <1>4 DEF Disconnect
  <1>5. CASE Reconnect
    BY <1>5 DEF Reconnect
  <1>6. CASE Shutdown
    BY <1>6 DEF Shutdown, State
  <1> QED BY <1>1, <1>2, <1>3, <1>4, <1>5, <1>6

LEMMA InitTypes == Init => TypeOK
  <1> SUFFICES ASSUME Init PROVE TypeOK
    OBVIOUS
  <1>1. timer \in [Timers -> Timer] /\ call \in [Calls -> Call]
    BY ConstantTypes DEF Init
  <1>2. \A i \in Timers : timer[i].pc \in {"idle", "spawned"}
    BY ConstantTypes DEF Init
  <1>3. \A i \in Timers : timer[i].pc \in {"wait", "checked", "valid"} => timer[i].duration > 0
    BY <1>2
  <1>4. /\ state \in State /\ currentTerm \in Term /\ elapsed \in 0 .. Patience
        /\ serverState \in {"Running", "Disconnected"}
        /\ received \in 0 .. MaxReceived /\ changes \in 0 .. MaxChanges
    BY TimerAssumption DEF Init, State, Term
  <1>5. stopped \in BOOLEAN /\ orphaned \in BOOLEAN
    BY Zenon DEF Init
  <1> QED BY <1>1, <1>3, <1>4, <1>5 DEF TypeOK

LEMMA NextTypes == TypeOK /\ [Next]_vars => TypeOK'
  <1> SUFFICES ASSUME TypeOK, [Next]_vars PROVE TypeOK'
    OBVIOUS
  <1>1. CASE UNCHANGED vars
    BY <1>1 DEF TypeOK, vars, protocolVars, boundVars
  <1>2. CASE Next
    BY <1>2, TimerTypes, CallTypes, OtherTypes DEF Next
  <1> QED BY <1>1, <1>2

(* Types, whatever the number of goroutines (runElectionTimer and every    *)
(* caller of makeFollower).                                                *)
THEOREM TimerTypeCorrect == Spec => []TypeOK
  BY InitTypes, NextTypes, PTL DEF Spec

-----------------------------------------------------------------------------
(* A step that leaves state, term, timers and ghost alone keeps the watch. *)
LEMMA QuietKeepsTimer ==
    ASSUME TimerAlive, UNCHANGED <<state, currentTerm, timer, orphaned>>
    PROVE  TimerAlive'
  BY DEF TimerAlive, Watches

(* So does one that makes the server leader or dead.                       *)
LEMMA LeadingNeedsNoTimer ==
    ASSUME state' \in {"Leader", "Dead"} PROVE TimerAlive'
  BY DEF TimerAlive

(* makeFollower starts a timer, so nothing needs to be known of the others.*)
LEMMA FollowerHasTimer ==
    ASSUME TypeOK, NEW t \in Term, makeFollower(t) PROVE TimerAlive'
  BY FollowerTypes DEF TimerAlive, Watches

(* A timer withdraws only when it has read what does not hold any more, or *)
(* when it leaves startElection early, which the ghost records.            *)
LEMMA TimerKeepsWatch ==
    ASSUME TypeOK, TimerAlive, NEW i \in Timers, runElectionTimer(i) PROVE TimerAlive'
  <1> USE DEF TypeOK, protocolVars, SetTimer
  <1>1. CASE StartTimer(i)
    BY <1>1 DEF StartTimer, TimerAlive, Watches
  <1>2. CASE Tick(i)
    BY <1>2 DEF Tick, TimerAlive, Watches, Timer
  <1>3. CASE isExpired(i)
    BY <1>3 DEF isExpired, StillValid, TimerAlive, Watches, Timer
  <1>4. CASE isElectionReset(i)
    BY <1>4 DEF isElectionReset, TimerAlive, Watches, Timer, NoTimer
  <1>5. CASE ReadTerm(i)
    BY <1>5 DEF ReadTerm, TimerAlive, Watches, Timer
  <1>6. CASE BecomeCandidate(i)
    BY <1>6 DEF BecomeCandidate, TimerAlive, Watches, Timer
  <1>7. CASE AskPeer(i)
    BY <1>7 DEF AskPeer, TimerAlive, Watches, Timer
  <1>8. CASE NextTimer(i)
    BY <1>8, ConstantTypes DEF NextTimer, TimerAlive, Watches
  <1> QED BY <1>1, <1>2, <1>3, <1>4, <1>5, <1>6, <1>7, <1>8 DEF runElectionTimer

LEMMA CallKeepsWatch ==
    ASSUME TypeOK, TimerAlive, NEW c \in Calls, Handle(c) PROVE TimerAlive'
  <1>0. call[c].term \in Term
    BY DEF TypeOK, Call
  <1>1. CASE \E t \in Term : makeFollower(t)
    BY <1>1, FollowerHasTimer
  <1>2. CASE UNCHANGED <<state, currentTerm, timer, orphaned>>
    BY <1>2, QuietKeepsTimer
  <1>3. CASE StartLeader(c)
    BY <1>3, LeadingNeedsNoTimer DEF StartLeader
  <1>4. \/ \E t \in Term : makeFollower(t)
        \/ UNCHANGED <<state, currentTerm, timer, orphaned>>
        \/ StartLeader(c)
    BY <1>0 DEF Handle, HandleVoteReply, Withdraw, BroadcastReply, VoteCompare,
       VoteDemote, VoteDecide, AppendCompare, AppendDemote, AppendRecheck,
       AppendStepDown, AppendReset, Quiet, protocolVars
  <1> QED BY <1>1, <1>2, <1>3, <1>4

LEMMA NextKeepsWatch == TypeOK /\ TimerAlive /\ [Next]_vars => TimerAlive'
  <1> SUFFICES ASSUME TypeOK, TimerAlive, [Next]_vars PROVE TimerAlive'
    OBVIOUS
  <1>1. CASE Elapse \/ Broadcast \/ Receive \/ Disconnect \/ Reconnect
    BY <1>1, QuietKeepsTimer
       DEF Elapse, Broadcast, Quiet, Receive, Disconnect, Reconnect, protocolVars
  <1>2. CASE Shutdown
    BY <1>2, LeadingNeedsNoTimer DEF Shutdown
  <1>3. CASE UNCHANGED vars
    BY <1>3, QuietKeepsTimer DEF vars, protocolVars
  <1> QED BY <1>1, <1>2, <1>3, TimerKeepsWatch, CallKeepsWatch DEF Next

LEMMA InitHasTimer == Init => TimerAlive
  BY ConstantTypes, TimerAssumption DEF Init, TimerAlive, Watches

(* A follower or candidate is never left without a timer by any            *)
(* interleaving of runElectionTimer, startElection and makeFollower,       *)
(* except by the early return of startElection on a disconnected server.   *)
THEOREM TimerStaysAlive == Spec => []TimerAlive
  <1>1. TypeOK /\ TimerAlive /\ [Next]_vars => TypeOK' /\ TimerAlive'
    BY NextTypes, NextKeepsWatch
  <1> QED BY <1>1, InitTypes, InitHasTimer, PTL DEF Spec
==============================================================================
