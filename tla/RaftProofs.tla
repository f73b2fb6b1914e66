----------------------------- MODULE RaftProofs -----------------------------
(* Proofs, for every cluster and every bound, of the invariants of Raft.   *)
EXTENDS Raft, FiniteSetTheorems, TLAPS

(* The constants' assumptions, as the provers use them.                    *)
LEMMA ZeroFacts == 0 \in Term /\ 0 \in Index /\ MaxUint64 \in Index /\ Term \subseteq Index
  BY RaftAssumption DEF Term, Index

(* A group of variables that a step leaves alone keeps its type.           *)
LEMMA TypeUnchanged ==
  /\ TypeTerm /\ UNCHANGED termVars => TypeTerm'
  /\ TypeLog /\ UNCHANGED logVars => TypeLog'
  /\ TypeCommit /\ UNCHANGED commitVars => TypeCommit'
  /\ TypeLeader /\ UNCHANGED leaderVars => TypeLeader'
  /\ TypeProc /\ UNCHANGED <<heartbeat, procVars>> => TypeProc'
  /\ TypeVote /\ UNCHANGED voteVars => TypeVote'
  /\ TypeAppend /\ UNCHANGED appendVars => TypeAppend'
  BY DEF TypeTerm, TypeLog, TypeCommit, TypeLeader, TypeProc, TypeVote, TypeAppend,
         termVars, logVars, commitVars, leaderVars, procVars, voteVars, appendVars

(* makeFollower takes any term.                                            *)
LEMMA MakeFollowerType ==
  ASSUME TypeTerm, NEW n \in Server, NEW t \in Term, makeFollower(n, t)
  PROVE  TypeTerm'
  BY DEF TypeTerm, makeFollower

(* A vote goroutine that moves on, or ends, keeps the type of the rest.    *)
LEMMA VoteStepType ==
  ASSUME TypeVote, NEW c \in voteCalls, NEW d \in VoteCall, d.e = c.e,
         VoteStep(c, d), UNCHANGED <<starting, elections>>
  PROVE  TypeVote'
  BY DEF TypeVote, VoteStep

(* A vote goroutine that ends keeps the type of the rest.                  *)
LEMMA VoteDoneType ==
  ASSUME TypeVote, NEW c \in voteCalls, VoteDone(c), UNCHANGED <<starting, elections>>
  PROVE  TypeVote'
  BY DEF TypeVote, VoteDone

(* The same for the goroutine of an AppendEntries call.                    *)
LEMMA AppendStepType ==
  ASSUME TypeAppend, NEW c \in calls, NEW d \in AppendCall,
         d.next = c.next, d.log = c.log, AppendStep(c, d), UNCHANGED pending
  PROVE  TypeAppend'
  BY DEF TypeAppend, AppendStep

(* An AppendEntries call that ends keeps the type of the rest.             *)
LEMMA AppendDoneType ==
  ASSUME TypeAppend, NEW c \in calls, AppendDone(c), UNCHANGED pending
  PROVE  TypeAppend'
  BY DEF TypeAppend, AppendDone

(* NewRaftProtocol leaves every variable with its type.                    *)
LEMMA TypeInit == Init => TypeOK
<1> SUFFICES ASSUME Init PROVE TypeOK
  OBVIOUS
<1>1. <<>> \in Log
  BY RaftAssumption DEF Log
<1>2. TypeTerm /\ TypeCommit /\ TypeLeader /\ TypeProc
  BY RaftAssumption DEF Init, TypeTerm, TypeCommit, TypeLeader, TypeProc, Term, Index, None
<1>3. TypeLog
  <2>1. torn \in BOOLEAN
    BY DEF Init
  <2>2. written \in [Server -> 0 .. MaxLog]
    BY RaftAssumption DEF Init
  <2>3. QED
    BY <1>1, <2>1, <2>2 DEF Init, TypeLog
<1>4. TypeVote /\ TypeAppend
  BY FS_EmptySet DEF Init, TypeVote, TypeAppend
<1>5. QED
  BY <1>2, <1>3, <1>4 DEF TypeOK

(* What is used of a log: its length fits an index, its entries have terms. *)
LEMMA LogFacts ==
  ASSUME NEW log \in Log
  PROVE  /\ log \in Seq(Entry)
         /\ Len(log) \in Nat /\ Len(log) <= MaxLog /\ Len(log) \in Index
         /\ \A i \in 1 .. Len(log) : log[i] \in Entry /\ log[i].term \in Term
         /\ LastLogIndex(log) \in Index
         /\ LastLogTerm(log) \in Index
<1>1. log \in Seq(Entry) /\ Len(log) \in Nat /\ Len(log) <= MaxLog
  BY DEF Log
<1>2. \A i \in 1 .. Len(log) : log[i] \in Entry /\ log[i].term \in Term
  <2>1. \A i \in 1 .. Len(log) : log[i] \in Entry
    BY <1>1
  <2>2. \A x \in Entry : x.term \in Term
    BY DEF Entry
  <2>3. QED
    BY <2>1, <2>2
<1>3. Len(log) \in Index /\ LastLogIndex(log) \in Index
  BY <1>1, RaftAssumption DEF Index, LastLogIndex, Dec
<1>4. LastLogTerm(log) \in Index
  <2>1. CASE log = <<>>
    BY <2>1, RaftAssumption DEF LastLogTerm, Index
  <2>2. CASE log # <<>>
    <3>1. Len(log) \in 1 .. Len(log)
      BY <1>1, <2>2
    <3>2. QED
      BY <3>1, <2>2, <1>2, RaftAssumption DEF LastLogTerm, Index, Term
  <2>3. QED
    BY <2>1, <2>2
<1>5. QED
  BY <1>1, <1>2, <1>3, <1>4

(* An append() keeps the types of the log and its array.                   *)
LEMMA SetLogType ==
  ASSUME TypeLog, NEW n \in Server, NEW new \in Log, SetLog(n, new)
  PROVE  stateLog' \in [Server -> Log] /\ written' \in [Server -> 0 .. MaxLog]
<1>1. Len(new) \in 0 .. MaxLog
  BY LogFacts, RaftAssumption
<1>2. QED
  BY <1>1 DEF SetLog, TypeLog

(* The election a vote goroutine belongs to exists.                        *)
LEMMA VoteCallFacts ==
  ASSUME TypeVote, NEW c \in voteCalls
  PROVE  /\ c \in VoteCall /\ c.peer \in Server /\ c.rterm \in Term
         /\ elections[c.e] \in Election
         /\ elections[c.e].cand \in Server
         /\ elections[c.e].term \in Term
<1>1. c \in VoteCall /\ elections[c.e] \in Election
  BY DEF TypeVote
<1>2. c.peer \in Server /\ c.rterm \in Term
  BY <1>1 DEF VoteCall
<1>3. \A x \in Election : x.cand \in Server /\ x.term \in Term
  BY DEF Election
<1>4. QED
  BY <1>1, <1>2, <1>3

(* The record of an AppendEntries call in progress.                        *)
LEMMA AppendCallFacts ==
  ASSUME TypeAppend, NEW c \in calls
  PROVE  /\ c \in AppendCall /\ c.src \in Server /\ c.peer \in Server
         /\ c.term \in Term /\ c.rterm \in Term /\ c.lc \in Index
         /\ c.log \in Log /\ c.next \in Index /\ c.next <= Len(c.log)
<1>1. c \in AppendCall /\ c.next <= Len(c.log)
  BY DEF TypeAppend
<1>2. QED
  BY <1>1 DEF AppendCall

(* The actions of the goroutines of startElection and of RequestVote.      *)
LEMMA TypeVoteNext ==
  ASSUME TypeOK, NEW c \in voteCalls, VoteNext(c)
  PROVE  TypeOK'
<1> DEFINE e == elections[c.e]
           n == e.cand
<1> USE DEF TypeOK
<1>0. /\ c \in VoteCall /\ c.peer \in Server /\ c.rterm \in Term
      /\ e \in Election /\ n \in Server /\ e.term \in Term
  BY VoteCallFacts
<1> HIDE DEF e, n
<1>1. CASE SendVote(c)
  <2> DEFINE d == [c EXCEPT !.pc = "sent",
                            !.lastIndex = LastLogIndex(stateLog[n]),
                            !.lastTerm  = LastLogTerm(stateLog[n])]
  <2>1. stateLog[n] \in Log
    BY <1>0 DEF TypeLog
  <2>2. d \in VoteCall /\ d.e = c.e
    BY <1>0, <2>1, LogFacts DEF VoteCall
  <2>3. TypeVote'
    BY <1>1, <2>2, VoteStepType DEF SendVote, n, e
  <2>4. QED
    BY <1>1, <2>3, TypeUnchanged DEF SendVote
<1>2. CASE LoseVote(c)
  BY <1>2, VoteDoneType, TypeUnchanged DEF LoseVote
<1>3. CASE HandleVoteReply(c)
  <2> DEFINE w == [c EXCEPT !.pc = "withdraw", !.ok = FALSE]
             d == [c EXCEPT !.pc = "tally"]
  <2>1. w \in VoteCall /\ w.e = c.e
    BY <1>0 DEF VoteCall
  <2>2. d \in VoteCall /\ d.e = c.e
    BY <1>0 DEF VoteCall
  <2>3. VoteDone(c) \/ VoteStep(c, w) \/ VoteStep(c, d)
    BY <1>3 DEF HandleVoteReply
  <2>4. UNCHANGED <<starting, elections>>
    BY <1>3 DEF HandleVoteReply
  <2>5. TypeVote'
    BY <2>1, <2>2, <2>3, <2>4, VoteDoneType, VoteStepType
  <2>6. QED
    BY <1>3, <2>5, TypeUnchanged DEF HandleVoteReply
<1>11. CASE gotVote(c)
  <2> DEFINE votes == IF c.rterm = e.term /\ c.ok THEN e.votes + 1 ELSE e.votes
             d == [c EXCEPT !.pc = "count", !.votes = votes]
  <2>1. votes \in Nat
    <3>1. e.votes \in Nat
      BY <1>0 DEF Election
    <3>2. QED
      BY <3>1
  <2> HIDE DEF votes
  <2>2. d \in VoteCall /\ d.e = c.e
    BY <1>0, <2>1 DEF VoteCall
  <2>3. VoteStep(c, d) /\ UNCHANGED <<starting, elections>>
    BY <1>11 DEF gotVote, e, votes
  <2>4. TypeVote'
    BY <2>2, <2>3, VoteStepType
  <2>5. QED
    BY <1>11, <2>4, TypeUnchanged DEF gotVote
<1>4. CASE Withdraw(c)
  BY <1>0, <1>4, MakeFollowerType, VoteDoneType, TypeUnchanged DEF Withdraw, n, e
<1>5. CASE CountVote(c)
  <2> DEFINE w == [c EXCEPT !.pc = "win", !.ok = FALSE, !.rterm = 0, !.votes = 0]
             f == [cand |-> e.cand, term |-> e.term, votes |-> c.votes,
                   counted |-> IF c.rterm = e.term /\ c.ok
                               THEN e.counted \cup {c.peer} ELSE e.counted]
  <2>1. w \in VoteCall /\ w.e = c.e
    BY <1>0, ZeroFacts DEF VoteCall
  <2>2. f \in Election
    BY <1>0 DEF VoteCall, Election, n
  <2>3. elections' = [elections EXCEPT ![c.e] = f] /\ starting' = starting
    BY <1>5 DEF CountVote, e
  <2>4. elections' \in Seq(Election) /\ Len(elections') = Len(elections)
    BY <2>2, <2>3 DEF TypeVote
  <2>5. VoteDone(c) \/ VoteStep(c, w)
    BY <1>5 DEF CountVote
  <2>6. \A x \in voteCalls' : x \in VoteCall /\ x.e \in 1 .. Len(elections)
    BY <2>1, <2>5 DEF TypeVote, VoteDone, VoteStep
  <2>7. TypeVote'
    BY <2>3, <2>4, <2>6 DEF TypeVote
  <2>8. QED
    BY <1>5, <2>7, TypeUnchanged DEF CountVote
<1>6. CASE StartLeader(c)
  <2>1. TypeTerm' /\ TypeProc'
    BY <1>0, <1>6 DEF StartLeader, TypeTerm, TypeProc, procVars, n, e
  <2>2. QED
    BY <1>6, <2>1, VoteDoneType, TypeUnchanged DEF StartLeader
<1>7. CASE ReceiveVote(c)
  <2> DEFINE d == [c EXCEPT !.pc =
                    IF e.term > currentTerm[c.peer] THEN "demote" ELSE "readlog"]
  <2>1. d \in VoteCall /\ d.e = c.e
    BY <1>0 DEF VoteCall
  <2>2. VoteDone(c) \/ VoteStep(c, d)
    BY <1>7 DEF ReceiveVote, e
  <2>3. TypeVote'
    BY <1>7, <2>1, <2>2, VoteDoneType, VoteStepType DEF ReceiveVote
  <2>4. QED
    BY <1>7, <2>3, TypeUnchanged DEF ReceiveVote
<1>8. CASE VoteDemote(c)
  <2> DEFINE d == [c EXCEPT !.pc = "readlog"]
  <2>1. d \in VoteCall /\ d.e = c.e
    BY <1>0 DEF VoteCall
  <2>2. TypeVote' /\ TypeTerm'
    BY <1>0, <1>8, <2>1, VoteStepType, MakeFollowerType DEF VoteDemote, e
  <2>3. QED
    BY <1>8, <2>2, TypeUnchanged DEF VoteDemote
<1>9. CASE VoteReadLog(c)
  <2> DEFINE u == UpToDate(c.lastIndex, c.lastTerm, stateLog[c.peer])
             d == [c EXCEPT !.pc = "decide", !.lastIndex = 0, !.lastTerm = 0, !.ok = u]
  <2>1. u \in BOOLEAN
    BY DEF UpToDate
  <2> HIDE DEF u
  <2>2. d \in VoteCall /\ d.e = c.e
    BY <1>0, <2>1, ZeroFacts DEF VoteCall
  <2>3. TypeVote'
    BY <1>9, <2>2, VoteStepType DEF VoteReadLog, u
  <2>4. QED
    BY <1>9, <2>3, TypeUnchanged DEF VoteReadLog
<1>10. CASE DecideVote(c)
  <2> DEFINE g == currentTerm[c.peer] = elections[c.e].term \/ c.ok
             d == [c EXCEPT !.pc = "replied", !.ok = g, !.rterm = currentTerm[c.peer]]
  <2>1. g \in BOOLEAN
    BY <1>0 DEF VoteCall
  <2>2. currentTerm[c.peer] \in Term
    BY <1>0 DEF TypeTerm
  <2>3. TypeTerm'
    BY <1>0, <1>10 DEF DecideVote, TypeTerm, n, e
  <2> HIDE DEF g
  <2>4. d \in VoteCall /\ d.e = c.e
    BY <1>0, <2>1, <2>2 DEF VoteCall
  <2>5. TypeVote'
    BY <1>10, <2>4, VoteStepType DEF DecideVote, g
  <2>6. QED
    BY <1>10, <2>3, <2>5, TypeUnchanged DEF DecideVote
<1>12. QED
  BY <1>1, <1>2, <1>3, <1>4, <1>5, <1>6, <1>7, <1>8, <1>9, <1>10, <1>11 DEF VoteNext

(* An in-place append turns an unsent message into another of its length.  *)
LEMMA OverlayType ==
  ASSUME NEW c \in AppendCall, NEW new \in Log, NEW k
  PROVE  /\ Overlay(c, k, new) \in Log
         /\ Len(Overlay(c, k, new)) = Len(c.log)
         /\ \A i \in 1 .. Len(c.log) :
                Overlay(c, k, new)[i] = IF i > c.next /\ i > k /\ i <= Len(new)
                                        THEN new[i] ELSE c.log[i]
<1>1. c.log \in Log
  BY DEF AppendCall
<1>2. /\ Len(c.log) \in Nat /\ Len(c.log) <= MaxLog
      /\ \A i \in 1 .. Len(c.log) : c.log[i] \in Entry
      /\ \A i \in 1 .. Len(new) : new[i] \in Entry
      /\ Len(new) \in Nat
  BY <1>1, LogFacts
<1>3. \A i \in 1 .. Len(c.log) :
          (IF i > c.next /\ i > k /\ i <= Len(new) THEN new[i] ELSE c.log[i]) \in Entry
  BY <1>2
<1>4. Overlay(c, k, new) \in [1 .. Len(c.log) -> Entry]
  BY <1>3 DEF Overlay
<1>5. Overlay(c, k, new) \in Seq(Entry) /\ Len(Overlay(c, k, new)) = Len(c.log)
  BY <1>2, <1>4
<1>6. Overlay(c, k, new) \in Log
  BY <1>2, <1>5 DEF Log
<1>7. QED
  BY <1>5, <1>6 DEF Overlay

(* So do all the unsent messages an in-place append reaches.               *)
LEMMA OverwrittenType ==
  ASSUME TypeAppend, NEW n, NEW k, NEW new \in Log,
         NEW S \in SUBSET Exposed(n, k, new)
  PROVE  \A x \in Overwritten(S, k, new) : x \in AppendCall /\ x.next <= Len(x.log)
<1> SUFFICES ASSUME NEW c \in S
             PROVE  LET x == [c EXCEPT !.log = Overlay(c, k, new)]
                    IN  x \in AppendCall /\ x.next <= Len(x.log)
  BY DEF Overwritten
<1>1. c \in calls
  BY DEF Exposed
<1>2. c \in AppendCall /\ c.next <= Len(c.log)
  BY <1>1, AppendCallFacts
<1>3. Overlay(c, k, new) \in Log /\ Len(Overlay(c, k, new)) = Len(c.log)
  BY <1>2, OverlayType
<1> DEFINE x == [c EXCEPT !.log = Overlay(c, k, new)]
<1>4. x \in AppendCall /\ x.log = Overlay(c, k, new) /\ x.next = c.next
  BY <1>2, <1>3 DEF AppendCall
<1>5. QED
  BY <1>2, <1>3, <1>4

(* The handler's splice is a log: what it keeps of the old one is there.   *)
LEMMA SplicedType ==
  ASSUME NEW log \in Log, NEW c \in AppendCall, c.next <= Len(c.log),
         PrevMatches(log, c)
  PROVE  Spliced(log, c) \in Log
<1>1. c.log \in Log /\ c.next \in Nat
  BY DEF AppendCall, Index
<1>2. /\ Len(c.log) \in Nat /\ Len(c.log) <= MaxLog
      /\ \A i \in 1 .. Len(c.log) : c.log[i] \in Entry
      /\ Len(log) \in Nat
      /\ \A i \in 1 .. Len(log) : log[i] \in Entry
  BY <1>1, LogFacts
<1>3. c.next <= Len(log)
  BY <1>1, <1>2 DEF PrevMatches
<1>4. ASSUME NEW i \in 1 .. Len(c.log), i <= c.next \/ Known(log, c, i)
      PROVE  i \in 1 .. Len(log)
  <2>1. CASE i <= c.next
    BY <2>1, <1>1, <1>2, <1>3
  <2>2. CASE ~(i <= c.next)
    <3>1. i \in c.next + 1 .. i
      BY <2>2, <1>1
    <3>2. QED
      BY <1>4, <2>2, <3>1 DEF Known
  <2>3. QED
    BY <2>1, <2>2
<1>5. CASE Known(log, c, Len(c.log))
  BY <1>5 DEF Spliced
<1>6. CASE ~Known(log, c, Len(c.log))
  <2>1. Spliced(log, c) \in [1 .. Len(c.log) -> Entry]
    BY <1>2, <1>4, <1>6 DEF Spliced
  <2>2. Spliced(log, c) \in Seq(Entry) /\ Len(Spliced(log, c)) = Len(c.log)
    BY <1>2, <2>1
  <2>3. QED
    BY <1>2, <2>2 DEF Log
<1>7. QED
  BY <1>5, <1>6

(* Raising commitIndex to an index.                                        *)
LEMMA SetCommitType ==
  ASSUME TypeOK, NEW n \in Server, NEW i \in Index, SetCommit(n, i),
         UNCHANGED <<lastApplied, applied, heartbeat, closed>>
  PROVE  TypeCommit' /\ TypeProc'
  BY DEF TypeOK, TypeCommit, TypeProc, SetCommit

(* The actions of broadcastMsg and of AppendEntries.                       *)
LEMMA TypeAppendNext ==
  ASSUME TypeOK, NEW c \in calls, AppendNext(c)
  PROVE  TypeOK'
<1> USE DEF TypeOK
<1>0. /\ c \in AppendCall /\ c.src \in Server /\ c.peer \in Server
      /\ c.term \in Term /\ c.rterm \in Term /\ c.lc \in Index
      /\ c.log \in Log /\ c.next \in Index /\ c.next <= Len(c.log)
  BY AppendCallFacts
<1>1. CASE SendAppend(c)
  <2> DEFINE d == [c EXCEPT !.pc = "sent", !.lc = commitIndex[c.src]]
  <2>1. commitIndex[c.src] \in Index
    BY <1>0 DEF TypeCommit
  <2>2. d \in AppendCall /\ d.next = c.next /\ d.log = c.log
    BY <1>0, <2>1 DEF AppendCall
  <2>3. TypeAppend'
    BY <1>1, <2>2, AppendStepType DEF SendAppend
  <2>4. QED
    BY <1>1, <2>3, TypeUnchanged DEF SendAppend
<1>2. CASE LoseAppend(c)
  BY <1>2, AppendDoneType, TypeUnchanged DEF LoseAppend
<1>3. CASE AppendReplyNewTerm(c)
  BY <1>0, <1>3, MakeFollowerType, AppendDoneType, TypeUnchanged DEF AppendReplyNewTerm
<1>4. CASE AppendReplySuccess(c)
  <2> DEFINE n == c.src
             match == [matchIndex[n] EXCEPT ![c.peer] = Dec(Len(c.log))]
             C == Committable(n, match)
  <2>1. Len(c.log) \in Index /\ Dec(Len(c.log)) \in Index
    BY <1>0, LogFacts DEF LastLogIndex
  <2>2. match \in [Server -> Index]
    BY <1>0, <2>1 DEF TypeLeader
  <2>3. \A i \in C : i \in Index
    <3>1. commitIndex[n] \in Index
      BY <1>0 DEF TypeCommit
    <3>2. Inc(commitIndex[n]) \in Nat
      BY <3>1 DEF Inc, Index
    <3>3. QED
      BY <3>2, RaftAssumption DEF Committable, Index
  <2> HIDE DEF match
  <2>4. TypeLeader'
    BY <1>0, <1>4, <2>1, <2>2 DEF AppendReplySuccess, NextAfter, TypeLeader, match
  <2> HIDE DEF C
  <2>5. /\ UNCHANGED <<lastApplied, applied, heartbeat, closed>>
        /\ \/ UNCHANGED <<commitIndex, fault>>
           \/ \E i \in C : SetCommit(n, i)
    BY <1>4 DEF AppendReplySuccess, NextAfter, C, match
  <2>6. TypeCommit' /\ TypeProc'
    <3>1. CASE UNCHANGED <<commitIndex, fault>>
      BY <3>1, <2>5, TypeUnchanged DEF commitVars, procVars
    <3>2. CASE \E i \in C : SetCommit(n, i)
      BY <3>2, <1>0, <2>3, <2>5, SetCommitType
    <3>3. QED
      BY <2>5, <3>1, <3>2
  <2>7. QED
    BY <1>4, <2>4, <2>6, AppendDoneType, TypeUnchanged DEF AppendReplySuccess
<1>5. CASE AppendReplyReject(c)
  <2>1. Dec(c.next) \in Index
    BY <1>0, RaftAssumption DEF Dec, Index
  <2>2. TypeLeader'
    BY <1>0, <1>5, <2>1 DEF AppendReplyReject, TypeLeader
  <2>3. QED
    BY <1>5, <2>2, AppendDoneType, TypeUnchanged DEF AppendReplyReject
<1>6. CASE AppendReplyIgnored(c)
  BY <1>6, AppendDoneType, TypeUnchanged DEF AppendReplyIgnored
<1>7. CASE ReceiveAppend(c)
  <2> DEFINE d == [c EXCEPT !.pc =
                    IF c.term > currentTerm[c.peer] THEN "demote" ELSE "recheck"]
  <2>1. d \in AppendCall /\ d.next = c.next /\ d.log = c.log
    BY <1>0 DEF AppendCall
  <2>2. AppendDone(c) \/ AppendStep(c, d)
    BY <1>7 DEF ReceiveAppend
  <2>3. TypeAppend'
    BY <1>7, <2>1, <2>2, AppendDoneType, AppendStepType DEF ReceiveAppend
  <2>4. QED
    BY <1>7, <2>3, TypeUnchanged DEF ReceiveAppend
<1>8. CASE AppendDemote(c)
  <2> DEFINE d == [c EXCEPT !.pc = "recheck"]
  <2>1. d \in AppendCall /\ d.next = c.next /\ d.log = c.log
    BY <1>0 DEF AppendCall
  <2>2. TypeAppend' /\ TypeTerm'
    BY <1>0, <1>8, <2>1, AppendStepType, MakeFollowerType DEF AppendDemote
  <2>3. QED
    BY <1>8, <2>2, TypeUnchanged DEF AppendDemote
<1>9. CASE AppendRecheck(c)
  <2> DEFINE r == [c EXCEPT !.pc = "replied", !.rterm = currentTerm[c.peer]]
             d == [c EXCEPT !.pc = IF state[c.peer] = "Follower"
                                   THEN "append" ELSE "stepdown"]
  <2>1. currentTerm[c.peer] \in Term
    BY <1>0 DEF TypeTerm
  <2>2. /\ r \in AppendCall /\ r.next = c.next /\ r.log = c.log
        /\ d \in AppendCall /\ d.next = c.next /\ d.log = c.log
    BY <1>0, <2>1 DEF AppendCall
  <2>3. AppendStep(c, r) \/ AppendStep(c, d)
    BY <1>9 DEF AppendRecheck
  <2>4. TypeAppend'
    BY <1>9, <2>2, <2>3, AppendStepType DEF AppendRecheck
  <2>5. QED
    BY <1>9, <2>4, TypeUnchanged DEF AppendRecheck
<1>10. CASE AppendStepDown(c)
  <2> DEFINE d == [c EXCEPT !.pc = "append"]
  <2>1. d \in AppendCall /\ d.next = c.next /\ d.log = c.log
    BY <1>0 DEF AppendCall
  <2>2. TypeAppend' /\ TypeTerm'
    BY <1>0, <1>10, <2>1, AppendStepType, MakeFollowerType DEF AppendStepDown
  <2>3. QED
    BY <1>10, <2>2, TypeUnchanged DEF AppendStepDown
<1>11. CASE AppendAccept(c)
  <2> DEFINE n   == c.peer
             log == stateLog[n]
             new == Spliced(log, c)
             k   == Kept(log, c)
             d   == [c EXCEPT !.pc = "replied", !.ok = TRUE, !.rterm = c.term, !.lc = 0]
  <2>1. log \in Log /\ new \in Log
    BY <1>0, <1>11, SplicedType DEF AppendAccept, TypeLog
  <2>2. d \in AppendCall /\ d.next = c.next /\ d.log = c.log
    BY <1>0, ZeroFacts DEF AppendCall
  <2>3. PICK S \in SUBSET (IF new = log THEN {} ELSE Exposed(n, k, new)) :
             /\ calls' = (calls \ (S \cup {c})) \cup Overwritten(S, k, new) \cup {d}
             /\ torn'  = (torn \/ S # {})
    BY <1>11 DEF AppendAccept
  <2>4. TypeLog'
    <3>1. torn' \in BOOLEAN
      BY <2>3
    <3>2. SetLog(n, new) /\ created' = created /\ n \in Server
      BY <1>0, <1>11 DEF AppendAccept
    <3> HIDE DEF n, new
    <3>3. stateLog' \in [Server -> Log] /\ written' \in [Server -> 0 .. MaxLog]
      BY <2>1, <3>2, SetLogType
    <3>4. QED
      BY <3>1, <3>2, <3>3 DEF TypeLog
  <2>5. TypeAppend'
    <3>1. S \in SUBSET Exposed(n, k, new)
      BY <2>3
    <3>2. \A x \in Overwritten(S, k, new) : x \in AppendCall /\ x.next <= Len(x.log)
      BY <2>1, <3>1, OverwrittenType
    <3> HIDE DEF d, new, k
    <3>3. QED
      BY <1>0, <1>11, <2>2, <2>3, <3>2 DEF AppendAccept, TypeAppend
  <2>6. TypeCommit' /\ TypeProc'
    <3>1. FollowerCommit(c.lc, new) \in Index
      BY <1>0, <2>1, LogFacts DEF FollowerCommit
    <3>2. UNCHANGED <<lastApplied, applied, heartbeat, closed>>
      BY <1>11 DEF AppendAccept
    <3>3. CASE RaisesCommit(c.lc, commitIndex[n])
      BY <1>0, <1>11, <3>1, <3>2, <3>3, SetCommitType DEF AppendAccept
    <3>4. CASE ~RaisesCommit(c.lc, commitIndex[n])
      BY <1>11, <3>2, <3>4, TypeUnchanged DEF AppendAccept, commitVars, procVars
    <3>5. QED
      BY <3>3, <3>4
  <2>7. QED
    BY <1>11, <2>4, <2>5, <2>6, TypeUnchanged DEF AppendAccept
<1>12. CASE AppendRefuse(c)
  <2> DEFINE d == [c EXCEPT !.pc = "replied", !.rterm = c.term, !.lc = 0]
  <2>1. d \in AppendCall /\ d.next = c.next /\ d.log = c.log
    BY <1>0, ZeroFacts DEF AppendCall
  <2>2. TypeAppend'
    BY <1>12, <2>1, AppendStepType DEF AppendRefuse
  <2>3. QED
    BY <1>12, <2>2, TypeUnchanged DEF AppendRefuse
<1>13. QED
  BY <1>1, <1>2, <1>3, <1>4, <1>5, <1>6, <1>7, <1>8, <1>9, <1>10, <1>11, <1>12
  DEF AppendNext

(* A log grows by one entry.                                               *)
LEMMA AppendEntryType ==
  ASSUME NEW log \in Log, Len(log) < MaxLog, NEW x \in Entry
  PROVE  /\ Append(log, x) \in Log
         /\ Len(Append(log, x)) = Len(log) + 1
         /\ \A i \in 1 .. Len(log) : Append(log, x)[i] = log[i]
         /\ Append(log, x)[Len(log) + 1] = x
<1>1. log \in Seq(Entry) /\ Len(log) \in Nat
  BY LogFacts
<1>2. Append(log, x) \in Seq(Entry) /\ Len(Append(log, x)) = Len(log) + 1
  BY <1>1
<1>3. QED
  BY <1>1, <1>2, RaftAssumption DEF Log

(* The actions of one server: timers, heartbeats, Submit, commitChannel.   *)
LEMMA TypeServerNext ==
  ASSUME TypeOK, NEW n \in Server, ServerNext(n)
  PROVE  TypeOK'
<1> USE DEF TypeOK
<1>1. CASE ElectionTimeout(n)
  <2> DEFINE k == Cardinality(starting) + Len(elections) + 1
             s == [cand |-> n, term |-> currentTerm[n], id |-> k]
  <2>3. k \in Nat
    BY FS_CardinalityType DEF TypeVote
  <2> HIDE DEF k
  <2>4. s \in [cand : Server, term : Term, id : Nat]
    BY <2>3 DEF TypeTerm
  <2>5. starting' = starting \cup {s} /\ UNCHANGED <<elections, voteCalls>>
    BY <1>1 DEF ElectionTimeout, k
  <2> HIDE DEF s
  <2>6. IsFiniteSet(starting')
    BY <2>5, FS_AddElement DEF TypeVote
  <2>1. TypeVote'
    BY <2>4, <2>5, <2>6 DEF TypeVote
  <2>2. QED
    BY <1>1, <2>1, TypeUnchanged DEF ElectionTimeout
<1>2. CASE groupBroadcast(n)
  <2>1. TypeProc'
    BY <1>2 DEF groupBroadcast, TypeProc, procVars
  <2>2. TypeAppend'
    BY <1>2 DEF groupBroadcast, TypeAppend, TypeTerm, Peers
  <2>3. QED
    BY <1>2, <2>1, <2>2, TypeUnchanged DEF groupBroadcast
<1>3. CASE HeartbeatTick(n)
  <2>1. TypeProc'
    BY <1>3 DEF HeartbeatTick, TypeProc, procVars
  <2>2. QED
    BY <1>3, <2>1, TypeUnchanged DEF HeartbeatTick
<1>4. CASE ApplyCommits(n)
  <2> DEFINE lo == Inc(lastApplied[n])
             hi == Inc(commitIndex[n])
             Pushed(k) == [i \in 1 .. k |-> IF lo + i <= Len(stateLog[n])
                                            THEN stateLog[n][lo + i] ELSE Stale]
             T == Entry \cup {Stale}
  <2>1. lo \in Nat /\ hi \in Nat
    BY RaftAssumption DEF TypeCommit, Inc, Index
  <2>2. \A i \in 1 .. Len(stateLog[n]) : stateLog[n][i] \in T
    BY LogFacts DEF TypeLog
  <2>3. Len(stateLog[n]) \in Nat
    BY LogFacts DEF TypeLog
  <2>4. Stale \in T
    OBVIOUS
  <2> HIDE DEF lo, hi, T
  <2>5. ASSUME NEW k \in Nat PROVE Pushed(k) \in Seq(T)
    <3>1. Pushed(k) \in [1 .. k -> T]
      BY <2>1, <2>2, <2>3, <2>4
    <3>2. QED
      BY <3>1
  <2>6. applied[n] \in Seq(T)
    BY DEF TypeCommit, T
  <2>7. TypeCommit'
    <3>1. \E k \in Nat : applied' = [applied EXCEPT ![n] = @ \o Pushed(k)]
      <4>1. lo <= hi => hi - lo \in Nat
        BY <2>1
      <4>2. 0 .. written[n] \subseteq Nat
        BY DEF TypeLog
      <4>3. \/ lo <= hi /\ applied' = [applied EXCEPT ![n] = @ \o Pushed(hi - lo)]
            \/ \E k \in 0 .. written[n] : applied' = [applied EXCEPT ![n] = @ \o Pushed(k)]
        BY <1>4 DEF ApplyCommits, FirstUnapplied, lo, hi
      <4> HIDE DEF Pushed
      <4>4. QED
        BY <4>1, <4>2, <4>3
    <3>2. applied' \in [Server -> Seq(T)]
      <4>1. \A k \in Nat : Pushed(k) \in Seq(T)
        BY <2>5
      <4> HIDE DEF Pushed
      <4>2. \A k \in Nat : applied[n] \o Pushed(k) \in Seq(T)
        BY <2>6, <4>1
      <4>3. QED
        BY <3>1, <4>2 DEF TypeCommit, T
    <3>3. commitIndex' = commitIndex /\ lastApplied' \in [Server -> Index]
      BY <1>4 DEF ApplyCommits, TypeCommit
    <3>4. QED
      BY <3>2, <3>3 DEF TypeCommit, T
  <2>8. TypeProc'
    BY <1>4 DEF ApplyCommits, TypeProc
  <2>9. QED
    BY <1>4, <2>7, <2>8, TypeUnchanged DEF ApplyCommits
<1>5. CASE Shutdown(n)
  <2>1. TypeTerm' /\ TypeProc'
    BY <1>5 DEF Shutdown, TypeTerm, TypeProc
  <2>2. QED
    BY <1>5, <2>1, TypeUnchanged DEF Shutdown
<1>6. ASSUME NEW v \in Value, Submit(n, v) PROVE TypeOK'
  <2> DEFINE old == stateLog[n]
             x   == [term |-> currentTerm[n], value |-> v]
             new == Append(old, x)
  <2>1. old \in Log /\ x \in Entry
    BY DEF TypeLog, TypeTerm, Entry
  <2>2. new \in Log
    BY <1>6, <2>1, AppendEntryType DEF Submit
  <2>3. PICK S \in SUBSET Exposed(n, Len(old), new) :
             /\ calls' = (calls \ S) \cup Overwritten(S, Len(old), new)
             /\ torn'  = (torn \/ S # {})
    BY <1>6 DEF Submit
  <2>4. SetLog(n, new) /\ created' = created \cup {new}
    BY <1>6 DEF Submit
  <2> HIDE DEF new
  <2>5. TypeLog'
    <3>1. torn' \in BOOLEAN
      BY <2>3
    <3>2. stateLog' \in [Server -> Log] /\ written' \in [Server -> 0 .. MaxLog]
      BY <2>2, <2>4, SetLogType
    <3>3. QED
      BY <2>2, <2>4, <3>1, <3>2 DEF TypeLog
  <2>6. TypeAppend'
    <3>1. \A y \in Overwritten(S, Len(old), new) : y \in AppendCall /\ y.next <= Len(y.log)
      BY <2>2, OverwrittenType
    <3>2. pending' = pending
      BY <1>6 DEF Submit
    <3>3. QED
      BY <2>3, <3>1, <3>2 DEF TypeAppend
  <2>7. QED
    BY <1>6, <2>5, <2>6, TypeUnchanged DEF Submit
<1>7. QED
  BY <1>1, <1>2, <1>3, <1>4, <1>5, <1>6 DEF ServerNext

(* The locked part of startElection.                                       *)
LEMMA TypeBecomeCandidate ==
  ASSUME TypeOK, NEW s \in starting, BecomeCandidate(s)
  PROVE  TypeOK'
<1> USE DEF TypeOK
<1> DEFINE n  == s.cand
           el == [cand |-> n, term |-> s.term, votes |-> 1, counted |-> {}]
           new == {[e |-> Len(elections) + 1, peer |-> p, pc |-> "spawned",
                    lastIndex |-> 0, lastTerm |-> 0, ok |-> FALSE, rterm |-> 0,
                    votes |-> 0] : p \in Peers(n)}
<1>1. n \in Server /\ s.term \in Term
  BY DEF TypeVote
<1>2. el \in Election
  BY <1>1 DEF Election
<1>3. Len(elections) \in Nat
  BY DEF TypeVote
<1>4. \A c \in new : c \in VoteCall /\ c.e = Len(elections) + 1
  <2>1. Len(elections) + 1 \in Nat
    BY <1>3
  <2> DEFINE m == Len(elections) + 1
  <2> HIDE DEF m
  <2>2. \A p \in Server :
          [e |-> m, peer |-> p, pc |-> "spawned", lastIndex |-> 0, lastTerm |-> 0,
           ok |-> FALSE, rterm |-> 0, votes |-> 0] \in VoteCall
    BY <2>1, ZeroFacts DEF VoteCall, m
  <2>3. QED
    BY <2>2 DEF Peers, m
<1>5. /\ starting' = starting \ {s}
      /\ elections' = Append(elections, el)
      /\ voteCalls' = voteCalls \cup new
  BY DEF BecomeCandidate, NewElection
<1> HIDE DEF el, new
<1>6. elections' \in Seq(Election) /\ Len(elections') = Len(elections) + 1
  BY <1>2, <1>5 DEF TypeVote
<1>10. IsFiniteSet(starting')
  BY <1>5, FS_RemoveElement DEF TypeVote
<1>7. TypeVote'
  BY <1>3, <1>4, <1>5, <1>6, <1>10 DEF TypeVote
<1>8. TypeTerm'
  <2>1. currentTerm[n] + 1 \in Term
    BY <1>1, RaftAssumption DEF BecomeCandidate, TypeTerm, Term
  <2>2. QED
    BY <1>1, <2>1 DEF BecomeCandidate, TypeTerm
<1>9. QED
  BY <1>7, <1>8, TypeUnchanged DEF BecomeCandidate

(* The locked part of broadcastMsg.                                        *)
LEMMA TypeBuildAppend ==
  ASSUME TypeOK, NEW g \in pending, BuildAppend(g)
  PROVE  TypeOK'
<1> USE DEF TypeOK
<1>1. g.src \in Server /\ g.peer \in Server /\ g.term \in Term
  BY DEF TypeAppend
<1>2. nextIndex[g.src][g.peer] \in Index /\ stateLog[g.src] \in Log
  BY <1>1 DEF TypeLeader, TypeLog
<1>3. TypeProc'
  BY <1>1 DEF BuildAppend, TypeProc
<1>4. TypeAppend'
  <2>1. CASE calls' = calls
    BY <2>1 DEF BuildAppend, TypeAppend
  <2>2. CASE nextIndex[g.src][g.peer] <= Len(stateLog[g.src])
             /\ \E id \in Calls :
                  calls' = calls \cup
                     {[id |-> id, src |-> g.src, peer |-> g.peer, term |-> g.term,
                       next |-> nextIndex[g.src][g.peer], log |-> stateLog[g.src],
                       lc |-> 0, pc |-> "built", ok |-> FALSE, rterm |-> 0]}
    <3>1. PICK id \in Calls :
                  calls' = calls \cup
                     {[id |-> id, src |-> g.src, peer |-> g.peer, term |-> g.term,
                       next |-> nextIndex[g.src][g.peer], log |-> stateLog[g.src],
                       lc |-> 0, pc |-> "built", ok |-> FALSE, rterm |-> 0]}
      BY <2>2
    <3> DEFINE x == [id |-> id, src |-> g.src, peer |-> g.peer, term |-> g.term,
                     next |-> nextIndex[g.src][g.peer], log |-> stateLog[g.src],
                     lc |-> 0, pc |-> "built", ok |-> FALSE, rterm |-> 0]
    <3>2. x \in AppendCall /\ x.next <= Len(x.log)
      BY <1>1, <1>2, <2>2, ZeroFacts DEF AppendCall
    <3>3. pending' \subseteq pending /\ calls' = calls \cup {x}
      BY <3>1 DEF BuildAppend
    <3> HIDE DEF x
    <3>4. QED
      BY <3>2, <3>3 DEF TypeAppend
  <2>3. QED
    BY <2>1, <2>2 DEF BuildAppend
<1>5. QED
  BY <1>3, <1>4, TypeUnchanged DEF BuildAppend

(* Every variable keeps its type, for every cluster and every bound.       *)
THEOREM TypeCorrect == Spec => []TypeOK
<1>1. TypeOK /\ [Next]_vars => TypeOK'
  <2> SUFFICES ASSUME TypeOK, [Next]_vars PROVE TypeOK'
    OBVIOUS
  <2>1. CASE UNCHANGED vars
    BY <2>1, TypeUnchanged DEF TypeOK, vars
  <2>2. QED
    BY <2>1, TypeServerNext, TypeBecomeCandidate, TypeVoteNext, TypeBuildAppend,
       TypeAppendNext DEF Next
<1>2. QED
  BY TypeInit, <1>1, PTL DEF Spec

-----------------------------------------------------------------------------
(* The count of an election.  votesReceived is at most the granted votes   *)
(* stored so far plus the candidate's own; a reply on its way to being     *)
(* stored is worth at most one more, because each peer is asked once.      *)
Worth(c) ==
    LET el == elections[c.e] IN
    IF c.rterm = el.term /\ c.ok THEN el.counted \cup {c.peer} ELSE el.counted

VotesBacked ==
    \A e \in 1 .. Len(elections) :
        elections[e].votes <= Cardinality(elections[e].counted) + 1
AskedOnce ==
    \A c, d \in voteCalls : c.e = d.e /\ c.peer = d.peer => c = d
NotCountedYet ==
    \A c \in voteCalls : c.pc # "win" => c.peer \notin elections[c.e].counted
CountBacked ==
    \A c \in voteCalls : c.pc = "count" => c.votes <= Cardinality(Worth(c)) + 1
WinBacked ==
    \A c \in voteCalls : c.pc = "win" =>
        Majority(Cardinality(elections[c.e].counted) + 1)

ElectionInv ==
    /\ VotesBacked /\ AskedOnce /\ NotCountedYet
    /\ CountBacked /\ WinBacked /\ LeaderWonElection
(* No server becomes leader in this step.                                  *)
NoNewLeader == \A n \in Server : state'[n] = "Leader" => state[n] = "Leader"

(* The peers counted in an election form a finite set.                     *)
LEMMA CountedFacts ==
  ASSUME TypeVote, NEW e \in 1 .. Len(elections)
  PROVE  /\ elections[e] \in Election
         /\ elections[e].votes \in Nat
         /\ IsFiniteSet(elections[e].counted)
         /\ Cardinality(elections[e].counted) \in Nat
<1>1. elections[e] \in Election
  BY DEF TypeVote
<1>2. elections[e].counted \subseteq Server /\ elections[e].votes \in Nat
  BY <1>1 DEF Election
<1>3. QED
  BY <1>1, <1>2, RaftAssumption, FS_Subset, FS_CardinalityType

(* More votes than a majority are a majority.                              *)
LEMMA MajorityMonotone ==
  ASSUME NEW a \in Nat, NEW b \in Nat, a <= b, Majority(a)
  PROVE  Majority(b)
<1>1. Cardinality(Server) \in Nat
  BY RaftAssumption, FS_CardinalityType
<1>2. QED
  BY <1>1 DEF Majority

(* Goroutines that end, and steps that are not about votes.                *)
LEMMA ElectionKept ==
  ASSUME ElectionInv, NoNewLeader, voteCalls' \subseteq voteCalls, elections' = elections
  PROVE  ElectionInv'
  BY DEF ElectionInv, VotesBacked, AskedOnce, NotCountedYet, CountBacked, Worth,
         WinBacked, LeaderWonElection, NoNewLeader

(* A goroutine on its way to the peer or back.                             *)
LEMMA ElectionMoved ==
  ASSUME ElectionInv, NoNewLeader, NEW c \in voteCalls, NEW d \in VoteCall,
         d.e = c.e, d.peer = c.peer, c.pc # "win", d.pc \notin {"count", "win"},
         VoteStep(c, d), elections' = elections
  PROVE  ElectionInv'
<1>1. \A x \in voteCalls' : x = d \/ x \in voteCalls
  BY DEF VoteStep
<1>2. VotesBacked' /\ LeaderWonElection'
  BY DEF ElectionInv, VotesBacked, LeaderWonElection, NoNewLeader
<1>3. AskedOnce'
  BY DEF ElectionInv, AskedOnce, VoteStep
<1>4. NotCountedYet' /\ WinBacked'
  BY <1>1 DEF ElectionInv, NotCountedYet, WinBacked
<1>5. CountBacked'
  BY <1>1 DEF ElectionInv, CountBacked, Worth
<1>6. QED
  BY <1>2, <1>3, <1>4, <1>5 DEF ElectionInv

(* gotVote: the value it returns is backed by the peer's own vote.         *)
LEMMA ElectionTally ==
  ASSUME TypeOK, ElectionInv, NoNewLeader, NEW c \in voteCalls, c.pc = "tally",
         NEW d \in VoteCall, d.e = c.e, d.peer = c.peer, d.rterm = c.rterm, d.ok = c.ok,
         d.pc = "count",
         d.votes = IF c.rterm = elections[c.e].term /\ c.ok
                   THEN elections[c.e].votes + 1 ELSE elections[c.e].votes,
         VoteStep(c, d), elections' = elections
  PROVE  ElectionInv'
<1> DEFINE el == elections[c.e]
<1>1. \A x \in voteCalls' : x = d \/ x \in voteCalls
  BY DEF VoteStep
<1>2. VotesBacked' /\ LeaderWonElection'
  BY DEF ElectionInv, VotesBacked, LeaderWonElection, NoNewLeader
<1>3. AskedOnce'
  BY DEF ElectionInv, AskedOnce, VoteStep
<1>4. NotCountedYet' /\ WinBacked'
  BY <1>1 DEF ElectionInv, NotCountedYet, WinBacked
<1>5. c.e \in 1 .. Len(elections)
  BY DEF TypeOK, TypeVote
<1>6. /\ el.votes \in Nat /\ IsFiniteSet(el.counted) /\ Cardinality(el.counted) \in Nat
      /\ el.votes <= Cardinality(el.counted) + 1
      /\ c.peer \notin el.counted
  BY <1>5, CountedFacts DEF TypeOK, ElectionInv, VotesBacked, NotCountedYet
<1>7. Cardinality(el.counted \cup {c.peer}) = Cardinality(el.counted) + 1
  BY <1>6, FS_AddElement
<1>8. d.votes <= Cardinality(Worth(d)) + 1
  <2>1. CASE c.rterm = el.term /\ c.ok
    <3>1. Worth(d) = el.counted \cup {c.peer} /\ d.votes = el.votes + 1
      BY <2>1 DEF Worth
    <3> HIDE DEF el
    <3>2. QED
      BY <3>1, <1>6, <1>7
  <2>2. CASE ~(c.rterm = el.term /\ c.ok)
    <3>1. Worth(d) = el.counted /\ d.votes = el.votes
      BY <2>2 DEF Worth
    <3>2. QED
      BY <3>1, <1>6
  <2>3. QED
    BY <2>1, <2>2
<1>9. CountBacked'
  <2> SUFFICES ASSUME NEW x \in voteCalls', x.pc = "count"
               PROVE  x.votes <= Cardinality(Worth(x)') + 1
    BY DEF CountBacked
  <2>1. Worth(x)' = Worth(x)
    BY DEF Worth
  <2>2. CASE x = d
    BY <2>1, <2>2, <1>8
  <2>3. CASE x \in voteCalls
    BY <2>1, <2>3 DEF ElectionInv, CountBacked
  <2>4. QED
    BY <1>1, <2>2, <2>3
<1>10. QED
  BY <1>2, <1>3, <1>4, <1>9 DEF ElectionInv

(* votesReceived = updateVotes: other goroutines may have stored since the *)
(* read, which only adds to the votes that back the value.                 *)
LEMMA ElectionCount ==
  ASSUME TypeOK, ElectionInv, NEW c \in voteCalls, CountVote(c)
  PROVE  ElectionInv'
<1> DEFINE el == elections[c.e]
           f == [cand |-> el.cand, term |-> el.term, votes |-> c.votes,
                 counted |-> Worth(c)]
           w == [c EXCEPT !.pc = "win", !.ok = FALSE, !.rterm = 0, !.votes = 0]
<1>1. /\ c.pc = "count" /\ c \in VoteCall /\ c.e \in 1 .. Len(elections)
      /\ elections \in Seq(Election)
  BY DEF TypeOK, TypeVote, CountVote
<1>2. elections' = [elections EXCEPT ![c.e] = f] /\ state' = state
  BY DEF CountVote, Worth, termVars
<1>3. w.e = c.e /\ w.peer = c.peer /\ w.pc = "win" /\ c.votes \in Nat
  BY <1>1 DEF VoteCall
<1>4. \/ VoteDone(c)
      \/ VoteStep(c, w) /\ Majority(c.votes)
  BY DEF CountVote
<1>5. /\ IsFiniteSet(el.counted) /\ Cardinality(el.counted) \in Nat
      /\ el.counted \subseteq Worth(c) /\ Worth(c) \subseteq el.counted \cup {c.peer}
  BY <1>1, CountedFacts DEF TypeOK, Worth
<1>6. /\ IsFiniteSet(Worth(c)) /\ Cardinality(Worth(c)) \in Nat
      /\ Cardinality(el.counted) <= Cardinality(Worth(c))
  <2>1. IsFiniteSet(el.counted \cup {c.peer})
    BY <1>5, FS_AddElement
  <2>2. IsFiniteSet(Worth(c))
    BY <1>5, <2>1, FS_Subset
  <2>3. QED
    BY <1>5, <2>2, FS_Subset, FS_CardinalityType
<1>7. /\ Len(elections') = Len(elections)
      /\ \A e \in 1 .. Len(elections) :
             elections'[e] = IF e = c.e THEN f ELSE elections[e]
  BY <1>1, <1>2
<1>8. c.votes <= Cardinality(Worth(c)) + 1
  BY <1>1 DEF ElectionInv, CountBacked
<1>9. \A x \in voteCalls' : (x = w /\ Majority(c.votes)) \/ x \in voteCalls \ {c}
  BY <1>4 DEF VoteDone, VoteStep
<1>10. \A x \in voteCalls : x.e \in 1 .. Len(elections)
  BY DEF TypeOK, TypeVote
<1> HIDE DEF w
<1>11. VotesBacked'
  BY <1>7, <1>8 DEF ElectionInv, VotesBacked
<1>12. AskedOnce'
  BY <1>1, <1>3, <1>9 DEF ElectionInv, AskedOnce
<1>13. NotCountedYet'
  <2> SUFFICES ASSUME NEW x \in voteCalls', x.pc # "win"
               PROVE  x.peer \notin elections'[x.e].counted
    BY DEF NotCountedYet
  <2>1. x \in voteCalls /\ x # c
    BY <1>3, <1>9
  <2>2. x.peer \notin elections[x.e].counted
    BY <2>1 DEF ElectionInv, NotCountedYet
  <2>3. CASE x.e = c.e
    <3>1. x.peer # c.peer
      BY <2>1, <2>3 DEF ElectionInv, AskedOnce
    <3>2. QED
      BY <1>5, <1>7, <1>10, <2>1, <2>2, <2>3, <3>1
  <2>4. CASE x.e # c.e
    BY <1>7, <1>10, <2>1, <2>2, <2>4
  <2>5. QED
    BY <2>3, <2>4
<1>14. \A x \in voteCalls \ {c} :
          /\ elections'[x.e].term = elections[x.e].term
          /\ elections[x.e].counted \subseteq elections'[x.e].counted
          /\ IsFiniteSet(elections'[x.e].counted)
          /\ Cardinality(elections[x.e].counted) \in Nat
          /\ Cardinality(elections'[x.e].counted) \in Nat
          /\ Cardinality(elections[x.e].counted) <= Cardinality(elections'[x.e].counted)
  <2> TAKE x \in voteCalls \ {c}
  <2>1. IsFiniteSet(elections[x.e].counted) /\ Cardinality(elections[x.e].counted) \in Nat
    BY <1>10, CountedFacts DEF TypeOK
  <2>2. CASE x.e = c.e
    BY <1>5, <1>6, <1>7, <1>10, <2>2
  <2>3. CASE x.e # c.e
    BY <1>7, <1>10, <2>1, <2>3
  <2>4. QED
    BY <2>2, <2>3
<1>15. CountBacked'
  <2> SUFFICES ASSUME NEW x \in voteCalls', x.pc = "count"
               PROVE  x.votes <= Cardinality(Worth(x)') + 1
    BY DEF CountBacked
  <2>1. x \in voteCalls \ {c} /\ x \in VoteCall
    BY <1>3, <1>9 DEF TypeOK, TypeVote
  <2>2. x.votes <= Cardinality(Worth(x)) + 1 /\ x.votes \in Nat
    BY <2>1 DEF ElectionInv, CountBacked, VoteCall
  <2>3. Worth(x) \subseteq Worth(x)' /\ IsFiniteSet(Worth(x)')
    <3>1. IsFiniteSet(elections'[x.e].counted \cup {x.peer})
      BY <1>14, <2>1, FS_AddElement
    <3>2. QED
      BY <1>14, <2>1, <3>1 DEF Worth
  <2>4. /\ Cardinality(Worth(x)) <= Cardinality(Worth(x)')
        /\ Cardinality(Worth(x)) \in Nat /\ Cardinality(Worth(x)') \in Nat
    <3>1. IsFiniteSet(Worth(x))
      BY <2>3, FS_Subset
    <3>2. QED
      BY <2>3, <3>1, FS_Subset, FS_CardinalityType
  <2>5. QED
    BY <2>2, <2>4
<1>16. WinBacked'
  <2> SUFFICES ASSUME NEW x \in voteCalls', x.pc = "win"
               PROVE  Majority(Cardinality(elections'[x.e].counted) + 1)
    BY DEF WinBacked
  <2>1. CASE x = w /\ Majority(c.votes)
    <3>1. elections'[x.e].counted = Worth(c)
      BY <1>1, <1>3, <1>7, <2>1
    <3>2. QED
      BY <1>3, <1>6, <1>8, <2>1, <3>1, MajorityMonotone
  <2>2. CASE x \in voteCalls \ {c}
    <3>1. Majority(Cardinality(elections[x.e].counted) + 1)
      BY <2>2 DEF ElectionInv, WinBacked
    <3>2. QED
      BY <1>14, <2>2, <3>1, MajorityMonotone
  <2>3. QED
    BY <1>9, <2>1, <2>2
<1>17. LeaderWonElection'
  <2> SUFFICES ASSUME NEW n \in Server, state'[n] = "Leader"
               PROVE  \E e \in DOMAIN elections' :
                          /\ elections'[e].cand = n
                          /\ Majority(Cardinality(elections'[e].counted) + 1)
    BY DEF LeaderWonElection
  <2>1. PICK e \in DOMAIN elections :
             /\ elections[e].cand = n
             /\ Majority(Cardinality(elections[e].counted) + 1)
    BY <1>2 DEF ElectionInv, LeaderWonElection
  <2>2. e \in 1 .. Len(elections) /\ e \in DOMAIN elections'
    BY <1>1, <1>2, <2>1
  <2>3. CASE e = c.e
    <3>1. elections'[e].cand = n /\ elections'[e].counted = Worth(c)
      BY <1>7, <2>1, <2>2, <2>3
    <3>2. Majority(Cardinality(Worth(c)) + 1)
      BY <1>5, <1>6, <2>1, <2>3, MajorityMonotone
    <3>3. QED
      BY <2>2, <3>1, <3>2
  <2>4. CASE e # c.e
    BY <1>7, <2>1, <2>2, <2>4
  <2>5. QED
    BY <2>3, <2>4
<1>18. QED
  BY <1>11, <1>12, <1>13, <1>15, <1>16, <1>17 DEF ElectionInv

(* makeLeader runs only in a goroutine whose election is won.              *)
LEMMA ElectionWon ==
  ASSUME TypeOK, ElectionInv, NEW c \in voteCalls, StartLeader(c)
  PROVE  ElectionInv'
<1>1. /\ c.pc = "win" /\ c.e \in 1 .. Len(elections) /\ elections \in Seq(Election)
      /\ voteCalls' \subseteq voteCalls /\ elections' = elections
  BY DEF TypeOK, TypeVote, StartLeader, VoteDone
<1>2. Majority(Cardinality(elections[c.e].counted) + 1)
  BY <1>1 DEF ElectionInv, WinBacked
<1>3. \A n \in Server : state'[n] = "Leader" =>
          state[n] = "Leader" \/ n = elections[c.e].cand
  BY DEF StartLeader, TypeOK, TypeTerm
<1>4. LeaderWonElection'
  <2>1. c.e \in DOMAIN elections'
    BY <1>1
  <2>2. QED
    BY <1>1, <1>2, <1>3, <2>1 DEF ElectionInv, LeaderWonElection
<1>5. QED
  BY <1>1, <1>4
  DEF ElectionInv, VotesBacked, AskedOnce, NotCountedYet, CountBacked, Worth, WinBacked

(* A new candidacy starts with the candidate's vote and nothing counted.   *)
LEMMA ElectionStarted ==
  ASSUME TypeOK, ElectionInv, NEW s \in starting, BecomeCandidate(s)
  PROVE  ElectionInv'
<1> DEFINE n  == s.cand
           m  == Len(elections) + 1
           el == [cand |-> n, term |-> s.term, votes |-> 1, counted |-> {}]
           new == {[e |-> m, peer |-> p, pc |-> "spawned",
                    lastIndex |-> 0, lastTerm |-> 0, ok |-> FALSE, rterm |-> 0,
                    votes |-> 0] : p \in Peers(n)}
<1>1. /\ elections' = Append(elections, el)
      /\ voteCalls' = voteCalls \cup new
      /\ elections \in Seq(Election)
      /\ \A x \in voteCalls : x.e \in 1 .. Len(elections)
  BY DEF BecomeCandidate, NewElection, TypeOK, TypeVote
<1>2. /\ Len(elections) \in Nat /\ Len(elections') = m
      /\ \A e \in 1 .. Len(elections) : elections'[e] = elections[e]
      /\ elections'[m] = el
  BY <1>1
<1>3. \A x \in new : x.e = m /\ x.pc = "spawned"
  OBVIOUS
<1>4. \A x, y \in new : x.peer = y.peer => x = y
  <2> DEFINE Call(p) == [e |-> m, peer |-> p, pc |-> "spawned",
                         lastIndex |-> 0, lastTerm |-> 0, ok |-> FALSE, rterm |-> 0,
                         votes |-> 0]
  <2>1. \A p : Call(p).peer = p
    OBVIOUS
  <2>2. \A x \in new : \E p \in Peers(n) : x = Call(p)
    OBVIOUS
  <2> HIDE DEF Call, new
  <2>3. QED
    BY <2>1, <2>2
<1>5. el.votes = 1 /\ el.counted = {} /\ Cardinality({}) = 0
  BY FS_EmptySet
<1>6. NoNewLeader
  BY DEF BecomeCandidate, NoNewLeader, TypeOK, TypeTerm
<1> HIDE DEF el, new
<1>7. VotesBacked'
  <2> SUFFICES ASSUME NEW e \in 1 .. Len(elections')
               PROVE  elections'[e].votes <= Cardinality(elections'[e].counted) + 1
    BY DEF VotesBacked
  <2>1. CASE e \in 1 .. Len(elections)
    BY <1>2, <2>1 DEF ElectionInv, VotesBacked
  <2>2. CASE e = m
    <3>1. elections'[e].votes = 1 /\ Cardinality(elections'[e].counted) = 0
      BY <1>2, <1>5, <2>2
    <3>2. QED
      BY <3>1
  <2>3. QED
    BY <1>2, <2>1, <2>2
<1>8. \A x \in voteCalls : x.e # m
  BY <1>1, <1>2
<1>9. AskedOnce'
  BY <1>1, <1>3, <1>4, <1>8 DEF ElectionInv, AskedOnce
<1>10. NotCountedYet'
  BY <1>1, <1>2, <1>3, <1>5 DEF ElectionInv, NotCountedYet
<1>11. CountBacked'
  <2> SUFFICES ASSUME NEW x \in voteCalls', x.pc = "count"
               PROVE  x.votes <= Cardinality(Worth(x)') + 1
    BY DEF CountBacked
  <2>1. x \in voteCalls
    BY <1>1, <1>3
  <2>2. Worth(x)' = Worth(x)
    BY <1>1, <1>2, <2>1 DEF Worth
  <2>3. QED
    BY <2>1, <2>2 DEF ElectionInv, CountBacked
<1>12. WinBacked'
  BY <1>1, <1>2, <1>3 DEF ElectionInv, WinBacked
<1>13. LeaderWonElection'
  <2> SUFFICES ASSUME NEW k \in Server, state'[k] = "Leader"
               PROVE  \E e \in DOMAIN elections' :
                          /\ elections'[e].cand = k
                          /\ Majority(Cardinality(elections'[e].counted) + 1)
    BY DEF LeaderWonElection
  <2>1. PICK e \in DOMAIN elections :
             /\ elections[e].cand = k
             /\ Majority(Cardinality(elections[e].counted) + 1)
    BY <1>6 DEF ElectionInv, LeaderWonElection, NoNewLeader
  <2>2. e \in 1 .. Len(elections)
    BY <1>1, <2>1
  <2>3. elections' \in Seq(Election \cup {el})
    BY <1>1
  <2>4. e \in DOMAIN elections'
    BY <1>2, <2>2, <2>3
  <2>5. QED
    BY <1>2, <2>1, <2>2, <2>4
<1>14. QED
  BY <1>7, <1>9, <1>10, <1>11, <1>12, <1>13 DEF ElectionInv

(* Every step of a vote goroutine, and of RequestVote, keeps the votes.    *)
LEMMA ElectionVoteNext ==
  ASSUME TypeOK, ElectionInv, NEW c \in voteCalls, VoteNext(c)
  PROVE  ElectionInv'
<1>0. c \in VoteCall /\ c.peer \in Server /\ c.rterm \in Term
      /\ elections[c.e].cand \in Server /\ elections[c.e] \in Election
  BY VoteCallFacts DEF TypeOK
<1>1. CASE SendVote(c)
  <2> DEFINE n == elections[c.e].cand
             d == [c EXCEPT !.pc = "sent",
                            !.lastIndex = LastLogIndex(stateLog[n]),
                            !.lastTerm  = LastLogTerm(stateLog[n])]
  <2>1. stateLog[n] \in Log
    BY <1>0 DEF TypeOK, TypeLog
  <2>2. d \in VoteCall /\ d.e = c.e /\ d.peer = c.peer /\ d.pc = "sent"
    BY <1>0, <2>1, LogFacts DEF VoteCall
  <2>3. NoNewLeader /\ VoteStep(c, d) /\ elections' = elections /\ c.pc # "win"
    BY <1>1 DEF SendVote, NoNewLeader, termVars
  <2>4. QED
    BY <2>2, <2>3, ElectionMoved
<1>2. CASE LoseVote(c)
  BY <1>2, ElectionKept DEF LoseVote, VoteDone, NoNewLeader, termVars
<1>3. CASE HandleVoteReply(c)
  <2> DEFINE w == [c EXCEPT !.pc = "withdraw", !.ok = FALSE]
             d == [c EXCEPT !.pc = "tally"]
  <2>1. w \in VoteCall /\ w.e = c.e /\ w.peer = c.peer /\ w.pc = "withdraw"
    BY <1>0 DEF VoteCall
  <2>2. d \in VoteCall /\ d.e = c.e /\ d.peer = c.peer /\ d.pc = "tally"
    BY <1>0 DEF VoteCall
  <2>3. VoteDone(c) \/ VoteStep(c, w) \/ VoteStep(c, d)
    BY <1>3 DEF HandleVoteReply
  <2>4. NoNewLeader /\ elections' = elections /\ c.pc = "replied"
    BY <1>3 DEF HandleVoteReply, NoNewLeader, termVars
  <2>5. CASE VoteDone(c)
    BY <2>4, <2>5, ElectionKept DEF VoteDone
  <2>6. CASE VoteStep(c, w) \/ VoteStep(c, d)
    BY <2>1, <2>2, <2>4, <2>6, ElectionMoved
  <2>7. QED
    BY <2>3, <2>5, <2>6
<1>11. CASE gotVote(c)
  <2> DEFINE el == elections[c.e]
             votes == IF c.rterm = el.term /\ c.ok THEN el.votes + 1 ELSE el.votes
             d == [c EXCEPT !.pc = "count", !.votes = votes]
  <2>1. votes \in Nat
    <3>1. el.votes \in Nat
      BY <1>0 DEF Election
    <3>2. QED
      BY <3>1
  <2> HIDE DEF votes
  <2>2. /\ d \in VoteCall /\ d.e = c.e /\ d.peer = c.peer /\ d.pc = "count"
        /\ d.rterm = c.rterm /\ d.ok = c.ok /\ d.votes = votes
    BY <1>0, <2>1 DEF VoteCall
  <2>3. VoteStep(c, d) /\ NoNewLeader /\ elections' = elections /\ c.pc = "tally"
    BY <1>11 DEF gotVote, NoNewLeader, termVars, votes
  <2>4. d.votes = IF c.rterm = elections[c.e].term /\ c.ok
                  THEN elections[c.e].votes + 1 ELSE elections[c.e].votes
    BY <2>2 DEF votes
  <2>5. QED
    BY <2>2, <2>3, <2>4, ElectionTally
<1>4. CASE Withdraw(c)
  BY <1>4, ElectionKept
  DEF Withdraw, VoteDone, makeFollower, NoNewLeader, TypeOK, TypeTerm
<1>5. CASE CountVote(c)
  BY <1>5, ElectionCount
<1>6. CASE StartLeader(c)
  BY <1>6, ElectionWon
<1>7. CASE ReceiveVote(c)
  <2> DEFINE pc == IF elections[c.e].term > currentTerm[c.peer] THEN "demote" ELSE "readlog"
             d  == [c EXCEPT !.pc = pc]
  <2>1. pc \in {"demote", "readlog"}
    OBVIOUS
  <2>2. VoteDone(c) \/ VoteStep(c, d)
    BY <1>7 DEF ReceiveVote
  <2> HIDE DEF pc
  <2>3. d \in VoteCall /\ d.e = c.e /\ d.peer = c.peer /\ d.pc = pc
    BY <1>0, <2>1 DEF VoteCall
  <2>4. NoNewLeader /\ elections' = elections /\ c.pc # "win"
    BY <1>7 DEF ReceiveVote, NoNewLeader, termVars
  <2>5. CASE VoteDone(c)
    BY <2>4, <2>5, ElectionKept DEF VoteDone
  <2>6. CASE VoteStep(c, d)
    BY <2>1, <2>3, <2>4, <2>6, ElectionMoved
  <2>7. QED
    BY <2>2, <2>5, <2>6
<1>8. CASE VoteDemote(c)
  <2> DEFINE d == [c EXCEPT !.pc = "readlog"]
  <2>1. d \in VoteCall /\ d.e = c.e /\ d.peer = c.peer /\ d.pc = "readlog"
    BY <1>0 DEF VoteCall
  <2>2. NoNewLeader /\ VoteStep(c, d) /\ elections' = elections /\ c.pc # "win"
    BY <1>8 DEF VoteDemote, makeFollower, NoNewLeader, TypeOK, TypeTerm
  <2>3. QED
    BY <2>1, <2>2, ElectionMoved
<1>9. CASE VoteReadLog(c)
  <2> DEFINE u == UpToDate(c.lastIndex, c.lastTerm, stateLog[c.peer])
             d == [c EXCEPT !.pc = "decide", !.lastIndex = 0, !.lastTerm = 0, !.ok = u]
  <2>1. u \in BOOLEAN
    BY DEF UpToDate
  <2>2. NoNewLeader /\ VoteStep(c, d) /\ elections' = elections /\ c.pc # "win"
    BY <1>9 DEF VoteReadLog, NoNewLeader, termVars
  <2> HIDE DEF u
  <2>3. d \in VoteCall /\ d.e = c.e /\ d.peer = c.peer /\ d.pc = "decide"
    BY <1>0, <2>1, ZeroFacts DEF VoteCall
  <2>4. QED
    BY <2>2, <2>3, ElectionMoved
<1>10. CASE DecideVote(c)
  <2> DEFINE g == currentTerm[c.peer] = elections[c.e].term \/ c.ok
             d == [c EXCEPT !.pc = "replied", !.ok = g, !.rterm = currentTerm[c.peer]]
  <2>1. g \in BOOLEAN /\ currentTerm[c.peer] \in Term
    BY <1>0 DEF VoteCall, TypeOK, TypeTerm
  <2>2. NoNewLeader /\ VoteStep(c, d) /\ elections' = elections /\ c.pc # "win"
    BY <1>10 DEF DecideVote, NoNewLeader
  <2> HIDE DEF g
  <2>3. d \in VoteCall /\ d.e = c.e /\ d.peer = c.peer /\ d.pc = "replied"
    BY <1>0, <2>1 DEF VoteCall
  <2>4. QED
    BY <2>2, <2>3, ElectionMoved
<1>12. QED
  BY <1>1, <1>2, <1>3, <1>4, <1>5, <1>6, <1>7, <1>8, <1>9, <1>10, <1>11 DEF VoteNext

(* No step of replication, of a timer or of a client is about votes.       *)
LEMMA ElectionOthers ==
  ASSUME TypeOK, ElectionInv,
         \/ \E n \in Server : ServerNext(n)
         \/ \E g \in pending : BuildAppend(g)
         \/ \E c \in calls : AppendNext(c)
         \/ UNCHANGED vars
  PROVE  ElectionInv'
<1>1. ASSUME NEW n \in Server, ServerNext(n)
      PROVE  NoNewLeader /\ UNCHANGED <<elections, voteCalls>>
  BY <1>1 DEF ServerNext, ElectionTimeout, groupBroadcast, HeartbeatTick, ApplyCommits,
     Shutdown, Submit, NoNewLeader, TypeOK, TypeTerm, termVars, voteVars
<1>2. ASSUME NEW g \in pending, BuildAppend(g)
      PROVE  NoNewLeader /\ UNCHANGED <<elections, voteCalls>>
  BY <1>2 DEF BuildAppend, NoNewLeader, termVars, voteVars
<1>3. ASSUME NEW c \in calls, AppendNext(c)
      PROVE  NoNewLeader /\ UNCHANGED <<elections, voteCalls>>
  <2>1. UNCHANGED <<elections, voteCalls>>
    BY <1>3 DEF AppendNext, SendAppend, LoseAppend, AppendReplyNewTerm, AppendReplySuccess,
       AppendReplyReject, AppendReplyIgnored, ReceiveAppend, AppendDemote, AppendRecheck,
       AppendStepDown, AppendAccept, AppendRefuse, voteVars
  <2>2. \/ UNCHANGED state
        \/ \E n \in Server : state' = [state EXCEPT ![n] = "Follower"]
    <3>1. c.src \in Server /\ c.peer \in Server
      BY AppendCallFacts DEF TypeOK
    <3>2. QED
      BY <1>3, <3>1 DEF AppendNext, SendAppend, LoseAppend, AppendReplyNewTerm,
         AppendReplySuccess, AppendReplyReject, AppendReplyIgnored, ReceiveAppend,
         AppendDemote, AppendRecheck, AppendStepDown, AppendAccept, AppendRefuse,
         makeFollower, termVars
  <2>3. QED
    BY <2>1, <2>2 DEF NoNewLeader, TypeOK, TypeTerm
<1>4. CASE UNCHANGED vars
  BY <1>4, ElectionKept DEF vars, termVars, voteVars, NoNewLeader
<1>5. QED
  BY <1>1, <1>2, <1>3, <1>4, ElectionKept

(* Every leader won an election: a majority granted its candidacy, however *)
(* the replies were interleaved, lost or late.                             *)
THEOREM LeadersAreElected == Spec => []LeaderWonElection
<1>1. Init => ElectionInv
  BY DEF Init, ElectionInv, VotesBacked, AskedOnce, NotCountedYet, CountBacked, WinBacked,
         LeaderWonElection
<1>2. TypeOK /\ ElectionInv /\ [Next]_vars => ElectionInv'
  BY ElectionStarted, ElectionVoteNext, ElectionOthers DEF Next
<1>3. ElectionInv => LeaderWonElection
  BY DEF ElectionInv
<1>4. QED
  BY TypeCorrect, <1>1, <1>2, <1>3, PTL DEF Spec

-----------------------------------------------------------------------------
(* Log Matching.  As long as creation is unique and no message is torn,    *)
(* every prefix of every log, and of every log a message carries, is a log *)
(* some leader had right after a Submit.                                   *)
Recorded(log) ==
    \A i \in 1 .. Len(log) :
        \E a \in created : Len(a) = i /\ \A j \in 1 .. i : a[j] = log[j]

HistoryInv ==
    UniqueCreated /\ ~torn =>
        /\ \A n \in Server : Recorded(stateLog[n])
        /\ \A c \in calls : Recorded(c.log)

(* Two recorded logs with the same term at an index agree up to it.        *)
LEMMA RecordedAgree ==
  ASSUME UniqueCreated, NEW x, NEW y, Recorded(x), Recorded(y),
         Len(x) \in Nat, Len(y) \in Nat,
         NEW i \in 1 .. Len(x), i \in 1 .. Len(y), x[i].term = y[i].term
  PROVE  \A j \in 1 .. i : x[j] = y[j]
<1>1. PICK a \in created : Len(a) = i /\ \A j \in 1 .. i : a[j] = x[j]
  BY DEF Recorded
<1>2. PICK b \in created : Len(b) = i /\ \A j \in 1 .. i : b[j] = y[j]
  BY DEF Recorded
<1>3. a[Len(a)].term = b[Len(b)].term
  <2>1. i \in 1 .. i
    OBVIOUS
  <2>2. QED
    BY <1>1, <1>2, <2>1
<1>4. a = b
  BY <1>1, <1>2, <1>3 DEF UniqueCreated
<1>5. QED
  BY <1>1, <1>2, <1>4

(* What AppendEntries leaves is the old log or exactly the leader's.       *)
LEMMA SplicedIsOneOfTwo ==
  ASSUME UniqueCreated, NEW log \in Log, NEW c \in AppendCall,
         c.next <= Len(c.log), PrevMatches(log, c), Recorded(log), Recorded(c.log)
  PROVE  \/ Spliced(log, c) = log
         \/ /\ Len(Spliced(log, c)) = Len(c.log)
            /\ \A i \in 1 .. Len(c.log) : Spliced(log, c)[i] = c.log[i]
<1>1. c.log \in Log /\ c.next \in Nat
  BY DEF AppendCall, Index
<1>2. Len(c.log) \in Nat /\ Len(log) \in Nat
  BY <1>1, LogFacts
<1>3. ASSUME NEW i \in 1 .. Len(c.log), i <= c.next \/ Known(log, c, i)
      PROVE  log[i] = c.log[i]
  <2>1. CASE i <= c.next
    <3>1. /\ c.next \in 1 .. Len(c.log) /\ c.next \in 1 .. Len(log)
          /\ log[c.next].term = c.log[c.next].term
      BY <1>1, <1>2, <2>1 DEF PrevMatches
    <3>2. \A j \in 1 .. c.next : log[j] = c.log[j]
      BY <1>2, <3>1, RecordedAgree
    <3>3. QED
      BY <2>1, <3>2, <1>1
  <2>2. CASE ~(i <= c.next)
    <3>1. i \in c.next + 1 .. i
      BY <2>2, <1>1
    <3>2. i \in 1 .. Len(log) /\ log[i].term = c.log[i].term
      BY <1>2, <1>3, <2>2, <3>1 DEF Known
    <3>3. \A j \in 1 .. i : log[j] = c.log[j]
      BY <1>2, <3>2, RecordedAgree
    <3>4. QED
      BY <3>3
  <2>3. QED
    BY <2>1, <2>2
<1>4. CASE Known(log, c, Len(c.log))
  BY <1>4 DEF Spliced
<1>5. CASE ~Known(log, c, Len(c.log))
  <2>1. \A i \in 1 .. Len(c.log) : Spliced(log, c)[i] = c.log[i]
    BY <1>3, <1>5 DEF Spliced
  <2>2. Spliced(log, c) = [i \in 1 .. Len(c.log) |->
             IF i <= c.next \/ Known(log, c, i) THEN log[i] ELSE c.log[i]]
    BY <1>5 DEF Spliced
  <2>3. Len(Spliced(log, c)) = Len(c.log)
    BY <1>2, <2>2
  <2>4. QED
    BY <2>1, <2>3
<1>6. QED
  BY <1>4, <1>5

(* Steps that create, build and splice nothing.                            *)
LEMMA HistoryKept ==
  ASSUME HistoryInv, UNCHANGED <<stateLog, created, torn>>,
         \A x \in calls' : \E c \in calls : x.log = c.log
  PROVE  HistoryInv'
<1> SUFFICES ASSUME UniqueCreated', ~torn'
             PROVE  /\ \A n \in Server : Recorded(stateLog[n])'
                    /\ \A x \in calls' : Recorded(x.log)'
  BY DEF HistoryInv
<1>1. UniqueCreated /\ ~torn
  BY DEF UniqueCreated
<1>2. \A x : Recorded(x)' <=> Recorded(x)
  BY DEF Recorded
<1>3. \A n \in Server : Recorded(stateLog[n])'
  BY <1>1 DEF HistoryInv, Recorded
<1>4. \A x \in calls' : Recorded(x.log)'
  BY <1>1, <1>2 DEF HistoryInv
<1>5. QED
  BY <1>3, <1>4

(* AppendEntries leaves a recorded log: the old one or the message's.      *)
LEMMA HistoryAccept ==
  ASSUME TypeOK, HistoryInv, NEW c \in calls, AppendAccept(c)
  PROVE  HistoryInv'
<1> DEFINE n   == c.peer
           log == stateLog[n]
           new == Spliced(log, c)
           k   == Kept(log, c)
           d   == [c EXCEPT !.pc = "replied", !.ok = TRUE, !.rterm = c.term, !.lc = 0]
<1> SUFFICES ASSUME UniqueCreated', ~torn'
             PROVE  /\ \A m \in Server : Recorded(stateLog'[m])
                    /\ \A x \in calls' : Recorded(x.log)
  BY DEF HistoryInv, AppendAccept, Recorded
<1>1. created' = created /\ stateLog' = [stateLog EXCEPT ![n] = new]
  BY DEF AppendAccept, SetLog
<1>2. PICK S \in SUBSET (IF new = log THEN {} ELSE Exposed(n, k, new)) :
           /\ calls' = (calls \ (S \cup {c})) \cup Overwritten(S, k, new) \cup {d}
           /\ torn'  = (torn \/ S # {})
  BY DEF AppendAccept
<1>3. S = {} /\ ~torn /\ UniqueCreated
  BY <1>1, <1>2 DEF UniqueCreated
<1>4. /\ c \in AppendCall /\ n \in Server /\ log \in Log
      /\ c.next <= Len(c.log) /\ PrevMatches(log, c)
  BY AppendCallFacts DEF TypeOK, TypeLog, AppendAccept
<1>5. Recorded(log) /\ Recorded(c.log)
  BY <1>3, <1>4 DEF HistoryInv
<1>6. Recorded(new)
  <2>1. CASE new = log
    BY <2>1, <1>5
  <2>2. CASE Len(new) = Len(c.log) /\ \A i \in 1 .. Len(c.log) : new[i] = c.log[i]
    <3> HIDE DEF new, log
    <3>1. Len(c.log) \in Nat
      BY <1>4, LogFacts DEF AppendCall
    <3>2. QED
      BY <1>5, <2>2, <3>1 DEF Recorded
  <2>3. QED
    BY <1>3, <1>4, <1>5, <2>1, <2>2, SplicedIsOneOfTwo
<1>7. \A m \in Server : Recorded(stateLog'[m])
  <2> HIDE DEF new
  <2>1. stateLog \in [Server -> Log]
    BY DEF TypeOK, TypeLog
  <2>2. \A m \in Server : stateLog'[m] = IF m = n THEN new ELSE stateLog[m]
    BY <1>1, <1>4, <2>1
  <2>3. QED
    BY <1>3, <1>6, <2>2 DEF HistoryInv
<1>8. \A x \in calls' : Recorded(x.log)
  <2>1. Overwritten(S, k, new) = {}
    BY <1>3 DEF Overwritten
  <2>2. d.log = c.log
    BY <1>4 DEF AppendCall
  <2> HIDE DEF new, d, k
  <2>3. \A x \in calls' : x \in calls \/ x = d
    BY <1>2, <2>1
  <2>4. QED
    BY <1>3, <1>5, <2>2, <2>3 DEF HistoryInv
<1>9. QED
  BY <1>7, <1>8

(* Submit extends a recorded log by the entry it records.                  *)
LEMMA HistorySubmit ==
  ASSUME TypeOK, HistoryInv, NEW n \in Server, NEW v \in Value, Submit(n, v)
  PROVE  HistoryInv'
<1> DEFINE old == stateLog[n]
           e   == [term |-> currentTerm[n], value |-> v]
           new == Append(old, e)
<1>1. /\ created' = created \cup {new} /\ stateLog' = [stateLog EXCEPT ![n] = new]
      /\ Len(old) < MaxLog
  BY DEF Submit, SetLog
<1>2. old \in Log /\ e \in Entry
  BY DEF TypeOK, TypeLog, TypeTerm, Entry
<1>3. /\ Len(new) = Len(old) + 1 /\ Len(old) \in Nat
      /\ \A i \in 1 .. Len(old) : new[i] = old[i]
  BY <1>1, <1>2, AppendEntryType, LogFacts
<1>4. PICK S \in SUBSET Exposed(n, Len(old), new) :
           /\ calls' = (calls \ S) \cup Overwritten(S, Len(old), new)
           /\ torn'  = (torn \/ S # {})
  BY DEF Submit
<1> HIDE DEF new
<1> SUFFICES ASSUME UniqueCreated', ~torn'
             PROVE  /\ \A m \in Server : Recorded(stateLog[m])'
                    /\ \A x \in calls' : Recorded(x.log)'
  BY DEF HistoryInv
<1>5. UniqueCreated /\ ~torn /\ S = {}
  BY <1>1, <1>4 DEF UniqueCreated
<1>6. \A x : Recorded(x) => Recorded(x)'
  BY <1>1 DEF Recorded
<1>7. ASSUME NEW x, x = new
      PROVE  Recorded(x)'
  <2> SUFFICES ASSUME NEW i \in 1 .. Len(x)
               PROVE  \E a \in created' : Len(a) = i /\ \A j \in 1 .. i : a[j] = x[j]
    BY DEF Recorded
  <2>1. CASE i = Len(x)
    BY <1>1, <1>7, <2>1
  <2>2. CASE i # Len(x)
    <3>1. i \in 1 .. Len(old) /\ Recorded(old)
      BY <1>3, <1>5, <1>7, <2>2 DEF HistoryInv
    <3>2. PICK a \in created : Len(a) = i /\ \A j \in 1 .. i : a[j] = old[j]
      BY <3>1 DEF Recorded
    <3>3. \A j \in 1 .. i : j \in 1 .. Len(old)
      BY <1>3, <3>1
    <3>4. \A j \in 1 .. i : a[j] = x[j]
      BY <1>3, <1>7, <3>2, <3>3
    <3>5. QED
      BY <1>1, <3>2, <3>4
  <2>3. QED
    BY <2>1, <2>2
<1>8. ASSUME NEW m \in Server
      PROVE  Recorded(stateLog[m])'
  <2>1. stateLog'[m] = IF m = n THEN new ELSE stateLog[m]
    BY <1>1 DEF TypeOK, TypeLog
  <2>2. m # n => Recorded(stateLog[m])
    BY <1>5 DEF HistoryInv
  <2>3. ASSUME NEW x, x = stateLog'[m]
        PROVE  Recorded(x)'
    BY <1>6, <1>7, <2>1, <2>2, <2>3
  <2>4. QED
    BY <2>3 DEF Recorded
<1>9. \A x \in calls' : Recorded(x.log)'
  <2>1. Overwritten(S, Len(old), new) = {}
    BY <1>5 DEF Overwritten
  <2>2. \A x \in calls' : x \in calls
    BY <1>4, <2>1
  <2>3. QED
    BY <1>5, <1>6, <2>2 DEF HistoryInv
<1>10. QED
  BY <1>8, <1>9

(* A message under construction carries the leader's log.                  *)
LEMMA HistoryBuild ==
  ASSUME TypeOK, HistoryInv, NEW g \in pending, BuildAppend(g)
  PROVE  HistoryInv'
<1>1. g.src \in Server /\ UNCHANGED <<stateLog, created, torn>>
  BY DEF TypeOK, TypeAppend, BuildAppend, logVars
<1>2. \A x \in calls' : x \in calls \/ x.log = stateLog[g.src]
  BY DEF BuildAppend
<1> SUFFICES ASSUME UniqueCreated', ~torn'
             PROVE  /\ \A n \in Server : Recorded(stateLog[n])'
                    /\ \A x \in calls' : Recorded(x.log)'
  BY DEF HistoryInv
<1>3. UniqueCreated /\ ~torn
  BY <1>1 DEF UniqueCreated
<1>4. \A x : Recorded(x)' <=> Recorded(x)
  BY <1>1 DEF Recorded
<1>5. \A n \in Server : Recorded(stateLog[n])'
  BY <1>1, <1>3 DEF HistoryInv, Recorded
<1>6. \A x \in calls' : Recorded(x.log)
  BY <1>1, <1>2, <1>3 DEF HistoryInv
<1>7. QED
  BY <1>4, <1>5, <1>6

(* The other steps of an AppendEntries call leave the logs alone.          *)
LEMMA HistoryAppendNext ==
  ASSUME TypeOK, HistoryInv, NEW c \in calls, AppendNext(c)
  PROVE  HistoryInv'
<1>1. CASE AppendAccept(c)
  BY <1>1, HistoryAccept
<1>2. CASE ~AppendAccept(c)
  <2>1. UNCHANGED <<stateLog, created, torn>>
    BY <1>2 DEF AppendNext, SendAppend, LoseAppend, AppendReplyNewTerm, AppendReplySuccess,
       AppendReplyReject, AppendReplyIgnored, ReceiveAppend, AppendDemote, AppendRecheck,
       AppendStepDown, AppendRefuse, logVars
  <2>2. c \in AppendCall
    BY AppendCallFacts DEF TypeOK
  <2>3. \/ AppendDone(c)
        \/ \E d : d.log = c.log /\ AppendStep(c, d)
    <3>1. CASE SendAppend(c)
      BY <2>2, <3>1 DEF SendAppend, AppendCall
    <3>2. CASE ReceiveAppend(c)
      BY <2>2, <3>2 DEF ReceiveAppend, AppendCall
    <3>3. CASE AppendDemote(c)
      BY <2>2, <3>3 DEF AppendDemote, AppendCall
    <3>4. CASE AppendRecheck(c)
      BY <2>2, <3>4 DEF AppendRecheck, AppendCall
    <3>5. CASE AppendStepDown(c)
      BY <2>2, <3>5 DEF AppendStepDown, AppendCall
    <3>6. CASE AppendRefuse(c)
      BY <2>2, <3>6 DEF AppendRefuse, AppendCall
    <3>7. QED
      BY <1>2, <3>1, <3>2, <3>3, <3>4, <3>5, <3>6 DEF AppendNext, LoseAppend,
         AppendReplyNewTerm, AppendReplySuccess, AppendReplyReject, AppendReplyIgnored
  <2>4. \A x \in calls' : \E y \in calls : x.log = y.log
    BY <2>3 DEF AppendDone, AppendStep
  <2>5. QED
    BY <2>1, <2>4, HistoryKept
<1>3. QED
  BY <1>1, <1>2

(* No other step touches a log or a message.                               *)
LEMMA HistoryOthers ==
  ASSUME TypeOK, HistoryInv,
         \/ \E n \in Server : ServerNext(n)
         \/ \E s \in starting : BecomeCandidate(s)
         \/ \E c \in voteCalls : VoteNext(c)
         \/ UNCHANGED vars
  PROVE  HistoryInv'
<1>1. ASSUME NEW n \in Server, NEW v \in Value, Submit(n, v)
      PROVE  HistoryInv'
  BY <1>1, HistorySubmit
<1>2. ASSUME NEW n \in Server, ServerNext(n), ~\E v \in Value : Submit(n, v)
      PROVE  UNCHANGED <<stateLog, created, torn, calls>>
  BY <1>2 DEF ServerNext, ElectionTimeout, groupBroadcast, HeartbeatTick, ApplyCommits,
     Shutdown, logVars, appendVars
<1>3. ASSUME NEW s \in starting, BecomeCandidate(s)
      PROVE  UNCHANGED <<stateLog, created, torn, calls>>
  BY <1>3 DEF BecomeCandidate, logVars, appendVars
<1>4. ASSUME NEW c \in voteCalls, VoteNext(c)
      PROVE  UNCHANGED <<stateLog, created, torn, calls>>
  <2>1. UNCHANGED <<logVars, appendVars>>
    BY <1>4, Zenon DEF VoteNext, SendVote, LoseVote, HandleVoteReply, gotVote,
       Withdraw, CountVote,
       StartLeader, ReceiveVote, VoteDemote, VoteReadLog, DecideVote
  <2>2. QED
    BY <2>1 DEF logVars, appendVars
<1>5. CASE UNCHANGED vars
  BY <1>5, HistoryKept DEF vars, logVars, appendVars
<1>6. QED
  BY <1>1, <1>2, <1>3, <1>4, <1>5, HistoryKept

LEMMA HistoryAlways == Spec => []HistoryInv
<1>1. Init => HistoryInv
  BY DEF Init, HistoryInv, Recorded
<1>2. TypeOK /\ HistoryInv /\ [Next]_vars => HistoryInv'
  BY HistoryBuild, HistoryAppendNext, HistoryOthers DEF Next
<1>3. QED
  BY TypeCorrect, <1>1, <1>2, PTL DEF Spec

(* Log Matching for every cluster, every number of calls in flight and     *)
(* every bound: the splice of AppendEntries keeps it under every order of  *)
(* delivery, as long as no two leaders of a term accepted commands and no  *)
(* message was torn.                                                       *)
THEOREM LogsMatch == Spec => []LogMatching
<1>1. TypeOK /\ HistoryInv => LogMatching
  <2> SUFFICES ASSUME TypeOK, HistoryInv, UniqueCreated, ~torn,
                      NEW m \in Server, NEW n \in Server,
                      NEW i \in DOMAIN stateLog[m] \cap DOMAIN stateLog[n],
                      stateLog[m][i].term = stateLog[n][i].term
               PROVE  \A j \in 1 .. i : stateLog[m][j] = stateLog[n][j]
    BY DEF LogMatching
  <2>1. stateLog[m] \in Log /\ stateLog[n] \in Log
    BY DEF TypeOK, TypeLog
  <2>2. Recorded(stateLog[m]) /\ Recorded(stateLog[n])
    BY DEF HistoryInv
  <2>3. /\ Len(stateLog[m]) \in Nat /\ Len(stateLog[n]) \in Nat
        /\ i \in 1 .. Len(stateLog[m]) /\ i \in 1 .. Len(stateLog[n])
    BY <2>1 DEF Log
  <2>4. QED
    BY <2>2, <2>3, RecordedAgree
<1>2. QED
  BY TypeCorrect, HistoryAlways, <1>1, PTL
=============================================================================
