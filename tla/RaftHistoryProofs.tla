------------------------- MODULE RaftHistoryProofs -------------------------
(***************************************************************************)
(* Under a single history, for every cluster, any number of calls in       *)
(* flight and every bound: logs only grow, nextIndex stays within the log, *)
(* what is acknowledged is stored, any two servers apply the same commands *)
(* in the same order, and the cluster implements CommandLog.  The history  *)
(* is single as long as one server alone stands for election.              *)
(***************************************************************************)
EXTENDS RaftProofs, SequenceTheorems

-----------------------------------------------------------------------------
(* The inductive invariant                                                 *)

(* The messages of a server are no longer than its log.                    *)
MessagesInLog == \A c \in calls : Len(c.log) <= Len(stateLog[c.src])

(* What a server has applied is the beginning of its log, and while it is  *)
(* up lastApplied says how long that beginning is.                         *)
AppliedInLog ==
    \A n \in Server : /\ Prefix(applied[n], stateLog[n])
                      /\ Up(n) => Len(applied[n]) = Inc(lastApplied[n])

NextInLog == \A n, p \in Server : nextIndex[n][p] <= Len(stateLog[n])

(* Nothing is left in an array beyond the log.                             *)
NothingBeyond == \A n \in Server : written[n] <= Len(stateLog[n])

GrowthInv ==
    SingleHistory => ~torn /\ NothingBeyond /\ MessagesInLog /\ NextInLog /\ AppliedInLog

(* A peer that accepted a message has its entries, so has every peer whose *)
(* matchIndex says so, and so has the server itself.                       *)
AnswersInLog == \A c \in calls : c.ok => Len(c.log) <= Len(stateLog[c.peer])
AckedInLog ==
    \A n, p \in Server :
        matchIndex[n][p] \notin {0, MaxUint64} =>
            matchIndex[n][p] < Len(stateLog[p]) /\ matchIndex[n][p] < Len(stateLog[n])

(* A server that has applied entries commits within its log.               *)
CommitInLog ==
    \A n \in Server :
        /\ Up(n) /\ lastApplied[n] # MaxUint64 => commitIndex[n] < Len(stateLog[n])
        /\ fault[n] = "overrun" => lastApplied[n] = MaxUint64

AckInv == SingleHistory => AnswersInLog /\ AckedInLog /\ CommitInLog

(* Only a message with a PrevLogIndex is refused in its own term.          *)
RefusedInv ==
    \A c \in calls : c.pc = "replied" /\ ~c.ok /\ c.rterm = c.term => c.next > 0

-----------------------------------------------------------------------------
(* Logs of a single history                                                *)

LEMMA SingleKept ==
  ASSUME created \subseteq created', SingleHistory' PROVE SingleHistory
<1>1. QED BY DEF SingleHistory

LEMMA SingleUnique ==
  ASSUME TypeOK, SingleHistory PROVE UniqueCreated
<1> SUFFICES ASSUME NEW a \in created, NEW b \in created, Len(a) = Len(b) PROVE a = b
  BY DEF UniqueCreated
<1>1. /\ a \in Seq(Entry) /\ b \in Seq(Entry)
  BY DEF TypeOK, TypeLog, Log
<1>2. \A i \in 1 .. Len(a) : a[i] = b[i]
  BY DEF SingleHistory, Prefix
<1>3. QED
  BY <1>1, <1>2, SeqEqual

(* Two recorded logs agree wherever both have an entry.                    *)
LEMMA OneHistory ==
  ASSUME SingleHistory, NEW x, NEW y, Recorded(x), Recorded(y),
         NEW i \in 1 .. Len(x), i \in 1 .. Len(y), Len(x) \in Nat, Len(y) \in Nat
  PROVE  x[i] = y[i]
<1>1. PICK a \in created : Len(a) = i /\ \A j \in 1 .. i : a[j] = x[j]
  BY DEF Recorded
<1>2. PICK b \in created : Len(b) = i /\ \A j \in 1 .. i : b[j] = y[j]
  BY DEF Recorded
<1>3. i \in 1 .. i
  OBVIOUS
<1>4. a[i] = b[i]
  BY <1>1, <1>2, <1>3 DEF SingleHistory, Prefix
<1>5. QED
  BY <1>1, <1>2, <1>3, <1>4

(* An append() in place writes what an unsent message holds already.       *)
LEMMA NoneExposed ==
  ASSUME TypeOK, SingleHistory, NEW n, NEW k, NEW new \in Log, Recorded(new),
         \A c \in calls : Recorded(c.log)
  PROVE  Exposed(n, k, new) = {}
<1> SUFFICES ASSUME NEW c \in calls PROVE Overlay(c, k, new) = c.log
  BY DEF Exposed
<1>1. c.log \in Log
  BY AppendCallFacts DEF TypeOK, AppendCall
<1>2. Len(c.log) \in Nat /\ Len(new) \in Nat /\ c.log \in Seq(Entry)
  BY <1>1, LogFacts
<1>3. ASSUME NEW i \in 1 .. Len(c.log), i <= Len(new) PROVE new[i] = c.log[i]
  BY <1>2, <1>3, OneHistory
<1>4. Overlay(c, k, new) = [i \in 1 .. Len(c.log) |-> c.log[i]]
  BY <1>3 DEF Overlay
<1>5. c.log = [i \in 1 .. Len(c.log) |-> c.log[i]]
  BY <1>2
<1>6. QED
  BY <1>4, <1>5

(* The splice of AppendEntries extends the log or leaves it.               *)
LEMMA SplicedGrows ==
  ASSUME TypeOK, SingleHistory, NEW log \in Log, NEW c \in AppendCall,
         c.next <= Len(c.log), PrevMatches(log, c), Recorded(log), Recorded(c.log)
  PROVE  Prefix(log, Spliced(log, c))
<1>1. c.log \in Log /\ c.next \in Nat
  BY DEF AppendCall, Index
<1>2. Len(c.log) \in Nat /\ Len(log) \in Nat
  BY <1>1, LogFacts
<1>3. CASE Spliced(log, c) = log
  BY <1>2, <1>3 DEF Prefix
<1>4. CASE Spliced(log, c) # log
  <2>1. /\ Len(Spliced(log, c)) = Len(c.log)
        /\ \A i \in 1 .. Len(c.log) : Spliced(log, c)[i] = c.log[i]
    BY <1>4, SingleUnique, SplicedIsOneOfTwo
  <2>2. ~Known(log, c, Len(c.log))
    BY <1>4 DEF Spliced
  <2>3. PICK j \in c.next + 1 .. Len(c.log) : ~(j <= Len(log) /\ log[j].term = c.log[j].term)
    BY <2>2 DEF Known
  <2>4. j > Len(log)
    <3>1. j \in 1 .. Len(c.log) /\ j \in Nat
      BY <1>1, <1>2, <2>3
    <3>2. CASE j <= Len(log)
      <4>1. log[j] = c.log[j]
        BY <1>2, <3>1, <3>2, OneHistory
      <4>2. QED
        BY <2>3, <3>2, <4>1
    <3>3. QED
      BY <1>2, <3>1, <3>2
  <2>5. Len(log) <= Len(c.log)
    BY <1>1, <1>2, <2>3, <2>4
  <2>6. \A i \in 1 .. Len(log) : log[i] = c.log[i]
    <3> SUFFICES ASSUME NEW i \in 1 .. Len(log) PROVE log[i] = c.log[i]
      OBVIOUS
    <3>1. i \in 1 .. Len(c.log)
      BY <1>2, <2>5
    <3>2. QED
      BY <1>2, <3>1, OneHistory
  <2>7. \A i \in 1 .. Len(log) : i \in 1 .. Len(c.log)
    BY <1>2, <2>5
  <2>8. QED
    BY <2>1, <2>5, <2>6, <2>7 DEF Prefix
<1>5. QED
  BY <1>3, <1>4

(* A log that accepted a message has as many entries as the message.       *)
LEMMA SplicedCovers ==
  ASSUME NEW log \in Log, NEW c \in AppendCall, c.next <= Len(c.log), PrevMatches(log, c)
  PROVE  Len(c.log) <= Len(Spliced(log, c))
<1>1. c.log \in Log /\ c.next \in Nat /\ Len(c.log) \in Nat /\ Len(log) \in Nat
  BY LogFacts DEF AppendCall, Index
<1>2. CASE Known(log, c, Len(c.log))
  <2>1. CASE c.next = Len(c.log)
    BY <1>1, <1>2, <2>1 DEF PrevMatches, Spliced
  <2>2. CASE c.next < Len(c.log)
    <3>1. Len(c.log) \in c.next + 1 .. Len(c.log)
      BY <1>1, <2>2
    <3>2. QED
      BY <1>2, <3>1 DEF Known, Spliced
  <2>3. QED
    BY <1>1, <2>1, <2>2
<1>3. CASE ~Known(log, c, Len(c.log))
  BY <1>1, <1>3 DEF Spliced
<1>4. QED
  BY <1>2, <1>3

-----------------------------------------------------------------------------
(* Logs only grow                                                          *)

(* A message that keeps its ends, its log and its answer.                  *)
SameCall(d, c) == d.log = c.log /\ d.src = c.src /\ d.peer = c.peer /\ d.ok = c.ok

(* What every step leaves true of the logs and the messages: a message     *)
(* after the step was there before, or was accepted now by a peer that has *)
(* its entries, or is a new one with the log of its server.                *)
CallsFrom ==
    \A x \in calls' :
        \/ \E c \in calls : SameCall(x, c)
        \/ \E c \in calls : /\ x.log = c.log /\ x.src = c.src /\ x.peer = c.peer
                            /\ Len(x.log) <= Len(stateLog'[x.peer])
        \/ x.src \in Server /\ x.log = stateLog[x.src] /\ ~x.ok
Grown ==
    /\ SingleHistory /\ ~torn'
    /\ \A n \in Server : Prefix(stateLog[n], stateLog'[n])
    /\ NothingBeyond'
    /\ CallsFrom

LEMMA LogLength ==
  ASSUME TypeOK PROVE \A n \in Server : stateLog[n] \in Log /\ Len(stateLog[n]) \in Nat
<1>1. QED BY LogFacts DEF TypeOK, TypeLog

LEMMA PrefixSame ==
  ASSUME TypeOK PROVE \A n \in Server : Prefix(stateLog[n], stateLog[n])
<1>1. QED BY LogLength DEF Prefix

LEMMA QuietGrown ==
  ASSUME TypeOK, GrowthInv, SingleHistory', UNCHANGED <<stateLog, written, created, torn>>,
         CallsFrom
  PROVE  Grown
<1>1. SingleHistory
  BY DEF SingleHistory
<1>2. ~torn' /\ NothingBeyond'
  BY <1>1 DEF GrowthInv, NothingBeyond
<1>3. QED
  BY <1>1, <1>2, PrefixSame DEF Grown

(* A log that grew has all its array written and no more.                  *)
LEMMA SetLogGrown ==
  ASSUME TypeOK, NothingBeyond, NEW n \in Server, NEW new \in Log, SetLog(n, new),
         Prefix(stateLog[n], new)
  PROVE  /\ \A m \in Server : Prefix(stateLog[m], stateLog'[m])
         /\ NothingBeyond'
<1>1. stateLog \in [Server -> Log] /\ written \in [Server -> 0 .. MaxLog]
  BY DEF TypeOK, TypeLog
<1>2. \A m \in Server : stateLog'[m] = IF m = n THEN new ELSE stateLog[m]
  BY <1>1 DEF SetLog
<1>3. \A m \in Server : written'[m] = IF m = n /\ written[n] < Len(new) THEN Len(new) ELSE written[m]
  BY <1>1 DEF SetLog
<1>4. \A m \in Server : Prefix(stateLog[m], stateLog'[m])
  BY <1>2, PrefixSame
<1>5. Len(new) \in Nat /\ \A m \in Server : Len(stateLog[m]) \in Nat /\ written[m] \in Nat
  BY <1>1, LogLength, LogFacts
<1>6. Len(stateLog[n]) <= Len(new)
  BY DEF Prefix
<1>7. ASSUME NEW m \in Server PROVE written'[m] <= Len(stateLog'[m])
  <2>1. CASE m = n
    <3>1. written[n] <= Len(stateLog[n])
      BY DEF NothingBeyond
    <3>2. QED
      BY <1>2, <1>3, <1>5, <1>6, <2>1, <3>1
  <2>2. CASE m # n
    BY <1>2, <1>3, <2>2 DEF NothingBeyond
  <2>3. QED
    BY <2>1, <2>2
<1>8. QED
  BY <1>4, <1>7 DEF NothingBeyond

LEMMA SubmitGrown ==
  ASSUME TypeOK, HistoryInv, HistoryInv', GrowthInv, SingleHistory',
         NEW n \in Server, NEW v \in Value, Submit(n, v), TypeOK'
  PROVE  Grown
<1> DEFINE old == stateLog[n]
           e   == [term |-> currentTerm[n], value |-> v]
           new == Append(old, e)
<1>1. /\ created' = created \cup {new} /\ SetLog(n, new) /\ Len(old) < MaxLog
  BY DEF Submit
<1>2. old \in Log /\ e \in Entry
  BY DEF TypeOK, TypeLog, TypeTerm, Entry
<1>3. /\ new \in Log /\ Len(new) = Len(old) + 1 /\ Len(old) \in Nat
      /\ \A i \in 1 .. Len(old) : new[i] = old[i]
  BY <1>1, <1>2, AppendEntryType, LogFacts
<1>4. PICK S \in SUBSET Exposed(n, Len(old), new) :
           /\ calls' = (calls \ S) \cup Overwritten(S, Len(old), new)
           /\ torn'  = (torn \/ S # {})
  BY DEF Submit
<1> HIDE DEF new
<1>5. SingleHistory
  BY <1>1, SingleKept
<1>6. ~torn /\ NothingBeyond
  BY <1>5 DEF GrowthInv
<1>7. S = {}
  <2> SUFFICES ASSUME NEW c \in calls, c.src = n PROVE Overlay(c, Len(old), new) = c.log
    BY DEF Exposed
  <2>1. c.log \in Log /\ Len(c.log) <= Len(old)
    BY <1>5, AppendCallFacts DEF TypeOK, AppendCall, GrowthInv, MessagesInLog
  <2>2. Len(c.log) \in Nat /\ c.log \in Seq(Entry)
    BY <2>1, LogFacts
  <2>3. \A i \in 1 .. Len(c.log) : ~(i > Len(old))
    BY <1>3, <2>1, <2>2
  <2>4. Overlay(c, Len(old), new) = [i \in 1 .. Len(c.log) |-> c.log[i]]
    BY <2>3 DEF Overlay
  <2>5. c.log = [i \in 1 .. Len(c.log) |-> c.log[i]]
    BY <2>2
  <2>6. QED
    BY <2>4, <2>5
<1>8. ~torn' /\ calls' = calls
  <2>1. ~torn'
    BY <1>4, <1>6, <1>7, Zenon
  <2>2. Overwritten(S, Len(old), new) = {}
    BY <1>7 DEF Overwritten
  <2>3. QED
    BY <1>4, <1>7, <2>1, <2>2
<1>9. Prefix(old, new)
  BY <1>3 DEF Prefix
<1>10. /\ \A m \in Server : Prefix(stateLog[m], stateLog'[m])
       /\ NothingBeyond'
  BY <1>1, <1>3, <1>6, <1>9, SetLogGrown
<1>11. CallsFrom
  BY <1>8 DEF CallsFrom, SameCall
<1>12. QED
  BY <1>5, <1>8, <1>10, <1>11 DEF Grown

LEMMA AcceptGrown ==
  ASSUME TypeOK, HistoryInv, GrowthInv, SingleHistory', NEW c \in calls, AppendAccept(c)
  PROVE  Grown
<1> DEFINE n   == c.peer
           log == stateLog[n]
           new == Spliced(log, c)
           k   == Kept(log, c)
           d   == [c EXCEPT !.pc = "replied", !.ok = TRUE, !.rterm = c.term, !.lc = 0]
<1>1. created' = created /\ SetLog(n, new)
  BY DEF AppendAccept
<1>2. PICK S \in SUBSET (IF new = log THEN {} ELSE Exposed(n, k, new)) :
           /\ calls' = (calls \ (S \cup {c})) \cup Overwritten(S, k, new) \cup {d}
           /\ torn'  = (torn \/ S # {})
  BY DEF AppendAccept
<1>3. SingleHistory /\ ~torn /\ NothingBeyond /\ UniqueCreated
  BY <1>1, SingleKept, SingleUnique DEF GrowthInv
<1>4. /\ c \in AppendCall /\ n \in Server /\ log \in Log
      /\ c.next <= Len(c.log) /\ PrevMatches(log, c)
  BY AppendCallFacts DEF TypeOK, TypeLog, AppendAccept
<1>5. Recorded(log) /\ (\A x \in calls : Recorded(x.log)) /\ Recorded(c.log)
  BY <1>3, <1>4 DEF HistoryInv
<1>6. new \in Log
  BY <1>4, SplicedType
<1>7. Prefix(log, new)
  BY <1>3, <1>4, <1>5, SplicedGrows
<1>8. Recorded(new)
  <2>1. CASE new = log
    BY <2>1, <1>5
  <2>2. CASE Len(new) = Len(c.log) /\ \A i \in 1 .. Len(c.log) : new[i] = c.log[i]
    <3> HIDE DEF new, log
    <3>1. Len(c.log) \in Nat
      BY <1>4, LogFacts DEF AppendCall
    <3>2. QED
      BY <1>5, <2>2, <3>1 DEF Recorded
  <2>3. QED
    BY <1>3, <1>4, <1>5, <2>1, <2>2, SplicedIsOneOfTwo
<1>9. /\ d.log = c.log /\ d.src = c.src /\ d.peer = c.peer
      /\ Len(c.log) <= Len(new) /\ stateLog'[n] = new
  BY <1>1, <1>4, SplicedCovers DEF AppendCall, SetLog, TypeOK, TypeLog
<1> HIDE DEF new, log, k, d
<1>10. Exposed(n, k, new) = {}
  BY <1>3, <1>5, <1>6, <1>8, NoneExposed
<1>11. S = {}
  BY <1>2, <1>10
<1>12. ~torn' /\ \A x \in calls' : x \in calls \/ x = d
  <2>1. ~torn'
    BY <1>2, <1>3, <1>11, Zenon
  <2>2. Overwritten(S, k, new) = {}
    BY <1>11 DEF Overwritten
  <2>3. QED
    BY <1>2, <2>1, <2>2
<1>13. /\ \A m \in Server : Prefix(stateLog[m], stateLog'[m])
       /\ NothingBeyond'
  BY <1>1, <1>3, <1>4, <1>6, <1>7, SetLogGrown DEF log
<1>14. CallsFrom
  BY <1>9, <1>12 DEF CallsFrom, SameCall
<1>15. QED
  BY <1>3, <1>12, <1>13, <1>14 DEF Grown

(* The other steps of an AppendEntries call keep its source and its log,   *)
(* and refuse it in its own term only for its PrevLogIndex.                *)
LEMMA CallStep ==
  ASSUME TypeOK, NEW c \in calls, AppendNext(c), ~AppendAccept(c)
  PROVE  \/ AppendDone(c)
         \/ \E d : /\ AppendStep(c, d) /\ SameCall(d, c)
                   /\ d.pc = "replied" /\ ~d.ok /\ d.rterm = d.term => d.next > 0
<1>1. c \in AppendCall /\ c.next \in Nat
  BY AppendCallFacts DEF TypeOK, AppendCall, Index
<1>2. CASE SendAppend(c)
  <2> DEFINE d == [c EXCEPT !.pc = "sent", !.lc = commitIndex[c.src]]
  <2>1. SameCall(d, c) /\ d.pc # "replied" /\ AppendStep(c, d)
    BY <1>1, <1>2 DEF SendAppend, AppendCall, SameCall
  <2> HIDE DEF d
  <2>2. QED
    BY <2>1
<1>3. CASE ReceiveAppend(c)
  <2> DEFINE d == [c EXCEPT !.pc =
                       IF c.term > currentTerm[c.peer] THEN "demote" ELSE "recheck"]
  <2>1. SameCall(d, c) /\ d.pc # "replied"
    BY <1>1 DEF AppendCall, SameCall
  <2>2. AppendDone(c) \/ AppendStep(c, d)
    BY <1>3 DEF ReceiveAppend
  <2> HIDE DEF d
  <2>3. QED
    BY <2>1, <2>2
<1>4. CASE AppendDemote(c)
  <2> DEFINE d == [c EXCEPT !.pc = "recheck"]
  <2>1. SameCall(d, c) /\ d.pc # "replied"
    BY <1>1 DEF AppendCall, SameCall
  <2>2. AppendStep(c, d)
    BY <1>4 DEF AppendDemote
  <2> HIDE DEF d
  <2>3. QED
    BY <2>1, <2>2
<1>5. CASE AppendRecheck(c)
  <2>1. CASE c.term # currentTerm[c.peer]
    <3> DEFINE d == [c EXCEPT !.pc = "replied", !.rterm = currentTerm[c.peer]]
    <3>1. /\ SameCall(d, c) /\ d.rterm # d.term /\ AppendStep(c, d)
      BY <1>1, <1>5, <2>1 DEF AppendRecheck, AppendCall, SameCall
    <3> HIDE DEF d
    <3>2. QED
      BY <3>1
  <2>2. CASE c.term = currentTerm[c.peer]
    <3> DEFINE d == [c EXCEPT !.pc = IF state[c.peer] = "Follower" THEN "append" ELSE "stepdown"]
    <3>1. /\ SameCall(d, c) /\ d.pc # "replied" /\ AppendStep(c, d)
      BY <1>1, <1>5, <2>2 DEF AppendRecheck, AppendCall, SameCall
    <3> HIDE DEF d
    <3>2. QED
      BY <3>1
  <2>3. QED
    BY <2>1, <2>2
<1>6. CASE AppendStepDown(c)
  <2> DEFINE d == [c EXCEPT !.pc = "append"]
  <2>1. SameCall(d, c) /\ d.pc # "replied"
    BY <1>1 DEF AppendCall, SameCall
  <2>2. AppendStep(c, d)
    BY <1>6 DEF AppendStepDown
  <2> HIDE DEF d
  <2>3. QED
    BY <2>1, <2>2
<1>7. CASE AppendRefuse(c)
  <2>1. c.next > 0
    BY <1>7 DEF AppendRefuse, PrevMatches
  <2> DEFINE d == [c EXCEPT !.pc = "replied", !.rterm = c.term, !.lc = 0]
  <2>2. SameCall(d, c) /\ d.next = c.next
    BY <1>1 DEF AppendCall, SameCall
  <2>3. AppendStep(c, d)
    BY <1>7 DEF AppendRefuse
  <2> HIDE DEF d
  <2>4. QED
    BY <2>1, <2>2, <2>3
<1>8. QED
  BY <1>2, <1>3, <1>4, <1>5, <1>6, <1>7 DEF AppendNext, LoseAppend,
     AppendReplyNewTerm, AppendReplySuccess, AppendReplyReject, AppendReplyIgnored

LEMMA QuietAppend ==
  ASSUME NEW c \in calls, AppendNext(c), ~AppendAccept(c)
  PROVE  UNCHANGED <<stateLog, written, created, torn, applied, lastApplied>>
<1>1. UNCHANGED <<logVars, applied, lastApplied>>
  BY DEF AppendNext, SendAppend, LoseAppend, AppendReplyNewTerm, AppendReplySuccess,
     AppendReplyReject, AppendReplyIgnored, ReceiveAppend, AppendDemote, AppendRecheck,
     AppendStepDown, AppendRefuse, commitVars
<1>2. QED
  BY <1>1 DEF logVars

(* Steps that touch neither a log nor a message.                           *)
LEMMA QuietOthers ==
  ASSUME \/ \E n \in Server : ServerNext(n) /\ ~\E v \in Value : Submit(n, v)
         \/ \E s \in starting : BecomeCandidate(s)
         \/ \E c \in voteCalls : VoteNext(c)
         \/ UNCHANGED vars
  PROVE  UNCHANGED <<stateLog, written, created, torn, calls, nextIndex>>
<1>1. CASE \E n \in Server : ServerNext(n) /\ ~\E v \in Value : Submit(n, v)
  BY <1>1 DEF ServerNext, ElectionTimeout, groupBroadcast, HeartbeatTick, ApplyCommits,
     Shutdown, logVars, appendVars, leaderVars
<1>2. CASE \E s \in starting : BecomeCandidate(s)
  BY <1>2 DEF BecomeCandidate, logVars, appendVars, leaderVars
<1>3. CASE \E c \in voteCalls : VoteNext(c)
  <2>1. UNCHANGED <<logVars, appendVars, leaderVars>>
    BY <1>3, Zenon DEF VoteNext, SendVote, LoseVote, HandleVoteReply, gotVote,
       Withdraw, CountVote,
       StartLeader, ReceiveVote, VoteDemote, VoteReadLog, DecideVote
  <2>2. QED
    BY <2>1 DEF logVars, appendVars, leaderVars
<1>4. CASE UNCHANGED vars
  BY <1>4 DEF vars, logVars, appendVars, leaderVars
<1>5. QED
  BY <1>1, <1>2, <1>3, <1>4

LEMMA NextGrown ==
  ASSUME TypeOK, TypeOK', HistoryInv, HistoryInv', GrowthInv, SingleHistory', [Next]_vars
  PROVE  Grown
<1>1. ASSUME NEW n \in Server, NEW v \in Value, Submit(n, v) PROVE Grown
  BY <1>1, SubmitGrown
<1>2. ASSUME NEW c \in calls, AppendNext(c) PROVE Grown
  <2>1. CASE AppendAccept(c)
    BY <2>1, AcceptGrown
  <2>2. CASE ~AppendAccept(c)
    <3>1. \A x \in calls' : \E y \in calls : SameCall(x, y)
      BY <1>2, <2>2, CallStep DEF AppendDone, AppendStep, SameCall
    <3>2. CallsFrom
      BY <3>1 DEF CallsFrom
    <3>3. QED
      BY <1>2, <2>2, <3>2, QuietAppend, QuietGrown
  <2>3. QED
    BY <2>1, <2>2
<1>3. ASSUME NEW g \in pending, BuildAppend(g) PROVE Grown
  <2>1. g.src \in Server /\ UNCHANGED <<stateLog, written, created, torn>>
    BY <1>3 DEF TypeOK, TypeAppend, BuildAppend, logVars
  <2>2. \A x \in calls' : x \in calls \/ (x.log = stateLog[g.src] /\ x.src = g.src /\ ~x.ok)
    BY <1>3 DEF BuildAppend
  <2>3. CallsFrom
    BY <2>1, <2>2 DEF CallsFrom, SameCall
  <2>4. QED
    BY <2>1, <2>3, QuietGrown
<1>4. CASE UNCHANGED <<stateLog, written, created, torn, calls>>
  <2>1. CallsFrom
    BY <1>4 DEF CallsFrom, SameCall
  <2>2. QED
    BY <1>4, <2>1, QuietGrown
<1>5. QED
  BY <1>1, <1>2, <1>3, <1>4, QuietOthers DEF Next

-----------------------------------------------------------------------------
(* Refusals                                                                *)

LEMMA RefusedNext ==
  ASSUME TypeOK, RefusedInv, [Next]_vars PROVE RefusedInv'
<1> DEFINE Good(x) == x.pc = "replied" /\ ~x.ok /\ x.rterm = x.term => x.next > 0
<1>1. \A x \in calls : Good(x)
  BY DEF RefusedInv
<1> SUFFICES \A x \in calls' : Good(x)
  BY DEF RefusedInv
<1>2. ASSUME NEW n \in Server, NEW v \in Value, Submit(n, v) PROVE \A x \in calls' : Good(x)
  <2> DEFINE new == Append(stateLog[n], [term |-> currentTerm[n], value |-> v])
  <2>1. PICK S \in SUBSET Exposed(n, Len(stateLog[n]), new) :
             calls' = (calls \ S) \cup Overwritten(S, Len(stateLog[n]), new)
    BY <1>2 DEF Submit
  <2>2. \A x \in Overwritten(S, Len(stateLog[n]), new) : x.pc = "built"
    <3> SUFFICES ASSUME NEW c \in S
                 PROVE  [c EXCEPT !.log = Overlay(c, Len(stateLog[n]), new)].pc = "built"
      BY DEF Overwritten
    <3>1. c \in AppendCall /\ c.pc = "built"
      BY <2>1, AppendCallFacts DEF TypeOK, Exposed
    <3>2. QED
      BY <3>1 DEF AppendCall
  <2> HIDE DEF new
  <2>3. QED
    BY <1>1, <2>1, <2>2
<1>3. ASSUME NEW c \in calls, AppendNext(c) PROVE \A x \in calls' : Good(x)
  <2>1. CASE AppendAccept(c)
    <3> DEFINE log == stateLog[c.peer]
               new == Spliced(log, c)
               k   == Kept(log, c)
               d   == [c EXCEPT !.pc = "replied", !.ok = TRUE, !.rterm = c.term, !.lc = 0]
    <3>1. PICK S \in SUBSET (IF new = log THEN {} ELSE Exposed(c.peer, k, new)) :
               calls' = (calls \ (S \cup {c})) \cup Overwritten(S, k, new) \cup {d}
      BY <2>1 DEF AppendAccept
    <3>2. c \in AppendCall
      BY AppendCallFacts DEF TypeOK
    <3>3. d.ok
      BY <3>2 DEF AppendCall
    <3>4. \A x \in Overwritten(S, k, new) : x.pc = "built"
      <4> SUFFICES ASSUME NEW y \in S PROVE [y EXCEPT !.log = Overlay(y, k, new)].pc = "built"
        BY DEF Overwritten
      <4>1. y \in AppendCall /\ y.pc = "built"
        BY <3>1, AppendCallFacts DEF TypeOK, Exposed
      <4>2. QED
        BY <4>1 DEF AppendCall
    <3> HIDE DEF new, k, d, log
    <3>5. QED
      BY <1>1, <3>1, <3>3, <3>4
  <2>2. CASE ~AppendAccept(c)
    BY <1>1, <1>3, <2>2, CallStep DEF AppendDone, AppendStep
  <2>3. QED
    BY <2>1, <2>2
<1>4. ASSUME NEW g \in pending, BuildAppend(g) PROVE \A x \in calls' : Good(x)
  <2>1. \A x \in calls' : x \in calls \/ x.pc = "built"
    BY <1>4 DEF BuildAppend
  <2>2. QED
    BY <1>1, <2>1
<1>5. CASE UNCHANGED calls
  BY <1>1, <1>5
<1> HIDE DEF Good
<1>6. QED
  BY <1>2, <1>3, <1>4, <1>5, QuietOthers DEF Next

-----------------------------------------------------------------------------
(* Messages and nextIndex stay within the log                              *)

LEMMA LengthGrows ==
  ASSUME TypeOK, TypeOK', Grown
  PROVE  \A n \in Server : /\ Len(stateLog[n]) \in Nat /\ Len(stateLog'[n]) \in Nat
                            /\ Len(stateLog[n]) <= Len(stateLog'[n])
<1>1. \A n \in Server : stateLog[n] \in Log /\ stateLog'[n] \in Log
  BY DEF TypeOK, TypeLog
<1>2. QED
  BY <1>1, LogFacts DEF Grown, Prefix

LEMMA MessagesNext ==
  ASSUME TypeOK, TypeOK', Grown, MessagesInLog PROVE MessagesInLog'
<1> SUFFICES ASSUME NEW x \in calls' PROVE Len(x.log) <= Len(stateLog'[x.src])
  BY DEF MessagesInLog
<1>1. x.src \in Server /\ Len(x.log) \in Nat
  <2>1. x \in AppendCall
    BY DEF TypeOK, TypeAppend
  <2>2. QED
    BY <2>1, LogFacts DEF AppendCall
<1>2. Len(x.log) <= Len(stateLog[x.src])
  <2>1. CASE \E c \in calls : x.log = c.log /\ x.src = c.src
    BY <2>1 DEF MessagesInLog
  <2>2. CASE x.log = stateLog[x.src]
    BY <1>1, <2>2
  <2>3. QED
    BY <2>1, <2>2 DEF Grown, CallsFrom, SameCall
<1>3. QED
  BY <1>1, <1>2, LengthGrows

LEMMA NextIndexNext ==
  ASSUME TypeOK, TypeOK', Grown, GrowthInv, RefusedInv, [Next]_vars PROVE NextInLog'
<1>0. SingleHistory /\ MessagesInLog /\ NextInLog
  BY DEF Grown, GrowthInv
<1>1. \A n, p \in Server : nextIndex[n][p] \in Nat
  BY DEF TypeOK, TypeLeader, Index
<1>2. ASSUME \A n, p \in Server : nextIndex'[n][p] \in Nat /\ nextIndex'[n][p] <= Len(stateLog[n])
      PROVE  NextInLog'
  <2> SUFFICES ASSUME NEW n \in Server, NEW p \in Server
               PROVE  nextIndex'[n][p] <= Len(stateLog'[n])
    BY DEF NextInLog
  <2>1. QED
    BY <1>2, LengthGrows
<1>3. CASE UNCHANGED nextIndex
  BY <1>0, <1>1, <1>2, <1>3 DEF NextInLog
<1>4. ASSUME NEW c \in calls, NEW i \in Nat, i <= Len(c.log),
             nextIndex' = [nextIndex EXCEPT ![c.src] = [@ EXCEPT ![c.peer] = i]]
      PROVE  NextInLog'
  <2>1. c.src \in Server /\ c.peer \in Server /\ Len(c.log) \in Nat
    <3>1. c \in AppendCall
      BY AppendCallFacts DEF TypeOK
    <3>2. QED
      BY <3>1, LogFacts DEF AppendCall
  <2>2. i <= Len(stateLog[c.src])
    <3>1. Len(c.log) <= Len(stateLog[c.src]) /\ Len(stateLog[c.src]) \in Nat
      BY <1>0, <2>1, LogLength DEF MessagesInLog
    <3>2. QED
      BY <1>4, <2>1, <3>1
  <2>3. nextIndex \in [Server -> [Server -> Index]]
    BY DEF TypeOK, TypeLeader
  <2>4. \A n, p \in Server :
           nextIndex'[n][p] = IF n = c.src /\ p = c.peer THEN i ELSE nextIndex[n][p]
    BY <1>4, <2>1, <2>3
  <2>5. QED
    BY <1>0, <1>1, <1>2, <2>2, <2>4 DEF NextInLog
<1>5. ASSUME NEW c \in calls, AppendNext(c) PROVE NextInLog'
  <2>0. /\ c \in AppendCall /\ c.log \in Log /\ Len(c.log) \in Nat
        /\ c.next \in Nat /\ c.next <= Len(c.log)
    <3>1. c \in AppendCall /\ c.log \in Log /\ c.next \in Nat /\ c.next <= Len(c.log)
      BY AppendCallFacts DEF TypeOK, AppendCall, Index
    <3>2. QED
      BY <3>1, LogFacts
  <2>1. CASE AppendReplySuccess(c)
    <3>1. nextIndex' = [nextIndex EXCEPT ![c.src] = [@ EXCEPT ![c.peer] = Len(c.log)]]
      BY <2>1 DEF AppendReplySuccess, NextAfter
    <3>2. Len(c.log) <= Len(c.log)
      BY <2>0
    <3>3. QED
      BY <1>4, <2>0, <3>1, <3>2
  <2>2. CASE AppendReplyReject(c)
    <3>1. c.next > 0
      BY <2>2 DEF AppendReplyReject, RefusedInv
    <3>2. Dec(c.next) \in Nat /\ Dec(c.next) <= Len(c.log)
      BY <2>0, <3>1 DEF Dec
    <3>3. nextIndex' = [nextIndex EXCEPT ![c.src] = [@ EXCEPT ![c.peer] = Dec(c.next)]]
      BY <2>2 DEF AppendReplyReject
    <3>4. QED
      BY <1>4, <3>2, <3>3
  <2>3. CASE ~AppendReplySuccess(c) /\ ~AppendReplyReject(c)
    <3>1. UNCHANGED nextIndex
      BY <1>5, <2>3 DEF AppendNext, SendAppend, LoseAppend, AppendReplyNewTerm,
         AppendReplyIgnored, ReceiveAppend, AppendDemote, AppendRecheck,
         AppendStepDown, AppendAccept, AppendRefuse, leaderVars
    <3>2. QED
      BY <1>3, <3>1
  <2>4. QED
    BY <2>1, <2>2, <2>3
<1>6. ASSUME NEW n \in Server, NEW v \in Value, Submit(n, v) PROVE UNCHANGED nextIndex
  BY <1>6 DEF Submit, leaderVars
<1>7. ASSUME NEW g \in pending, BuildAppend(g) PROVE UNCHANGED nextIndex
  BY <1>7 DEF BuildAppend, leaderVars
<1>8. QED
  BY <1>3, <1>5, <1>6, <1>7, QuietOthers DEF Next

-----------------------------------------------------------------------------
(* What is applied is the beginning of the log                             *)

LEMMA PrefixChain ==
  ASSUME NEW a, NEW b, NEW c, Len(a) \in Nat, Len(b) \in Nat, Len(c) \in Nat,
         Prefix(a, b), Prefix(b, c)
  PROVE  Prefix(a, c)
<1>1. Len(a) <= Len(b) /\ Len(b) <= Len(c)
  BY DEF Prefix
<1>2. \A i \in 1 .. Len(a) : i \in 1 .. Len(b)
  BY <1>1
<1>3. QED
  BY <1>1, <1>2 DEF Prefix

LEMMA AppliedLength ==
  ASSUME TypeOK PROVE \A n \in Server : Len(applied[n]) \in Nat
<1>1. \A n \in Server : applied[n] \in Seq(Entry \cup {Stale})
  BY DEF TypeOK, TypeCommit
<1>2. QED
  BY <1>1, LenProperties

(* A process that a panic ended does not come back.                        *)
LEMMA FaultKept ==
  ASSUME TypeOK, [Next]_vars PROVE \A n \in Server : Up(n)' => Up(n)
<1>0. fault \in [Server -> {"none", "slice", "overrun", "closed"}]
  BY DEF TypeOK, TypeProc
<1>1. ASSUME NEW m \in Server, NEW i, SetCommit(m, i) PROVE \A n \in Server : Up(n)' => Up(n)
  BY <1>0, <1>1 DEF SetCommit, Up
<1>2. CASE UNCHANGED fault
  BY <1>2 DEF Up
<1>3. ASSUME NEW c \in calls, AppendNext(c) PROVE \A n \in Server : Up(n)' => Up(n)
  <2>0. c.src \in Server /\ c.peer \in Server
    BY AppendCallFacts DEF TypeOK, AppendCall
  <2>1. CASE AppendReplySuccess(c) \/ AppendAccept(c)
    <3>1. \/ UNCHANGED fault \/ \E i : SetCommit(c.src, i) \/ SetCommit(c.peer, i)
      BY <2>1 DEF AppendReplySuccess, AppendAccept
    <3>2. QED
      BY <1>1, <1>2, <2>0, <3>1
  <2>2. CASE ~(AppendReplySuccess(c) \/ AppendAccept(c))
    <3>1. UNCHANGED fault
      BY <1>3, <2>2 DEF AppendNext, SendAppend, LoseAppend, AppendReplyNewTerm,
         AppendReplyIgnored, AppendReplyReject, ReceiveAppend, AppendDemote, AppendRecheck,
         AppendStepDown, AppendRefuse, procVars
    <3>2. QED
      BY <1>2, <3>1
  <2>3. QED
    BY <2>1, <2>2
<1>4. ASSUME NEW g \in pending, BuildAppend(g) PROVE \A n \in Server : Up(n)' => Up(n)
  <2>1. UNCHANGED fault \/ fault' = [fault EXCEPT ![g.src] = "slice"]
    BY <1>4 DEF BuildAppend
  <2>2. QED
    BY <1>0, <2>1 DEF Up
<1>5. ASSUME NEW m \in Server, ServerNext(m) PROVE \A n \in Server : Up(n)' => Up(n)
  <2>1. \/ UNCHANGED fault \/ fault' = [fault EXCEPT ![m] = "overrun"]
        \/ fault' = [fault EXCEPT ![m] = IF m \in closed THEN "closed" ELSE @]
    BY <1>5 DEF ServerNext, ElectionTimeout, groupBroadcast, HeartbeatTick, ApplyCommits,
       Shutdown, Submit, procVars
  <2>2. QED
    BY <1>0, <2>1 DEF Up
<1>6. ASSUME NEW s \in starting, BecomeCandidate(s) PROVE UNCHANGED fault
  BY <1>6 DEF BecomeCandidate, procVars
<1>7. ASSUME NEW c \in voteCalls, VoteNext(c) PROVE UNCHANGED fault
  <2>1. UNCHANGED procVars
    BY <1>7, Zenon DEF VoteNext, SendVote, LoseVote, HandleVoteReply, gotVote,
       Withdraw, CountVote,
       StartLeader, ReceiveVote, VoteDemote, VoteReadLog, DecideVote
  <2>2. QED
    BY <2>1 DEF procVars
<1>8. ASSUME UNCHANGED vars PROVE UNCHANGED fault
  BY <1>8 DEF vars, procVars
<1>9. QED
  BY <1>2, <1>3, <1>4, <1>5, <1>6, <1>7, <1>8 DEF Next

(* The next k entries of the log, pushed after the first lo of them.       *)
LEMMA PushedPrefix ==
  ASSUME NEW T, NEW a \in Seq(T), NEW log, NEW p \in Seq(T), NEW k \in Nat,
         Len(log) \in Nat, Prefix(a, log), Len(p) = k, Len(a) + k <= Len(log),
         \A i \in 1 .. k : p[i] = log[Len(a) + i]
  PROVE  Prefix(a \o p, log) /\ Len(a \o p) = Len(a) + k
<1>1. Len(a) \in Nat
  BY LenProperties
<1>2. /\ Len(a \o p) = Len(a) + k
      /\ \A i \in 1 .. Len(a) + k : (a \o p)[i] = IF i <= Len(a) THEN a[i] ELSE p[i - Len(a)]
  BY ConcatProperties
<1>3. ASSUME NEW i \in 1 .. Len(a) + k PROVE (a \o p)[i] = log[i]
  <2>1. CASE i <= Len(a)
    <3>1. i \in 1 .. Len(a)
      BY <1>1, <2>1
    <3>2. QED
      BY <1>2, <2>1, <3>1 DEF Prefix
  <2>2. CASE ~(i <= Len(a))
    <3>1. i - Len(a) \in 1 .. k /\ Len(a) + (i - Len(a)) = i
      BY <1>1, <2>2
    <3>2. p[i - Len(a)] = log[Len(a) + (i - Len(a))]
      BY <3>1
    <3>3. (a \o p)[i] = p[i - Len(a)]
      BY <1>2, <2>2
    <3>4. QED
      BY <3>1, <3>2, <3>3
  <2>3. QED
    BY <2>1, <2>2
<1>4. QED
  BY <1>2, <1>3 DEF Prefix

LEMMA ApplyKeeps ==
  ASSUME TypeOK, NothingBeyond, AppliedInLog, NEW n \in Server, ApplyCommits(n)
  PROVE  /\ \A m \in Server \ {n} : applied'[m] = applied[m] /\ lastApplied'[m] = lastApplied[m]
         /\ Prefix(applied'[n], stateLog[n]) /\ Len(applied[n]) <= Len(applied'[n])
         /\ Up(n)' => Len(applied'[n]) = Inc(lastApplied'[n])
<1> DEFINE lo  == Inc(lastApplied[n])
           hi  == Inc(commitIndex[n])
           a   == applied[n]
           log == stateLog[n]
           Pushed(k) == [i \in 1 .. k |-> IF lo + i <= Len(log) THEN log[lo + i] ELSE Stale]
           T == Entry \cup {Stale}
<1>1. /\ a \in Seq(T) /\ log \in Log /\ Len(log) \in Nat /\ Len(a) \in Nat
      /\ applied \in [Server -> Seq(T)] /\ lastApplied \in [Server -> Index]
      /\ written[n] \in Nat /\ fault \in [Server -> {"none", "slice", "overrun", "closed"}]
  BY LogLength, AppliedLength DEF TypeOK, TypeCommit, TypeLog, TypeProc
<1>2. lo \in Nat /\ hi \in Nat
  BY RaftAssumption DEF TypeOK, TypeCommit, Inc, Index
<1>3. lo = Len(a) /\ Prefix(a, log) /\ written[n] <= Len(log) /\ lo <= Len(log)
  BY DEF AppliedInLog, NothingBeyond, ApplyCommits, Prefix
<1>4. ASSUME NEW k \in Nat, lo + k <= Len(log)
      PROVE  Prefix(a \o Pushed(k), log) /\ Len(a \o Pushed(k)) = lo + k
  <2> HIDE DEF lo, a, log, T
  <2>1. \A i \in 1 .. k : lo + i <= Len(log) /\ lo + i \in 1 .. Len(log)
    BY <1>1, <1>2, <1>4
  <2>2. \A i \in 1 .. Len(log) : log[i] \in T
    BY <1>1, LogFacts DEF T
  <2>3. Pushed(k) = [i \in 1 .. k |-> log[lo + i]]
    BY <2>1
  <2> HIDE DEF Pushed
  <2>4. Pushed(k) \in Seq(T) /\ Len(Pushed(k)) = k /\ \A i \in 1 .. k : Pushed(k)[i] = log[lo + i]
    <3>1. Pushed(k) \in [1 .. k -> T]
      BY <2>1, <2>2, <2>3
    <3>2. QED
      BY <2>3, <3>1
  <2>5. QED
    BY <1>1, <1>3, <1>4, <2>4, PushedPrefix, ZenonT(60)
<1>5. \/ /\ lo <= hi /\ hi <= written[n]
         /\ lastApplied' = [lastApplied EXCEPT ![n] = commitIndex[n]]
         /\ applied' = [applied EXCEPT ![n] = a \o Pushed(hi - lo)]
      \/ /\ fault' = [fault EXCEPT ![n] = "overrun"]
         /\ lastApplied' = lastApplied
         /\ \E k \in 0 .. written[n] :
               /\ k > 0 => lo + k <= written[n]
               /\ applied' = [applied EXCEPT ![n] = a \o Pushed(k)]
  BY DEF ApplyCommits, FirstUnapplied
<1> HIDE DEF lo, hi, a, log, Pushed, T
<1>6. CASE /\ lo <= hi /\ hi <= written[n]
           /\ lastApplied' = [lastApplied EXCEPT ![n] = commitIndex[n]]
           /\ applied' = [applied EXCEPT ![n] = a \o Pushed(hi - lo)]
  <2>1. hi - lo \in Nat /\ lo + (hi - lo) = hi /\ hi <= Len(log)
    BY <1>1, <1>2, <1>3, <1>6
  <2>2. Prefix(a \o Pushed(hi - lo), log) /\ Len(a \o Pushed(hi - lo)) = hi
    BY <1>4, <2>1
  <2>3. applied'[n] = a \o Pushed(hi - lo) /\ lastApplied'[n] = commitIndex[n]
    BY <1>1, <1>6
  <2>4. \A m \in Server \ {n} : applied'[m] = applied[m] /\ lastApplied'[m] = lastApplied[m]
    BY <1>1, <1>6
  <2>5. Len(a) <= Len(applied'[n])
    BY <1>1, <1>3, <1>6, <2>2, <2>3
  <2>6. QED
    BY <2>2, <2>3, <2>4, <2>5 DEF log, hi, a
<1>7. ASSUME NEW k \in 0 .. written[n], k > 0 => lo + k <= written[n],
             applied' = [applied EXCEPT ![n] = a \o Pushed(k)],
             fault' = [fault EXCEPT ![n] = "overrun"], lastApplied' = lastApplied
      PROVE  /\ \A m \in Server \ {n} : applied'[m] = applied[m] /\ lastApplied'[m] = lastApplied[m]
             /\ Prefix(applied'[n], log) /\ Len(a) <= Len(applied'[n]) /\ ~Up(n)'
  <2>1. k \in Nat /\ lo + k <= Len(log)
    BY <1>1, <1>2, <1>3, <1>7
  <2>2. Prefix(a \o Pushed(k), log) /\ Len(a \o Pushed(k)) = lo + k
    BY <1>4, <2>1
  <2>3. applied'[n] = a \o Pushed(k) /\ ~Up(n)'
    BY <1>1, <1>7 DEF Up
  <2>4. Len(a) <= Len(applied'[n])
    BY <1>1, <1>2, <1>3, <2>1, <2>2, <2>3
  <2>5. QED
    BY <1>1, <1>7, <2>2, <2>3, <2>4
<1>8. QED
  BY <1>5, <1>6, <1>7 DEF log, a

(* Only a turn of commitChannel applies anything.                          *)
LEMMA QuietApplied ==
  ASSUME [Next]_vars, ~\E n \in Server : ApplyCommits(n)
  PROVE  UNCHANGED <<applied, lastApplied>>
<1>1. ASSUME NEW c \in calls, AppendNext(c) PROVE UNCHANGED <<applied, lastApplied>>
  <2>1. CASE AppendAccept(c)
    BY <2>1 DEF AppendAccept
  <2>2. QED
    BY <1>1, <2>1, QuietAppend
<1>2. ASSUME NEW m \in Server, ServerNext(m)
      PROVE  UNCHANGED <<applied, lastApplied>>
  BY <1>2 DEF ServerNext, ElectionTimeout, groupBroadcast, HeartbeatTick, Shutdown, Submit,
     commitVars
<1>3. ASSUME \/ \E g \in pending : BuildAppend(g)
             \/ \E s \in starting : BecomeCandidate(s)
             \/ UNCHANGED vars
      PROVE  UNCHANGED <<applied, lastApplied>>
  BY <1>3 DEF BuildAppend, BecomeCandidate, vars, commitVars
<1>4. ASSUME NEW c \in voteCalls, VoteNext(c) PROVE UNCHANGED <<applied, lastApplied>>
  <2>1. UNCHANGED commitVars
    BY <1>4, Zenon DEF VoteNext, SendVote, LoseVote, HandleVoteReply, gotVote,
       Withdraw, CountVote,
       StartLeader, ReceiveVote, VoteDemote, VoteReadLog, DecideVote
  <2>2. QED
    BY <2>1 DEF commitVars
<1>5. QED
  BY <1>1, <1>2, <1>3, <1>4 DEF Next

LEMMA AppliedNext ==
  ASSUME TypeOK, TypeOK', Grown, GrowthInv, [Next]_vars PROVE AppliedInLog'
<1>0. SingleHistory /\ NothingBeyond /\ AppliedInLog
  BY DEF Grown, GrowthInv
<1>1. \A n \in Server : Len(applied[n]) \in Nat /\ Len(applied'[n]) \in Nat
  <2>1. \A n \in Server : applied'[n] \in Seq(Entry \cup {Stale})
    BY DEF TypeOK, TypeCommit
  <2>2. QED
    BY <2>1, AppliedLength, LenProperties
<1>2. CASE UNCHANGED <<applied, lastApplied>>
  <2> SUFFICES ASSUME NEW n \in Server
               PROVE  /\ Prefix(applied[n], stateLog'[n])
                      /\ Up(n)' => Len(applied[n]) = Inc(lastApplied[n])
    BY <1>2 DEF AppliedInLog
  <2>1. Prefix(applied[n], stateLog[n]) /\ Prefix(stateLog[n], stateLog'[n])
    BY <1>0 DEF AppliedInLog, Grown
  <2>2. Prefix(applied[n], stateLog'[n])
    BY <1>1, <2>1, LengthGrows, PrefixChain
  <2>3. QED
    BY <1>0, <2>2, FaultKept DEF AppliedInLog
<1>3. ASSUME NEW m \in Server, ApplyCommits(m) PROVE AppliedInLog'
  <2> SUFFICES ASSUME NEW n \in Server
               PROVE  /\ Prefix(applied'[n], stateLog'[n])
                      /\ Up(n)' => Len(applied'[n]) = Inc(lastApplied'[n])
    BY DEF AppliedInLog
  <2>1. stateLog' = stateLog
    BY <1>3 DEF ApplyCommits, logVars
  <2>2. CASE n = m
    BY <1>0, <1>3, <2>1, <2>2, ApplyKeeps
  <2>3. CASE n # m
    <3>1. applied'[n] = applied[n] /\ lastApplied'[n] = lastApplied[n]
      BY <1>0, <1>3, <2>3, ApplyKeeps
    <3>2. QED
      BY <1>0, <2>1, <3>1, FaultKept DEF AppliedInLog
  <2>4. QED
    BY <2>2, <2>3
<1>4. QED
  BY <1>2, <1>3, QuietApplied

-----------------------------------------------------------------------------
(* Acknowledgements and commits stay within the log                        *)

LEMMA AnswersNext ==
  ASSUME TypeOK, TypeOK', Grown, AnswersInLog PROVE AnswersInLog'
<1> SUFFICES ASSUME NEW x \in calls', x.ok PROVE Len(x.log) <= Len(stateLog'[x.peer])
  BY DEF AnswersInLog
<1>1. x.peer \in Server /\ Len(x.log) \in Nat
  <2>1. x \in AppendCall
    BY DEF TypeOK, TypeAppend
  <2>2. QED
    BY <2>1, LogFacts DEF AppendCall
<1>2. CASE \E c \in calls : SameCall(x, c)
  <2>1. Len(x.log) <= Len(stateLog[x.peer])
    BY <1>2 DEF SameCall, AnswersInLog
  <2>2. QED
    BY <1>1, <2>1, LengthGrows
<1>3. QED
  BY <1>2 DEF Grown, CallsFrom

(* The steps that leave matchIndex and commitIndex.                        *)
LEMMA QuietIndices ==
  ASSUME [Next]_vars,
         ~\E c \in calls : AppendReplySuccess(c) \/ AppendAccept(c)
  PROVE  UNCHANGED <<matchIndex, commitIndex>>
<1>1. CASE \E c \in calls : AppendNext(c)
  <2>1. UNCHANGED <<matchIndex, commitVars>>
    BY <1>1 DEF AppendNext, SendAppend, LoseAppend, AppendReplyNewTerm,
       AppendReplyIgnored, AppendReplyReject, ReceiveAppend, AppendDemote, AppendRecheck,
       AppendStepDown, AppendRefuse, leaderVars
  <2>2. QED
    BY <2>1 DEF commitVars
<1>2. CASE \E n \in Server : ServerNext(n)
  BY <1>2 DEF ServerNext, ElectionTimeout, groupBroadcast, HeartbeatTick, ApplyCommits,
     Shutdown, Submit, leaderVars, commitVars
<1>3. CASE \E c \in voteCalls : VoteNext(c)
  <2>1. UNCHANGED <<leaderVars, commitVars>>
    BY <1>3, Zenon DEF VoteNext, SendVote, LoseVote, HandleVoteReply, gotVote,
       Withdraw, CountVote,
       StartLeader, ReceiveVote, VoteDemote, VoteReadLog, DecideVote
  <2>2. QED
    BY <2>1 DEF leaderVars, commitVars
<1>4. CASE \/ \E s \in starting : BecomeCandidate(s)
           \/ \E g \in pending : BuildAppend(g)
           \/ UNCHANGED vars
  BY <1>4 DEF BecomeCandidate, BuildAppend, vars, leaderVars, commitVars
<1>5. QED
  BY <1>1, <1>2, <1>3, <1>4 DEF Next

LEMMA AckedNext ==
  ASSUME TypeOK, TypeOK', Grown, MessagesInLog, AnswersInLog, AckedInLog, [Next]_vars
  PROVE  AckedInLog'
<1>1. \A n, p \in Server : matchIndex[n][p] \in Nat /\ matchIndex'[n][p] \in Nat
  BY DEF TypeOK, TypeLeader, Index
<1>2. ASSUME NEW n \in Server, NEW p \in Server, NEW i \in Nat,
             i < Len(stateLog[p]), i < Len(stateLog[n])
      PROVE  i < Len(stateLog'[p]) /\ i < Len(stateLog'[n])
  BY <1>2, LengthGrows
<1>3. CASE UNCHANGED matchIndex
  BY <1>1, <1>2, <1>3 DEF AckedInLog
<1>4. ASSUME NEW c \in calls, AppendReplySuccess(c) PROVE AckedInLog'
  <2>1. c \in AppendCall /\ c.src \in Server /\ c.peer \in Server /\ Len(c.log) \in Nat
    <3>1. c \in AppendCall
      BY AppendCallFacts DEF TypeOK
    <3>2. QED
      BY <3>1, LogFacts DEF AppendCall
  <2>2. /\ Len(c.log) <= Len(stateLog[c.peer]) /\ Len(c.log) <= Len(stateLog[c.src])
        /\ Len(stateLog[c.peer]) \in Nat /\ Len(stateLog[c.src]) \in Nat
    BY <1>4, <2>1, LogLength DEF AppendReplySuccess, AnswersInLog, MessagesInLog
  <2> DEFINE i == Dec(Len(c.log))
  <2>3. i = MaxUint64 \/ (i \in Nat /\ i < Len(c.log))
    BY <2>1 DEF Dec
  <2>4. i # MaxUint64 => i \in Nat /\ i < Len(stateLog[c.peer]) /\ i < Len(stateLog[c.src])
    BY <2>1, <2>2, <2>3
  <2>5. matchIndex' = [matchIndex EXCEPT ![c.src] = [matchIndex[c.src] EXCEPT ![c.peer] = i]]
    BY <1>4 DEF AppendReplySuccess, NextAfter
  <2> HIDE DEF i
  <2>6. \A n, p \in Server :
           matchIndex'[n][p] = IF n = c.src /\ p = c.peer THEN i ELSE matchIndex[n][p]
    BY <2>1, <2>5 DEF TypeOK, TypeLeader
  <2> SUFFICES ASSUME NEW n \in Server, NEW p \in Server, matchIndex'[n][p] \notin {0, MaxUint64}
               PROVE  /\ matchIndex'[n][p] < Len(stateLog'[p])
                      /\ matchIndex'[n][p] < Len(stateLog'[n])
    BY DEF AckedInLog
  <2>7. CASE n = c.src /\ p = c.peer
    BY <1>2, <2>4, <2>6, <2>7
  <2>8. CASE ~(n = c.src /\ p = c.peer)
    <3>1. matchIndex'[n][p] = matchIndex[n][p]
      BY <2>6, <2>8
    <3>2. matchIndex[n][p] < Len(stateLog[p]) /\ matchIndex[n][p] < Len(stateLog[n])
      BY <3>1 DEF AckedInLog
    <3>3. QED
      BY <1>1, <1>2, <3>1, <3>2
  <2>9. QED
    BY <2>7, <2>8
<1>5. ASSUME NEW c \in calls, AppendAccept(c) PROVE UNCHANGED matchIndex
  BY <1>5 DEF AppendAccept, leaderVars
<1>6. QED
  BY <1>3, <1>4, <1>5, QuietIndices

(* uint64Min never gives more than the last index of a log with entries.   *)
LEMMA FollowerCommitBound ==
  ASSUME NEW lc \in Index, NEW log \in Log, Len(log) > 0
  PROVE  FollowerCommit(lc, log) < Len(log)
<1>1. Len(log) \in Nat
  BY LogFacts
<1>2. QED
  BY <1>1 DEF FollowerCommit, LastLogIndex, Dec, Index

LEMMA CommitInLogNext ==
  ASSUME TypeOK, TypeOK', Grown, NothingBeyond, AppliedInLog, CommitInLog, [Next]_vars
  PROVE  CommitInLog'
<1> DEFINE Within(n) == Up(n)' /\ lastApplied'[n] # MaxUint64 => commitIndex'[n] < Len(stateLog'[n])
           First(n) == fault'[n] = "overrun" => lastApplied'[n] = MaxUint64
<1> SUFFICES ASSUME NEW n \in Server PROVE Within(n) /\ First(n)
  BY DEF CommitInLog
<1>0. /\ commitIndex \in [Server -> Index] /\ lastApplied \in [Server -> Index]
      /\ fault \in [Server -> {"none", "slice", "overrun", "closed"}]
      /\ commitIndex[n] \in Nat /\ lastApplied[n] \in Nat
      /\ Len(stateLog[n]) \in Nat /\ Len(stateLog'[n]) \in Nat
      /\ Len(stateLog[n]) <= Len(stateLog'[n]) /\ MaxUint64 \in Nat
  <2>1. /\ commitIndex \in [Server -> Index] /\ lastApplied \in [Server -> Index]
        /\ fault \in [Server -> {"none", "slice", "overrun", "closed"}]
    BY DEF TypeOK, TypeCommit, TypeProc
  <2>2. commitIndex[n] \in Nat /\ lastApplied[n] \in Nat
    BY <2>1 DEF Index
  <2>3. QED
    BY <2>1, <2>2, LengthGrows, RaftAssumption
<1>1. Up(n)' => Up(n)
  BY FaultKept
<1>2. Up(n) /\ lastApplied[n] # MaxUint64 => Len(stateLog[n]) > 0 /\ commitIndex[n] < Len(stateLog[n])
  BY <1>0 DEF CommitInLog
<1>3. ASSUME UNCHANGED <<commitIndex, lastApplied>> PROVE Within(n)
  BY <1>0, <1>1, <1>2, <1>3
<1>4. ASSUME UNCHANGED lastApplied, fault'[n] = "overrun" => fault[n] = "overrun" PROVE First(n)
  BY <1>4 DEF CommitInLog
<1>5. ASSUME NEW m \in Server, ApplyCommits(m) PROVE Within(n) /\ First(n)
  <2>0. UNCHANGED <<commitIndex, stateLog>> /\ Up(m)
    BY <1>5 DEF ApplyCommits, logVars
  <2>1. CASE m # n
    <3>1. lastApplied'[n] = lastApplied[n] /\ fault'[n] = fault[n]
      BY <1>0, <1>5, <2>1 DEF ApplyCommits
    <3>2. QED
      BY <1>1, <1>2, <2>0, <3>1 DEF CommitInLog, Up
  <2>2. CASE m = n
    <3> DEFINE lo == Inc(lastApplied[n])
               hi == Inc(commitIndex[n])
    <3>1. CASE /\ hi <= written[n] /\ UNCHANGED fault
               /\ lastApplied' = [lastApplied EXCEPT ![n] = commitIndex[n]]
      <4>1. lastApplied'[n] = commitIndex[n] /\ fault'[n] = "none"
        BY <1>0, <2>0, <2>2, <3>1 DEF Up
      <4>2. commitIndex[n] # MaxUint64 => hi = commitIndex[n] + 1
        BY DEF Inc
      <4>3. hi <= Len(stateLog[n])
        <5>1. written[n] \in Nat /\ written[n] <= Len(stateLog[n])
          BY DEF NothingBeyond, TypeOK, TypeLog
        <5>2. hi \in Nat
          BY <1>0 DEF Inc
        <5>3. QED
          BY <1>0, <3>1, <5>1, <5>2
      <4>4. QED
        BY <1>0, <2>0, <4>1, <4>2, <4>3
    <3>2. CASE /\ lo > hi \/ hi > Len(stateLog[n])
               /\ fault' = [fault EXCEPT ![n] = "overrun"]
               /\ UNCHANGED lastApplied
      <4>1. lastApplied[n] = MaxUint64
        <5> SUFFICES ASSUME lastApplied[n] # MaxUint64 PROVE FALSE
          OBVIOUS
        <5>1. commitIndex[n] < Len(stateLog[n]) /\ commitIndex[n] > lastApplied[n]
          BY <1>2, <1>5, <2>0, <2>2 DEF ApplyCommits
        <5>2. commitIndex[n] # MaxUint64
          <6>1. stateLog[n] \in Log
            BY DEF TypeOK, TypeLog
          <6>2. QED
            BY <1>0, <5>1, <6>1, LogFacts, RaftAssumption DEF Log
        <5>3. lo = lastApplied[n] + 1 /\ hi = commitIndex[n] + 1
          BY <5>2 DEF Inc
        <5>4. QED
          BY <1>0, <3>2, <5>1, <5>3
      <4>2. ~Up(n)'
        BY <1>0, <3>2 DEF Up
      <4>3. QED
        BY <3>2, <4>1, <4>2
    <3>3. QED
      BY <1>5, <2>2, <3>1, <3>2 DEF ApplyCommits, FirstUnapplied
  <2>3. QED
    BY <2>1, <2>2
<1>6. ASSUME NEW m \in Server, NEW i \in Index, SetCommit(m, i), UNCHANGED lastApplied,
             Up(m) /\ lastApplied[m] # MaxUint64 => i < Len(stateLog'[m])
      PROVE  Within(n) /\ First(n)
  <2>1. /\ commitIndex'[n] = IF n = m THEN i ELSE commitIndex[n]
        /\ fault'[n] = "overrun" => fault[n] = "overrun"
    BY <1>0, <1>6 DEF SetCommit
  <2>2. Within(n)
    BY <1>0, <1>1, <1>2, <1>6, <2>1
  <2>3. QED
    BY <1>4, <1>6, <2>1, <2>2
<1>7. ASSUME NEW c \in calls, AppendReplySuccess(c) PROVE Within(n) /\ First(n)
  <2>1. UNCHANGED <<lastApplied, stateLog>> /\ c.src \in Server
    <3>1. c \in AppendCall
      BY AppendCallFacts DEF TypeOK
    <3>2. QED
      BY <1>7, <3>1 DEF AppendReplySuccess, logVars, AppendCall
  <2>2. CASE UNCHANGED <<commitIndex, fault>>
    BY <1>3, <1>4, <2>1, <2>2
  <2>3. CASE \E match : \E i \in Committable(c.src, match) : SetCommit(c.src, i)
    <3>1. PICK match : \E i \in Committable(c.src, match) : SetCommit(c.src, i)
      BY <2>3
    <3>2. PICK i \in Committable(c.src, match) : SetCommit(c.src, i)
      BY <3>1
    <3>3. i < Len(stateLog'[c.src]) /\ i \in Index
      <4>1. i \in Inc(commitIndex[c.src]) .. MaxLog /\ i < Len(stateLog[c.src])
        BY <3>2 DEF Committable
      <4>2. Inc(commitIndex[c.src]) \in Nat
        BY <1>0, <2>1 DEF Inc, Index
      <4>3. QED
        BY <2>1, <4>1, <4>2, RaftAssumption DEF Index
    <3>4. QED
      BY <1>6, <2>1, <3>2, <3>3
  <2>4. QED
    BY <1>7, <2>2, <2>3 DEF AppendReplySuccess
<1>8. ASSUME NEW c \in calls, AppendAccept(c) PROVE Within(n) /\ First(n)
  <2> DEFINE m == c.peer
             new == Spliced(stateLog[m], c)
  <2>1. /\ UNCHANGED lastApplied /\ stateLog' = [stateLog EXCEPT ![m] = new]
        /\ UNCHANGED <<commitIndex, fault>> \/ SetCommit(m, FollowerCommit(c.lc, new))
    BY <1>8 DEF AppendAccept, SetLog
  <2>2. m \in Server /\ c.lc \in Index
    BY AppendCallFacts DEF TypeOK, AppendCall
  <2>3. stateLog'[m] = new /\ new \in Log
    BY <2>1, <2>2 DEF TypeOK, TypeLog
  <2> HIDE DEF m, new
  <2>4. Up(m) /\ lastApplied[m] # MaxUint64 => Len(new) > 0
    <3>1. Len(stateLog[m]) \in Nat /\ Len(new) \in Nat /\ Len(stateLog[m]) <= Len(new)
      BY <2>2, <2>3, LengthGrows
    <3>2. Up(m) /\ lastApplied[m] # MaxUint64 => commitIndex[m] < Len(stateLog[m])
      BY <2>2 DEF CommitInLog
    <3>3. commitIndex[m] \in Nat
      BY <1>0, <2>2 DEF Index
    <3>4. QED
      BY <3>1, <3>2, <3>3
  <2>5. CASE UNCHANGED <<commitIndex, fault>>
    BY <1>3, <1>4, <2>1, <2>5
  <2>6. CASE SetCommit(m, FollowerCommit(c.lc, new))
    <3>1. FollowerCommit(c.lc, new) \in Index
      <4>1. Len(new) \in Nat /\ Len(new) <= MaxLog
        BY <2>3, LogFacts DEF Log
      <4>2. QED
        BY <2>2, <4>1, RaftAssumption DEF FollowerCommit, LastLogIndex, Dec, Index
    <3>2. Up(m) /\ lastApplied[m] # MaxUint64 => FollowerCommit(c.lc, new) < Len(new)
      BY <2>2, <2>3, <2>4, FollowerCommitBound
    <3>3. QED
      BY <1>6, <2>1, <2>2, <2>3, <2>6, <3>1, <3>2
  <2>7. QED
    BY <2>1, <2>5, <2>6
<1>9. ASSUME ~\E m \in Server : ApplyCommits(m),
             ~\E c \in calls : AppendReplySuccess(c) \/ AppendAccept(c)
      PROVE  Within(n) /\ First(n)
  <2>1. UNCHANGED commitIndex
    BY <1>9, QuietIndices
  <2>2. UNCHANGED lastApplied /\ (fault'[n] = "overrun" => fault[n] = "overrun")
    <3>1. CASE \E c \in calls : AppendNext(c)
      <4>1. UNCHANGED <<lastApplied, procVars>>
        BY <1>9, <3>1 DEF AppendNext, SendAppend, LoseAppend, AppendReplyNewTerm,
           AppendReplyIgnored, AppendReplyReject, ReceiveAppend, AppendDemote, AppendRecheck,
           AppendStepDown, AppendRefuse, commitVars
      <4>2. QED
        BY <4>1 DEF procVars
    <3>2. CASE \E m \in Server : ServerNext(m)
      <4>1. /\ UNCHANGED lastApplied
            /\ \/ UNCHANGED fault
               \/ \E m \in Server : fault' = [fault EXCEPT ![m] = IF m \in closed THEN "closed" ELSE @]
        BY <1>9, <3>2 DEF ServerNext, ElectionTimeout, groupBroadcast, HeartbeatTick, Shutdown,
           Submit, commitVars, procVars
      <4>2. QED
        BY <1>0, <4>1
    <3>3. CASE \E c \in voteCalls : VoteNext(c)
      <4>1. UNCHANGED <<procVars, commitVars>>
        BY <3>3, Zenon DEF VoteNext, SendVote, LoseVote, HandleVoteReply, gotVote,
           Withdraw, CountVote,
           StartLeader, ReceiveVote, VoteDemote, VoteReadLog, DecideVote
      <4>2. QED
        BY <4>1 DEF procVars, commitVars
    <3>4. CASE \E g \in pending : BuildAppend(g)
      <4>1. /\ UNCHANGED lastApplied
            /\ UNCHANGED fault \/ \E m : fault' = [fault EXCEPT ![m] = "slice"]
        BY <3>4 DEF BuildAppend, commitVars
      <4>2. QED
        BY <1>0, <4>1
    <3>5. CASE (\E s \in starting : BecomeCandidate(s)) \/ UNCHANGED vars
      BY <3>5 DEF BecomeCandidate, vars, commitVars, procVars
    <3>6. QED
      BY <3>1, <3>2, <3>3, <3>4, <3>5 DEF Next
  <2>3. QED
    BY <1>3, <1>4, <2>1, <2>2
<1> HIDE DEF Within, First
<1>10. QED
  BY <1>5, <1>7, <1>8, <1>9

-----------------------------------------------------------------------------
(* The theorems                                                            *)

LEMMA InitGrowth == ASSUME Init PROVE GrowthInv /\ RefusedInv
<1>1. \A n \in Server : stateLog[n] = <<>> /\ applied[n] = <<>> /\ written[n] = 0
  BY DEF Init
<1>2. \A n \in Server : Prefix(applied[n], stateLog[n]) /\ Len(applied[n]) = Inc(lastApplied[n])
  BY <1>1 DEF Init, Prefix, Inc
<1>3. calls = {} /\ \A n, p \in Server : nextIndex[n][p] = 0
  BY DEF Init
<1>4. ~torn
  BY Zenon DEF Init
<1>5. QED
  BY <1>1, <1>2, <1>3, <1>4
     DEF GrowthInv, RefusedInv, NothingBeyond, MessagesInLog, NextInLog, AppliedInLog

LEMMA InitAck == ASSUME Init PROVE AckInv
<1>1. calls = {} /\ \A n, p \in Server : matchIndex[n][p] = 0
  BY DEF Init
<1>2. \A n \in Server : lastApplied[n] = MaxUint64
  BY DEF Init
<1>3. QED
  BY <1>1, <1>2 DEF AckInv, AnswersInLog, AckedInLog, CommitInLog

LEMMA GrowthAlways == Spec => [](GrowthInv /\ RefusedInv)
<1>1. Init => GrowthInv /\ RefusedInv
  BY InitGrowth
<1>2. ASSUME TypeOK, TypeOK', HistoryInv, HistoryInv', GrowthInv, RefusedInv, [Next]_vars
      PROVE  GrowthInv' /\ RefusedInv'
  <2>1. RefusedInv'
    BY <1>2, RefusedNext
  <2>2. ASSUME SingleHistory'
        PROVE  ~torn' /\ NothingBeyond' /\ MessagesInLog' /\ NextInLog' /\ AppliedInLog'
    <3>1. Grown
      BY <1>2, <2>2, NextGrown
    <3>2. MessagesInLog
      BY <1>2, <3>1 DEF Grown, GrowthInv
    <3>3. ~torn' /\ NothingBeyond'
      BY <3>1 DEF Grown
    <3>4. MessagesInLog' /\ NextInLog' /\ AppliedInLog'
      BY <1>2, <3>1, <3>2, MessagesNext, NextIndexNext, AppliedNext
    <3>5. QED
      BY <3>3, <3>4
  <2>3. QED
    BY <2>1, <2>2 DEF GrowthInv
<1>3. TypeOK /\ TypeOK' /\ HistoryInv /\ HistoryInv' /\ (GrowthInv /\ RefusedInv) /\ [Next]_vars
          => (GrowthInv /\ RefusedInv)'
  BY <1>2
<1>4. QED
  BY TypeCorrect, HistoryAlways, <1>1, <1>3, PTL DEF Spec

LEMMA AckAlways == Spec => []AckInv
<1>1. Init => AckInv
  BY InitAck
<1>2. ASSUME TypeOK, TypeOK', HistoryInv, HistoryInv', GrowthInv, AckInv, [Next]_vars,
             SingleHistory'
      PROVE  AnswersInLog' /\ AckedInLog' /\ CommitInLog'
  <2>1. Grown
    BY <1>2, NextGrown
  <2>2. /\ AnswersInLog /\ AckedInLog /\ CommitInLog
        /\ MessagesInLog /\ NothingBeyond /\ AppliedInLog
    BY <1>2, <2>1 DEF Grown, GrowthInv, AckInv
  <2>3. QED
    BY <1>2, <2>1, <2>2, AnswersNext, AckedNext, CommitInLogNext
<1>3. TypeOK /\ TypeOK' /\ HistoryInv /\ HistoryInv' /\ GrowthInv /\ AckInv /\ [Next]_vars
          => AckInv'
  BY <1>2 DEF AckInv
<1>4. QED
  BY TypeCorrect, HistoryAlways, GrowthAlways, <1>1, <1>3, PTL DEF Spec

(* Under a single history stateLog[nextIndex:] cannot panic: broadcastMsg  *)
(* never finds nextIndex beyond the log, although elections do not reset   *)
(* it and late replies set it back and forth.                              *)
THEOREM NextIndexStaysInLog == Spec => []NextIndexInLog
<1>1. GrowthInv => NextIndexInLog
  BY DEF GrowthInv, NextInLog, NextIndexInLog
<1>2. QED
  BY GrowthAlways, <1>1, PTL

(* Under a single history any two servers push the same commands in the    *)
(* same order to commitChan, whatever commitIndex is raised to and when,   *)
(* and also when a panic ends one of them in the middle of a turn.         *)
THEOREM CommandsApplyInOrder == Spec => []StateMachineSafety
<1>1. ASSUME TypeOK, HistoryInv, GrowthInv PROVE StateMachineSafety
  <2> SUFFICES ASSUME SingleHistory, NEW m \in Server, NEW n \in Server
               PROVE  Prefix(applied[m], applied[n]) \/ Prefix(applied[n], applied[m])
    BY DEF StateMachineSafety, SameCommands
  <2>1. UniqueCreated /\ ~torn /\ AppliedInLog
    BY <1>1, SingleUnique DEF GrowthInv
  <2>2. /\ Recorded(stateLog[m]) /\ Recorded(stateLog[n])
        /\ Len(stateLog[m]) \in Nat /\ Len(stateLog[n]) \in Nat
    BY <1>1, <2>1, LogLength DEF HistoryInv
  <2>3. Len(applied[m]) \in Nat /\ Len(applied[n]) \in Nat
    BY <1>1, AppliedLength
  <2>4. Prefix(applied[m], stateLog[m]) /\ Prefix(applied[n], stateLog[n])
    BY <2>1 DEF AppliedInLog
  <2>5. ASSUME NEW i \in Nat, i >= 1, i <= Len(applied[m]), i <= Len(applied[n])
        PROVE  applied[m][i] = applied[n][i]
    <3>1. i \in 1 .. Len(stateLog[m]) /\ i \in 1 .. Len(stateLog[n])
      BY <2>2, <2>3, <2>4, <2>5 DEF Prefix
    <3>2. stateLog[m][i] = stateLog[n][i]
      BY <2>2, <3>1, OneHistory
    <3>3. applied[m][i] = stateLog[m][i] /\ applied[n][i] = stateLog[n][i]
      BY <2>3, <2>4, <2>5 DEF Prefix
    <3>4. QED
      BY <3>2, <3>3
  <2>6. CASE Len(applied[m]) <= Len(applied[n])
    BY <2>3, <2>5, <2>6 DEF Prefix
  <2>7. CASE Len(applied[n]) <= Len(applied[m])
    BY <2>3, <2>5, <2>7 DEF Prefix
  <2>8. QED
    BY <2>3, <2>6, <2>7
<1>2. TypeOK /\ HistoryInv /\ GrowthInv => StateMachineSafety
  BY <1>1
<1>3. QED
  BY TypeCorrect, HistoryAlways, GrowthAlways, <1>2, PTL

(* Under a single history no step takes an entry away from a log: the      *)
(* splice of AppendEntries extends the log or leaves it, in whatever order *)
(* messages arrive.                                                        *)
THEOREM LogsOnlyGrow == Spec => LogOnlyGrows
<1>1. ASSUME TypeOK, TypeOK', HistoryInv, HistoryInv', GrowthInv, [Next]_vars, SingleHistory'
      PROVE  \A n \in Server : Prefix(stateLog[n], stateLog'[n])
  <2>1. Grown
    BY <1>1, NextGrown
  <2>2. QED
    BY <2>1 DEF Grown
<1>2. TypeOK /\ TypeOK' /\ HistoryInv /\ HistoryInv' /\ GrowthInv /\ [Next]_vars
          => [SingleHistory' => \A n \in Server : Prefix(stateLog[n], stateLog'[n])]_vars
  BY <1>1
<1>3. QED
  BY TypeCorrect, HistoryAlways, GrowthAlways, <1>2, PTL DEF Spec, LogOnlyGrows

(* Under a single history logs that are long enough agree.                 *)
LEMMA LongLogsAgree ==
  ASSUME TypeOK, HistoryInv, GrowthInv, SingleHistory, NEW m \in Server, NEW n \in Server,
         NEW k \in Nat, k <= Len(stateLog[m]), k <= Len(stateLog[n])
  PROVE  Holds(m, k, n)
<1>1. UniqueCreated /\ ~torn
  BY SingleUnique DEF GrowthInv
<1>2. /\ Recorded(stateLog[m]) /\ Recorded(stateLog[n])
      /\ Len(stateLog[m]) \in Nat /\ Len(stateLog[n]) \in Nat
  BY <1>1, LogLength DEF HistoryInv
<1>3. ASSUME NEW j \in 1 .. k PROVE stateLog[m][j] = stateLog[n][j]
  <2>1. j \in 1 .. Len(stateLog[m]) /\ j \in 1 .. Len(stateLog[n])
    BY <1>2
  <2>2. QED
    BY <1>2, <2>1, OneHistory
<1>4. QED
  BY <1>3 DEF Holds

(* Under a single history what matchIndex says a peer has stored, the peer *)
(* has: AppendEntries answered after it had the entries, whichever of its  *)
(* messages the answer was to, and nothing took them away since.           *)
THEOREM AcknowledgedIsStored == Spec => []AckedIsStored
<1>1. ASSUME TypeOK, HistoryInv, GrowthInv, AckInv, SingleHistory,
             NEW n \in Server, NEW p \in Server, matchIndex[n][p] \notin {0, MaxUint64}
      PROVE  Holds(p, matchIndex[n][p] + 1, n)
  <2>1. matchIndex[n][p] \in Nat /\ Len(stateLog[n]) \in Nat /\ Len(stateLog[p]) \in Nat
    BY <1>1, LogLength DEF TypeOK, TypeLeader, Index
  <2>2. matchIndex[n][p] < Len(stateLog[p]) /\ matchIndex[n][p] < Len(stateLog[n])
    BY <1>1 DEF AckInv, AckedInLog
  <2>3. /\ matchIndex[n][p] + 1 \in Nat /\ matchIndex[n][p] + 1 <= Len(stateLog[p])
        /\ matchIndex[n][p] + 1 <= Len(stateLog[n])
    BY <2>1, <2>2
  <2>4. QED
    BY <1>1, <2>3, LongLogsAgree
<1>2. TypeOK /\ HistoryInv /\ GrowthInv /\ AckInv => AckedIsStored
  BY <1>1 DEF AckedIsStored
<1>3. QED
  BY TypeCorrect, HistoryAlways, GrowthAlways, AckAlways, <1>2, PTL

(* Under a single history commitChannel panics beyond the log only on its  *)
(* first turn, of a server whose log was empty when it took LeaderCommit.  *)
THEOREM OverrunIsFirstTurn == Spec => []OverrunOnlyFirst
<1>1. AckInv => OverrunOnlyFirst
  BY DEF AckInv, CommitInLog, OverrunOnlyFirst
<1>2. QED
  BY AckAlways, <1>1, PTL

(* Under a single history broadcastMsg raises commitIndex, but for index 0 *)
(* and a peer at MaxUint64, only over entries a majority has stored.       *)
THEOREM CommitsNeedMajority == Spec => CommitNeedsMajority
<1> DEFINE Has(c) == {p \in Server : Holds(p, commitIndex'[c.src] + 1, c.src)}
<1>1. ASSUME TypeOK, TypeOK', HistoryInv, GrowthInv, AckInv', SingleHistory',
             NEW c \in calls, AppendReplySuccess(c),
             commitIndex'[c.src] # commitIndex[c.src], ~Accidental(c.src)'
      PROVE  Majority(Cardinality(Has(c)))
  <2> DEFINE n == c.src
             i == commitIndex'[n]
             match == [matchIndex[n] EXCEPT ![c.peer] = Dec(NextAfter(c))]
             Acked == {p \in Peers(n) : match[p] >= i}
  <2>1. n \in Server /\ c.peer \in Server
    BY <1>1, AppendCallFacts DEF TypeOK, AppendCall
  <2>2. UNCHANGED <<stateLog, created>> /\ matchIndex' = [matchIndex EXCEPT ![n] = match]
    BY <1>1 DEF AppendReplySuccess, logVars
  <2>3. matchIndex'[n] = match /\ SingleHistory
    BY <1>1, <2>1, <2>2 DEF TypeOK, TypeLeader, SingleHistory
  <2>4. i \in Committable(n, match)
    <3>1. PICK j \in Committable(n, match) : SetCommit(n, j)
      BY <1>1 DEF AppendReplySuccess
    <3>2. i = j
      BY <1>1, <2>1, <3>1 DEF SetCommit, TypeOK, TypeCommit
    <3>3. QED
      BY <3>1, <3>2
  <2>5. i < Len(stateLog[n]) /\ Majority(Cardinality(Acked) + 1)
    BY <2>4 DEF Committable
  <2>6. i \in Nat /\ i # 0 /\ Len(stateLog[n]) \in Nat
    BY <1>1, <2>1, LogLength DEF TypeOK, TypeCommit, Index, Accidental
  <2>7. ASSUME NEW p \in Server, i < Len(stateLog[p]) PROVE p \in Has(c)
    <3>1. Len(stateLog[p]) \in Nat /\ i + 1 \in Nat
      BY <1>1, <2>6, LogLength
    <3>2. i + 1 <= Len(stateLog[p]) /\ i + 1 <= Len(stateLog[n])
      BY <2>5, <2>6, <2>7, <3>1
    <3>3. Holds(p, i + 1, n)
      BY <1>1, <2>1, <2>3, <3>1, <3>2, LongLogsAgree
    <3>4. QED
      BY <3>3
  <2>8. ASSUME NEW p \in Acked PROVE p \in Has(c)
    <3>1. p \in Server /\ matchIndex'[n][p] >= i /\ matchIndex'[n][p] # MaxUint64
      BY <1>1, <2>3 DEF Peers, Accidental
    <3>2. matchIndex'[n][p] \in Nat /\ Len(stateLog[p]) \in Nat
      BY <1>1, <2>1, <3>1, LogLength, SMTT(30) DEF TypeOK, TypeLeader, Index
    <3>3. matchIndex'[n][p] # 0
      BY <2>6, <3>1, <3>2
    <3>4. matchIndex'[n][p] < Len(stateLog[p])
      BY <1>1, <2>1, <2>2, <3>1, <3>3 DEF AckInv, AckedInLog
    <3>5. i < Len(stateLog[p])
      BY <2>6, <3>1, <3>2, <3>4
    <3>6. QED
      BY <2>7, <3>1, <3>5
  <2> HIDE DEF Has, Acked, n, i, match
  <2>9. IsFiniteSet(Has(c)) /\ Acked \cup {n} \subseteq Has(c) /\ n \notin Acked
    <3>1. IsFiniteSet(Has(c))
      BY RaftAssumption, FS_Subset DEF Has
    <3>2. n \notin Acked
      BY DEF Acked, Peers
    <3>3. QED
      BY <2>1, <2>5, <2>7, <2>8, <3>1, <3>2
  <2>10. /\ Cardinality(Acked) + 1 \in Nat /\ Cardinality(Has(c)) \in Nat
         /\ Cardinality(Acked) + 1 <= Cardinality(Has(c))
    <3>1. IsFiniteSet(Acked) /\ IsFiniteSet(Acked \cup {n})
      BY <2>9, FS_Subset
    <3>2. Cardinality(Acked \cup {n}) = Cardinality(Acked) + 1
      BY <2>9, <3>1, FS_AddElement
    <3>3. Cardinality(Acked \cup {n}) <= Cardinality(Has(c))
      BY <2>9, FS_Subset
    <3>4. Cardinality(Acked) \in Nat /\ Cardinality(Has(c)) \in Nat
      BY <2>9, <3>1, FS_CardinalityType
    <3>5. QED
      BY <3>2, <3>3, <3>4
  <2>11. QED
    BY <2>5, <2>10, MajorityMonotone
<1>2. TypeOK /\ TypeOK' /\ HistoryInv /\ GrowthInv /\ AckInv'
          => [SingleHistory' => \A c \in calls :
                /\ AppendReplySuccess(c)
                /\ commitIndex'[c.src] # commitIndex[c.src] /\ ~Accidental(c.src)'
                => Majority(Cardinality({p \in Server :
                                            Holds(p, commitIndex'[c.src] + 1, c.src)}))]_vars
  BY <1>1
<1>3. QED
  BY TypeCorrect, HistoryAlways, GrowthAlways, AckAlways, <1>2, PTL DEF CommitNeedsMajority
-----------------------------------------------------------------------------
(* One candidate                                                           *)

(* Only servers that stood in an election send messages, and never to      *)
(* themselves; an election comes before the first Submit.                  *)
Stood(n) == \E e \in DOMAIN elections : elections[e].cand = n
Sends(x) == Stood(x.src) /\ x.peer # x.src
StoodInv ==
    /\ \A n \in Server : heartbeat[n] # {} => Stood(n)
    /\ \A g \in pending : Sends(g)
    /\ \A c \in calls : Sends(c)
    /\ created # {} => elections # <<>>

(* The only candidate there ever was has every submitted entry.            *)
CandidateHolds ==
    OneCandidate => \A n \in Server : Stood(n) => \A a \in created : Prefix(a, stateLog[n])

(* Elections are never forgotten nor taken over.                           *)
LEMMA ElectionsStay ==
  ASSUME TypeOK, [Next]_vars
  PROVE  /\ \A e \in DOMAIN elections :
                e \in DOMAIN elections' /\ elections'[e].cand = elections[e].cand
         /\ \/ \E s \in starting : BecomeCandidate(s)
            \/ DOMAIN elections' = DOMAIN elections
<1>1. elections \in Seq(Election)
  BY DEF TypeOK, TypeVote
<1>2. ASSUME NEW s \in starting, elections' = Append(elections, NewElection(s))
      PROVE  \A e \in DOMAIN elections :
                 e \in DOMAIN elections' /\ elections'[e].cand = elections[e].cand
  <2>1. NewElection(s) \in Election
    <3>1. s.cand \in Server /\ s.term \in Term
      BY DEF TypeOK, TypeVote
    <3>2. QED
      BY <3>1 DEF NewElection, Election
  <2>2. QED
    BY <1>1, <1>2, <2>1, AppendProperties
<1>3. ASSUME NEW c \in voteCalls, CountVote(c)
      PROVE  /\ DOMAIN elections' = DOMAIN elections
             /\ \A e \in DOMAIN elections : elections'[e].cand = elections[e].cand
  <2> DEFINE new == [cand |-> elections[c.e].cand, term |-> elections[c.e].term,
                     votes |-> c.votes,
                     counted |-> IF c.rterm = elections[c.e].term /\ c.ok
                                 THEN elections[c.e].counted \cup {c.peer}
                                 ELSE elections[c.e].counted]
  <2>1. elections' = [elections EXCEPT ![c.e] = new] /\ new.cand = elections[c.e].cand
    BY <1>3 DEF CountVote
  <2> HIDE DEF new
  <2>2. QED
    BY <1>1, <2>1
<1>4. ASSUME NEW c \in voteCalls, VoteNext(c), ~CountVote(c) PROVE UNCHANGED elections
  BY <1>4, Zenon DEF VoteNext, SendVote, LoseVote, HandleVoteReply, gotVote,
     Withdraw, StartLeader, ReceiveVote, VoteDemote, VoteReadLog, DecideVote
<1>5. ASSUME NEW c \in calls, AppendNext(c) PROVE UNCHANGED elections
  BY <1>5 DEF AppendNext, SendAppend, LoseAppend, AppendReplyNewTerm, AppendReplySuccess,
     AppendReplyReject, AppendReplyIgnored, ReceiveAppend, AppendDemote, AppendRecheck,
     AppendStepDown, AppendAccept, AppendRefuse, voteVars
<1>6. ASSUME NEW n \in Server, ServerNext(n) PROVE UNCHANGED elections
  BY <1>6 DEF ServerNext, ElectionTimeout, groupBroadcast, HeartbeatTick, ApplyCommits,
     Shutdown, Submit, voteVars
<1>7. ASSUME (\E g \in pending : BuildAppend(g)) \/ UNCHANGED vars PROVE UNCHANGED elections
  BY <1>7 DEF BuildAppend, vars, voteVars
<1>8. ASSUME NEW s \in starting, BecomeCandidate(s)
      PROVE  elections' = Append(elections, NewElection(s))
  BY <1>8 DEF BecomeCandidate
<1>9. QED
  BY <1>2, <1>3, <1>4, <1>5, <1>6, <1>7, <1>8 DEF Next

LEMMA StoodStays ==
  ASSUME TypeOK, [Next]_vars
  PROVE  /\ \A n : Stood(n) => Stood(n)'
         /\ OneCandidate' => OneCandidate
         /\ \/ \E s \in starting : BecomeCandidate(s)
            \/ \A n : Stood(n)' => Stood(n)
<1>1. QED
  BY ElectionsStay DEF Stood, OneCandidate

(* An append() in place keeps the ends of the messages it touches.         *)
LEMMA OverwrittenEnds ==
  ASSUME TypeOK, NEW n, NEW k, NEW new, NEW S \in SUBSET Exposed(n, k, new),
         NEW x \in Overwritten(S, k, new)
  PROVE  \E c \in calls : x.src = c.src /\ x.peer = c.peer
<1>1. PICK c \in S : x = [c EXCEPT !.log = Overlay(c, k, new)]
  BY DEF Overwritten
<1>2. c \in calls /\ c \in AppendCall
  BY AppendCallFacts DEF Exposed, TypeOK, TypeAppend
<1>3. x.src = c.src /\ x.peer = c.peer
  BY <1>1, <1>2 DEF AppendCall
<1>4. QED
  BY <1>2, <1>3

(* A message has the ends of an earlier one, or of its broadcastMsg.       *)
LEMMA EndsKept ==
  ASSUME TypeOK, [Next]_vars, NEW x \in calls'
  PROVE  \E y \in calls \cup pending : x.src = y.src /\ x.peer = y.peer
<1>1. ASSUME NEW c \in calls, AppendAccept(c)
      PROVE  \E y \in calls : x.src = y.src /\ x.peer = y.peer
  <2> DEFINE new == Spliced(stateLog[c.peer], c)
             k == Kept(stateLog[c.peer], c)
             d == [c EXCEPT !.pc = "replied", !.ok = TRUE, !.rterm = c.term, !.lc = 0]
  <2>1. PICK S \in SUBSET Exposed(c.peer, k, new) :
            calls' = (calls \ (S \cup {c})) \cup Overwritten(S, k, new) \cup {d}
    BY <1>1 DEF AppendAccept
  <2>2. d.src = c.src /\ d.peer = c.peer
    BY AppendCallFacts DEF TypeOK, AppendCall
  <2> HIDE DEF d, k, new
  <2>3. QED
    BY <1>1, <2>1, <2>2, OverwrittenEnds
<1>2. ASSUME NEW n \in Server, NEW v \in Value, Submit(n, v)
      PROVE  \E y \in calls : x.src = y.src /\ x.peer = y.peer
  <2> DEFINE new == Append(stateLog[n], [term |-> currentTerm[n], value |-> v])
             k == Len(stateLog[n])
  <2>1. PICK S \in SUBSET Exposed(n, k, new) : calls' = (calls \ S) \cup Overwritten(S, k, new)
    BY <1>2 DEF Submit
  <2> HIDE DEF k, new
  <2>2. QED
    BY <2>1, OverwrittenEnds
<1>3. ASSUME NEW c \in calls, AppendNext(c), ~AppendAccept(c)
      PROVE  \E y \in calls : x.src = y.src /\ x.peer = y.peer
  BY <1>3, CallStep DEF AppendDone, AppendStep, SameCall
<1>4. ASSUME NEW g \in pending, BuildAppend(g)
      PROVE  x \in calls \/ (x.src = g.src /\ x.peer = g.peer)
  BY <1>4 DEF BuildAppend
<1>5. CASE UNCHANGED calls
  BY <1>5
<1>6. QED
  BY <1>1, <1>2, <1>3, <1>4, <1>5, QuietOthers DEF Next

(* A goroutine of broadcastMsg is of a server with a heartbeat, and such a *)
(* server had one before or has just won.                                  *)
LEMMA BeatsKept ==
  ASSUME TypeOK, [Next]_vars
  PROVE  /\ \A g \in pending' : g \in pending \/ (heartbeat[g.src] # {} /\ g.peer # g.src)
         /\ \A n \in Server : heartbeat'[n] # {} => heartbeat[n] # {} \/ Stood(n)
<1>0. heartbeat \in [Server -> SUBSET {"ready", "wait"}]
  BY DEF TypeOK, TypeProc
<1>1. ASSUME NEW m \in Server, groupBroadcast(m)
      PROVE  /\ \A g \in pending' : g \in pending \/ (heartbeat[g.src] # {} /\ g.peer # g.src)
             /\ \A n \in Server : heartbeat'[n] # {} => heartbeat[n] # {}
  BY <1>0, <1>1 DEF groupBroadcast, Peers
<1>2. ASSUME NEW m \in Server, HeartbeatTick(m)
      PROVE  UNCHANGED pending /\ \A n \in Server : heartbeat'[n] # {} => heartbeat[n] # {}
  BY <1>0, <1>2 DEF HeartbeatTick, appendVars
<1>3. ASSUME NEW m \in Server, ServerNext(m), ~groupBroadcast(m), ~HeartbeatTick(m)
      PROVE  UNCHANGED <<pending, heartbeat>>
  BY <1>3 DEF ServerNext, ElectionTimeout, ApplyCommits, Shutdown, Submit, appendVars
<1>4. ASSUME NEW c \in voteCalls, StartLeader(c)
      PROVE  UNCHANGED pending /\ \A n \in Server : heartbeat'[n] # {} => heartbeat[n] # {} \/ Stood(n)
  <2>1. Stood(elections[c.e].cand)
    BY DEF TypeOK, TypeVote, Stood
  <2>2. QED
    BY <1>0, <1>4, <2>1 DEF StartLeader, appendVars
<1>5. ASSUME NEW c \in voteCalls, VoteNext(c), ~StartLeader(c)
      PROVE  UNCHANGED <<pending, heartbeat>>
  <2>1. UNCHANGED <<appendVars, heartbeat>>
    BY <1>5, Zenon DEF VoteNext, SendVote, LoseVote, HandleVoteReply, gotVote,
       Withdraw, CountVote, ReceiveVote, VoteDemote, VoteReadLog, DecideVote
  <2>2. QED
    BY <2>1 DEF appendVars
<1>6. ASSUME NEW c \in calls, AppendNext(c) PROVE UNCHANGED <<pending, heartbeat>>
  BY <1>6 DEF AppendNext, SendAppend, LoseAppend, AppendReplyNewTerm, AppendReplySuccess,
     AppendReplyReject, AppendReplyIgnored, ReceiveAppend, AppendDemote, AppendRecheck,
     AppendStepDown, AppendAccept, AppendRefuse
<1>7. ASSUME NEW g \in pending, BuildAppend(g)
      PROVE  pending' \subseteq pending /\ UNCHANGED heartbeat
  BY <1>7 DEF BuildAppend
<1>8. ASSUME (\E s \in starting : BecomeCandidate(s)) \/ UNCHANGED vars
      PROVE  UNCHANGED <<pending, heartbeat>>
  BY <1>8 DEF BecomeCandidate, vars, appendVars
<1>9. QED
  BY <1>1, <1>2, <1>3, <1>4, <1>5, <1>6, <1>7, <1>8 DEF Next

(* Only Submit and AppendEntries touch a log, only Submit creates one.     *)
LEMMA QuietLogs ==
  ASSUME [Next]_vars, ~\E n \in Server, v \in Value : Submit(n, v)
  PROVE  /\ UNCHANGED created
         /\ UNCHANGED stateLog \/ \E c \in calls : AppendAccept(c)
<1>1. ASSUME NEW c \in calls, AppendNext(c), ~AppendAccept(c)
      PROVE  UNCHANGED <<created, stateLog>>
  BY <1>1, QuietAppend
<1>2. ASSUME NEW c \in calls, AppendAccept(c) PROVE UNCHANGED created
  BY <1>2 DEF AppendAccept
<1>3. ASSUME NEW g \in pending, BuildAppend(g) PROVE UNCHANGED <<created, stateLog>>
  BY <1>3 DEF BuildAppend, logVars
<1>4. QED
  BY <1>1, <1>2, <1>3, QuietOthers DEF Next

LEMMA StoodNext ==
  ASSUME TypeOK, TypeOK', LeaderWonElection, StoodInv, [Next]_vars PROVE StoodInv'
<1>1. \A n \in Server : heartbeat'[n] # {} => Stood(n)'
  BY BeatsKept, StoodStays DEF StoodInv
<1>2. \A g \in pending' : Sends(g)'
  <2> SUFFICES ASSUME NEW g \in pending' PROVE Stood(g.src)' /\ g.peer # g.src
    BY DEF Sends
  <2>1. g.src \in Server
    BY DEF TypeOK, TypeAppend
  <2>2. Stood(g.src) /\ g.peer # g.src
    BY <2>1, BeatsKept DEF StoodInv, Sends
  <2>3. QED
    BY <2>2, StoodStays
<1>3. \A x \in calls' : Sends(x)'
  <2> SUFFICES ASSUME NEW x \in calls' PROVE Stood(x.src)' /\ x.peer # x.src
    BY DEF Sends
  <2>1. PICK y \in calls \cup pending : x.src = y.src /\ x.peer = y.peer
    BY EndsKept
  <2>2. Stood(y.src) /\ y.peer # y.src
    BY DEF StoodInv, Sends
  <2>3. QED
    BY <2>1, <2>2, StoodStays
<1>4. created' # {} => elections' # <<>>
  <2>1. ASSUME NEW n, Stood(n)' PROVE elections' # <<>>
    BY <2>1 DEF Stood
  <2>2. ASSUME NEW n \in Server, NEW v \in Value, Submit(n, v) PROVE Stood(n)
    BY <2>2 DEF Submit, LeaderWonElection, Stood
  <2>3. ASSUME created # {} PROVE \E n : Stood(n)
    <3>1. elections \in Seq(Election) /\ elections # <<>>
      BY <2>3 DEF StoodInv, TypeOK, TypeVote
    <3>2. 1 \in DOMAIN elections
      BY <3>1
    <3>3. QED
      BY <3>2 DEF Stood
  <2>4. QED
    BY <2>1, <2>2, <2>3, StoodStays, QuietLogs
<1>5. QED
  BY <1>1, <1>2, <1>3, <1>4 DEF StoodInv

LEMMA CandidateNext ==
  ASSUME TypeOK, TypeOK', LeaderWonElection, StoodInv, CandidateHolds, [Next]_vars
  PROVE  CandidateHolds'
<1> SUFFICES ASSUME OneCandidate', NEW n \in Server, Stood(n)', NEW a \in created'
             PROVE  Prefix(a, stateLog'[n])
  BY DEF CandidateHolds
<1>1. OneCandidate /\ \A m : Stood(m) => Stood(m)'
  BY StoodStays
<1>2. ASSUME NEW m, Stood(m) PROVE m = n
  <2>1. Stood(m)'
    BY <1>1, <1>2
  <2>2. QED
    BY <2>1 DEF Stood, OneCandidate
<1>3. ASSUME a \in created PROVE Prefix(a, stateLog[n])
  <2>1. elections \in Seq(Election) /\ elections # <<>>
    BY <1>3 DEF StoodInv, TypeOK, TypeVote
  <2>2. 1 \in DOMAIN elections
    BY <2>1
  <2>3. Stood(n)
    BY <1>2, <2>2 DEF Stood
  <2>4. QED
    BY <1>1, <1>3, <2>3 DEF CandidateHolds
<1>4. ASSUME NEW m \in Server, NEW v \in Value, Submit(m, v) PROVE Prefix(a, stateLog'[n])
  <2> DEFINE new == Append(stateLog[n], [term |-> currentTerm[n], value |-> v])
  <2>1. m = n
    BY <1>2, <1>4 DEF Submit, LeaderWonElection, Stood
  <2>2. stateLog[n] \in Log /\ [term |-> currentTerm[n], value |-> v] \in Entry
    BY DEF TypeOK, TypeLog, TypeTerm, Entry
  <2>3. /\ Len(new) = Len(stateLog[n]) + 1 /\ Len(stateLog[n]) \in Nat
        /\ \A i \in 1 .. Len(stateLog[n]) : new[i] = stateLog[n][i]
    BY <1>4, <2>1, <2>2, AppendEntryType, LogFacts DEF Submit
  <2>4. created' = created \cup {new} /\ stateLog'[n] = new
    BY <1>4, <2>1 DEF Submit, SetLog, TypeOK, TypeLog
  <2> HIDE DEF new
  <2>5. CASE a = new
    BY <2>3, <2>4, <2>5 DEF Prefix
  <2>6. CASE a \in created
    <3>1. Prefix(a, stateLog[n]) /\ Prefix(stateLog[n], new)
      BY <1>3, <2>3, <2>6 DEF Prefix
    <3>2. Len(a) \in Nat /\ Len(new) \in Nat
      BY <2>3, <2>6, LogFacts DEF TypeOK, TypeLog
    <3>3. QED
      BY <2>3, <2>4, <3>1, <3>2, PrefixChain
  <2>7. QED
    BY <2>4, <2>5, <2>6
<1>5. ASSUME UNCHANGED created, NEW c \in calls, AppendAccept(c) PROVE Prefix(a, stateLog'[n])
  <2>1. c.src = n /\ c.peer # n
    BY <1>2 DEF StoodInv, Sends
  <2>2. stateLog'[n] = stateLog[n]
    BY <1>5, <2>1 DEF AppendAccept, SetLog, TypeOK, TypeLog
  <2>3. QED
    BY <1>3, <1>5, <2>2
<1>6. CASE UNCHANGED <<created, stateLog>>
  BY <1>3, <1>6
<1>7. QED
  BY <1>4, <1>5, <1>6, QuietLogs

LEMMA CandidateAlways == Spec => [](StoodInv /\ CandidateHolds)
<1>1. ASSUME Init PROVE StoodInv /\ CandidateHolds
  <2>1. created = {} /\ pending = {} /\ calls = {} /\ \A n \in Server : heartbeat[n] = {}
    BY <1>1 DEF Init
  <2>2. QED
    BY <2>1 DEF StoodInv, CandidateHolds
<1>2. Init => StoodInv /\ CandidateHolds
  BY <1>1
<1>3. TypeOK /\ TypeOK' /\ LeaderWonElection /\ (StoodInv /\ CandidateHolds) /\ [Next]_vars
          => (StoodInv /\ CandidateHolds)'
  BY StoodNext, CandidateNext
<1>4. QED
  BY TypeCorrect, LeadersAreElected, <1>2, <1>3, PTL DEF Spec

(* As long as one server alone ever stands for election, the history is    *)
(* single and every store applies the same commands, with no condition on  *)
(* votes, terms, lost, late or repeated messages, and panics.              *)
THEOREM OneCandidateIsSafe == Spec => []OneCandidateSafe
<1>1. ASSUME TypeOK, StoodInv, CandidateHolds, OneCandidate PROVE SingleHistory
  <2> SUFFICES ASSUME NEW a \in created, NEW b \in created PROVE Prefix(a, b) \/ Prefix(b, a)
    BY DEF SingleHistory
  <2>1. elections \in Seq(Election) /\ elections # <<>>
    BY <1>1 DEF StoodInv, TypeOK, TypeVote
  <2>2. 1 \in DOMAIN elections /\ elections[1] \in Election
    BY <2>1
  <2>3. PICK n \in Server : Stood(n)
    BY <2>2 DEF Stood, Election
  <2>4. Prefix(a, stateLog[n]) /\ Prefix(b, stateLog[n])
    BY <1>1, <2>3 DEF CandidateHolds
  <2>5. Len(a) \in Nat /\ Len(b) \in Nat
    BY <1>1, LogFacts DEF TypeOK, TypeLog
  <2>6. CASE Len(a) <= Len(b)
    BY <2>4, <2>5, <2>6 DEF Prefix
  <2>7. CASE Len(b) <= Len(a)
    BY <2>4, <2>5, <2>7 DEF Prefix
  <2>8. QED
    BY <2>5, <2>6, <2>7
<1>2. TypeOK /\ StoodInv /\ CandidateHolds /\ StateMachineSafety => OneCandidateSafe
  BY <1>1 DEF OneCandidateSafe, StateMachineSafety
<1>3. QED
  BY TypeCorrect, CandidateAlways, CommandsApplyInOrder, <1>2, PTL
-----------------------------------------------------------------------------
(* The cluster as one command log                                          *)

(* One of the logs that Submits made is the longest.                       *)
LongestExists == \E a \in created \cup {<<>>} : \A b \in created : Len(b) <= Len(a)

LEMMA HistoryIsLongest ==
  ASSUME TypeOK, LongestExists
  PROVE  /\ History \in created \cup {<<>>} /\ History \in Log /\ Len(History) \in Nat
         /\ \A b \in created : Len(b) \in Nat /\ Len(b) <= Len(History)
<1>1. History \in created \cup {<<>>} /\ \A b \in created : Len(b) <= Len(History)
  BY DEF LongestExists, History
<1>2. <<>> \in Log
  BY RaftAssumption DEF Log
<1>3. created \subseteq Log
  BY DEF TypeOK, TypeLog
<1>4. QED
  BY <1>1, <1>2, <1>3, LogFacts

LEMMA SubmitAdds ==
  ASSUME TypeOK, NEW n \in Server, NEW v \in Value, Submit(n, v)
  PROVE  \E e \in Entry :
             /\ created' = created \cup {Append(stateLog[n], e)}
             /\ Append(stateLog[n], e) \in Log
             /\ Len(Append(stateLog[n], e)) = Len(stateLog[n]) + 1
             /\ UNCHANGED applied
<1> DEFINE e == [term |-> currentTerm[n], value |-> v]
<1>1. stateLog[n] \in Log /\ e \in Entry
  BY DEF TypeOK, TypeLog, TypeTerm, Entry
<1>2. /\ created' = created \cup {Append(stateLog[n], e)} /\ UNCHANGED applied
      /\ Len(stateLog[n]) < MaxLog
  BY DEF Submit, commitVars
<1> HIDE DEF e
<1>3. QED
  BY <1>1, <1>2, AppendEntryType

LEMMA LongestNext ==
  ASSUME TypeOK, LongestExists, [Next]_vars PROVE LongestExists'
<1>1. ASSUME NEW n \in Server, NEW v \in Value, Submit(n, v) PROVE LongestExists'
  <2>1. PICK new \in Log : created' = created \cup {new}
    BY <1>1, SubmitAdds
  <2>2. Len(new) \in Nat
    BY LogFacts
  <2>3. CASE Len(new) <= Len(History)
    BY <2>1, <2>3, HistoryIsLongest DEF LongestExists
  <2>4. CASE Len(History) <= Len(new)
    <3>1. \A b \in created' : Len(b) <= Len(new)
      BY <2>1, <2>2, <2>4, HistoryIsLongest
    <3>2. QED
      BY <2>1, <3>1 DEF LongestExists
  <2>5. QED
    BY <2>2, <2>3, <2>4, HistoryIsLongest
<1>2. CASE UNCHANGED created
  BY <1>2 DEF LongestExists
<1>3. QED
  BY <1>1, <1>2, QuietLogs

LEMMA LongestAlways == Spec => []LongestExists
<1>1. Init => LongestExists
  BY DEF Init, LongestExists
<1>2. TypeOK /\ LongestExists /\ [Next]_vars => LongestExists'
  BY LongestNext
<1>3. QED
  BY TypeCorrect, <1>1, <1>2, PTL DEF Spec

(* Every submitted log is a beginning of the history, and so is every log  *)
(* of a server.                                                            *)
LEMMA CreatedInHistory ==
  ASSUME TypeOK, LongestExists, SingleHistory, NEW a \in created
  PROVE  Prefix(a, History)
<1>1. Len(a) \in Nat /\ Len(a) <= Len(History) /\ Len(History) \in Nat
  BY HistoryIsLongest
<1>2. CASE History \in created
  BY <1>1, <1>2 DEF SingleHistory, Prefix
<1>3. CASE History = <<>>
  BY <1>1, <1>3 DEF Prefix
<1>4. QED
  BY <1>2, <1>3, HistoryIsLongest

LEMMA RecordedInHistory ==
  ASSUME TypeOK, LongestExists, SingleHistory, NEW x, Len(x) \in Nat, Recorded(x)
  PROVE  Prefix(x, History)
<1>1. CASE Len(x) = 0
  BY <1>1, HistoryIsLongest DEF Prefix
<1>2. CASE Len(x) # 0
  <2>1. Len(x) \in 1 .. Len(x)
    BY <1>2
  <2>2. PICK a \in created : Len(a) = Len(x) /\ \A j \in 1 .. Len(x) : a[j] = x[j]
    BY <2>1 DEF Recorded
  <2>3. Prefix(a, History)
    BY CreatedInHistory
  <2>4. QED
    BY <2>2, <2>3 DEF Prefix
<1>3. QED
  BY <1>1, <1>2

(* Submit on a log shorter than the history rewrites what is there; on the *)
(* whole history it records the next command.                              *)
LEMMA SubmitRecords ==
  ASSUME TypeOK, TypeOK', HistoryInv, GrowthInv, LongestExists, LongestExists',
         SingleHistory, SingleHistory', NEW n \in Server, NEW v \in Value, Submit(n, v)
  PROVE  CL!Record \/ UNCHANGED <<History, applied>>
<1>1. PICK e \in Entry : /\ created' = created \cup {Append(stateLog[n], e)}
                         /\ Append(stateLog[n], e) \in Log
                         /\ Len(Append(stateLog[n], e)) = Len(stateLog[n]) + 1
                         /\ UNCHANGED applied
  BY SubmitAdds
<1> DEFINE old == stateLog[n]
           new == Append(old, e)
           H == History
           K == History'
<1>2. /\ H \in created \cup {<<>>} /\ H \in Log /\ Len(H) \in Nat
      /\ \A b \in created : Len(b) \in Nat /\ Len(b) <= Len(H)
  BY HistoryIsLongest
<1>3. /\ K \in created' \cup {<<>>} /\ K \in Log /\ Len(K) \in Nat
      /\ \A b \in created' : Len(b) \in Nat /\ Len(b) <= Len(K)
  <2>1. /\ K \in created' \cup {<<>>} /\ \A b \in created' : Len(b) <= Len(K)
    BY DEF LongestExists, History
  <2>2. <<>> \in Log /\ created' \subseteq Log
    BY RaftAssumption DEF Log, TypeOK, TypeLog
  <2>3. QED
    BY <2>1, <2>2, LogFacts
<1>4. old \in Log /\ Len(old) \in Nat /\ Prefix(old, H)
  <2>1. UniqueCreated /\ ~torn
    BY SingleUnique DEF GrowthInv
  <2>2. QED
    BY <2>1, LogLength, RecordedInHistory DEF HistoryInv
<1> HIDE DEF H, K, new, old
<1>5. Len(new) = Len(old) + 1 /\ created' = created \cup {new}
  BY <1>1 DEF new, old
<1>6. ASSUME NEW x \in Log, NEW y \in Log, Len(x) = Len(y), \A i \in 1 .. Len(x) : x[i] = y[i]
      PROVE  x = y
  <2>1. x \in Seq(Entry) /\ y \in Seq(Entry)
    BY LogFacts
  <2>2. QED
    BY <1>6, <2>1, SeqEqual
<1>7. CASE Len(new) <= Len(H)
  <2>1. Len(K) <= Len(H)
    BY <1>2, <1>3, <1>5, <1>7
  <2>2. H \in created' \cup {<<>>} /\ Len(H) <= Len(K)
    BY <1>2, <1>3, <1>5
  <2>3. \A i \in 1 .. Len(H) : H[i] = K[i]
    <3>1. CASE Len(H) = 0
      BY <3>1
    <3>2. CASE Len(H) # 0
      <4>1. H \in created' /\ K \in created'
        BY <1>3, <2>1, <2>2, <3>2
      <4>2. QED
        BY <1>2, <1>3, <2>1, <2>2, <4>1 DEF SingleHistory, Prefix
    <3>3. QED
      BY <3>1, <3>2
  <2>4. H = K
    BY <1>2, <1>3, <1>6, <2>1, <2>2, <2>3
  <2>5. QED
    BY <1>1, <2>4 DEF H, K
<1>8. CASE Len(H) < Len(new)
  <2>1. Len(old) = Len(H)
    BY <1>2, <1>4, <1>5, <1>8 DEF Prefix
  <2>2. old = H
    BY <1>2, <1>4, <1>6, <2>1 DEF Prefix
  <2>3. K = new
    <3>1. Len(new) <= Len(K)
      BY <1>3, <1>5
    <3>2. K \notin created \cup {<<>>}
      BY <1>2, <1>3, <1>4, <1>5, <1>8, <3>1
    <3>3. QED
      BY <1>3, <1>5, <3>2
  <2>4. History' = Append(History, e)
    BY <2>2, <2>3 DEF new, old, H, K
  <2>5. QED
    BY <1>1, <2>4 DEF CL!Record
<1>9. QED
  BY <1>2, <1>4, <1>5, <1>7, <1>8

(* A turn of commitChannel delivers the next commands of the history.      *)
LEMMA ApplyDelivers ==
  ASSUME TypeOK, TypeOK', HistoryInv, GrowthInv, LongestExists, SingleHistory,
         NEW n \in Server, ApplyCommits(n)
  PROVE  CL!Deliver(n) \/ UNCHANGED <<History, applied>>
<1> DEFINE T == Entry \cup {Stale}
           a == applied[n]
           b == applied'[n]
           log == stateLog[n]
<1>1. History' = History
  <2>1. created' = created
    BY DEF ApplyCommits, logVars
  <2>2. QED
    BY <2>1 DEF History
<1>2. UniqueCreated /\ ~torn /\ NothingBeyond /\ AppliedInLog
  BY SingleUnique DEF GrowthInv
<1>3. /\ \A m \in Server \ {n} : applied'[m] = applied[m]
      /\ Prefix(b, log) /\ Len(a) <= Len(b) /\ Prefix(a, log)
  BY <1>2, ApplyKeeps DEF AppliedInLog
<1>4. applied \in [Server -> Seq(T)] /\ applied' \in [Server -> Seq(T)]
  BY DEF TypeOK, TypeCommit
<1>5. a \in Seq(T) /\ b \in Seq(T) /\ Len(a) \in Nat /\ Len(b) \in Nat
  BY <1>4, LenProperties
<1>6. Prefix(log, History) /\ Len(log) \in Nat /\ Len(History) \in Nat /\ History \in Log
  BY <1>2, LogLength, RecordedInHistory, HistoryIsLongest DEF HistoryInv
<1> HIDE DEF T, a, b, log
<1>7. Prefix(b, History)
  BY <1>3, <1>5, <1>6, PrefixChain
<1>8. ASSUME NEW x, b = x PROVE applied' = [applied EXCEPT ![n] = x]
  BY <1>3, <1>4, <1>8 DEF b
<1>9. CASE Len(a) = Len(b)
  <2>1. a = b
    BY <1>3, <1>5, <1>9, SeqEqual DEF Prefix
  <2>2. applied' = applied
    BY <1>4, <1>8, <2>1 DEF a
  <2>3. QED
    BY <1>1, <2>2
<1>10. CASE Len(a) < Len(b)
  <2> DEFINE k == Len(b)
             sub == SubSeq(History, 1, k)
  <2>1. k \in Nat /\ k <= Len(History) /\ \A i \in 1 .. k : History[i] \in T /\ b[i] = History[i]
    <3>1. \A i \in 1 .. Len(History) : History[i] \in T
      BY <1>6, LogFacts DEF T
    <3>2. QED
      BY <1>5, <1>6, <1>7, <3>1 DEF Prefix
  <2> HIDE DEF k
  <2>2. /\ sub \in Seq(T) /\ Len(sub) = k
        /\ \A i \in 1 .. k : sub[i] = History[i]
    <3>1. /\ sub \in Seq(T) /\ Len(sub) = IF 1 <= k THEN k - 1 + 1 ELSE 0
          /\ \A i \in 1 .. k - 1 + 1 : sub[i] = History[1 + i - 1]
      BY <2>1, SubSeqProperties
    <3>2. k - 1 + 1 = k /\ (\A i \in 1 .. k : 1 + i - 1 = i) /\ (~(1 <= k) => k = 0)
      BY <2>1
    <3>3. QED
      BY <3>1, <3>2
  <2> HIDE DEF sub
  <2>3. b = sub
    BY <1>5, <2>1, <2>2, SeqEqual DEF k
  <2>4. applied' = [applied EXCEPT ![n] = SubSeq(History, 1, k)]
    BY <1>8, <2>3 DEF sub
  <2>5. k \in Len(applied[n]) + 1 .. Len(History)
    BY <1>5, <1>6, <1>10, <2>1 DEF k, a
  <2>6. QED
    BY <1>1, <2>4, <2>5 DEF CL!Deliver
<1>11. QED
  BY <1>3, <1>5, <1>9, <1>10

(* As long as the history is single the cluster implements CommandLog: a   *)
(* Submit records one command at the end of the history or none, a turn of *)
(* commitChannel delivers more of its beginning to one server, and no      *)
(* election, message, loss, panic or shutdown touches either.              *)
THEOREM ClusterIsOneLog == Spec => ImplementsLog
<1>1. ASSUME Init PROVE CL!LogInit
  <2>1. History = <<>>
    <3>1. created = {}
      BY <1>1 DEF Init
    <3>2. QED
      BY <3>1 DEF History
  <2>2. QED
    BY <1>1, <2>1 DEF Init, CL!LogInit
<1>2. ASSUME TypeOK, TypeOK', HistoryInv, GrowthInv, LongestExists, LongestExists',
             [Next]_vars, SingleHistory'
      PROVE  CL!LogNext \/ UNCHANGED CL!logVars
  <2>1. CASE UNCHANGED <<History, applied>>
    BY <2>1 DEF CL!logVars
  <2>2. SingleHistory
    <3>1. ASSUME NEW n \in Server, NEW v \in Value, Submit(n, v) PROVE created \subseteq created'
      BY <3>1 DEF Submit
    <3>2. QED
      BY <1>2, <3>1, SingleKept, QuietLogs
  <2>3. ASSUME NEW n \in Server, NEW v \in Value, Submit(n, v)
        PROVE  CL!LogNext \/ UNCHANGED CL!logVars
    BY <1>2, <2>1, <2>2, <2>3, SubmitRecords DEF CL!LogNext
  <2>4. ASSUME NEW n \in Server, ApplyCommits(n) PROVE CL!LogNext \/ UNCHANGED CL!logVars
    BY <1>2, <2>1, <2>2, <2>4, ApplyDelivers DEF CL!LogNext
  <2>5. ASSUME ~\E n \in Server, v \in Value : Submit(n, v), ~\E n \in Server : ApplyCommits(n)
        PROVE  UNCHANGED <<History, applied>>
    <3>1. UNCHANGED created
      BY <1>2, <2>5, QuietLogs
    <3>2. UNCHANGED applied
      BY <1>2, <2>5, QuietApplied
    <3>3. QED
      BY <3>1, <3>2 DEF History
  <2>6. QED
    BY <2>1, <2>3, <2>4, <2>5
<1>3. TypeOK /\ TypeOK' /\ HistoryInv /\ GrowthInv /\ LongestExists /\ LongestExists'
          /\ [Next]_vars => [SingleHistory' => CL!LogNext]_(CL!logVars)
  BY <1>2
<1>4. QED
  BY TypeCorrect, HistoryAlways, GrowthAlways, LongestAlways, <1>1, <1>3, PTL
     DEF Spec, ImplementsLog
=============================================================================
