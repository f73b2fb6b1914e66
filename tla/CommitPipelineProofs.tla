------------------------ MODULE CommitPipelineProofs ------------------------
(***************************************************************************)
(* For any set of keys and any capacities and bounds: the commit pipeline  *)
(* implements KeyValueStore, loses no signal, can get stuck in one place   *)
(* only, and what GetValue and getLog return is as fresh as the code       *)
(* promises.                                                               *)
(***************************************************************************)
EXTENDS CommitPipeline, SequenceTheorems, TLAPS

-----------------------------------------------------------------------------
(* The inductive invariant                                                 *)

(* The fields TypeOK does not look at.                                     *)
Shape ==
    /\ consumer \in [pc : {"recv", "value", "index"}, hand : Seq(CommitEntry)]
    /\ reader \in [pc : {"idle", "index", "success", "failure"}, key : Key \cup {None},
                   value : 0 .. MaxSubmits, index : Index]
    /\ reader.pc # "idle" => reader.key \in Key
    /\ page \in [pc : {"idle", "read"}, array : Seq(Command), shared : BOOLEAN,
                 next : Nat, first : Nat, data : Seq(Command), committed : Seq(Command)]
    /\ page.pc = "read" => page.next <= Len(page.array)

(* How far each stage has come: the log, the commits, the batches taken,   *)
(* the entries pushed.                                                     *)
Pushed == IF applier.pc = "push" THEN applier.next ELSE Inc(lastApplied)
Taken  == IF consumer.pc = "value" THEN stored + 1 ELSE stored

Stages ==
    /\ Inc(commitIndex) <= Len(stateLog)
    /\ Inc(lastApplied) <= Inc(commitIndex)
    /\ applier.pc = "push" => applier.next <= applier.end /\ applier.end = Inc(lastApplied)
    /\ Pushed = Taken + Len(commitChan)

(* What is between the log and db is the committed entries next in line.   *)
EntryAt(i) == [command |-> stateLog[i], index |-> i - 1]

InFlight ==
    /\ \A i \in 1 .. Len(commitChan) : commitChan[i] = EntryAt(Taken + i)
    /\ consumer.pc = "value" => consumer.hand[1] = EntryAt(stored + 1)
    /\ consumer.pc = "index" => stored > 0 /\ consumer.hand[1] = EntryAt(stored)

(* A commit that was not taken has a signal, or the applier at the lock,   *)
(* or a committer about to send.                                           *)
Signalled ==
    lastApplied # commitIndex => mu = "commit" \/ ready > 0 \/ applier.pc = "lock"

(* Every signal on its way belongs to a commit of its own, and the applier *)
(* that ended found the channel closed and drained, for good.              *)
Sending == IF mu = "commit" THEN 1 ELSE 0
Locking == IF applier.pc = "lock" THEN 1 ELSE 0
SignalsCount ==
    /\ ready + Sending + Locking <= Inc(commitIndex)
    /\ applier.pc = "done" => closed /\ ready = 0

(* LastWrite finds what it looks for.                                      *)
IsLast(k, n, i) ==
    /\ i \in 0 .. n
    /\ i > 0 => stateLog[i].key = k
    /\ \A j \in (i + 1) .. n : stateLog[j].key # k

LastExists == \A k \in Key : \A n \in 0 .. Len(stateLog) : \E i \in 0 .. n : IsLast(k, n, i)

ValueIsLast ==
    \A k \in Key :
        LET i == LastWrite(k, stored) IN db[k] = IF i = 0 THEN 0 ELSE stateLog[i].value

(* A read that has its value: the write it comes from, and an index in     *)
(* committedLog, or in the answer, that is not older than the one before.  *)
ReadFrom(index) ==
    \E i \in 1 .. stored :
        /\ stateLog[i] = [key |-> reader.key, value |-> reader.value]
        /\ index + 1 >= LastWrite(reader.key, i - 1)

ReadFollows ==
    /\ reader.pc = "index" /\ reader.value # 0 => ReadFrom(committedLog[reader.key])
    /\ reader.pc = "success" => ReadFrom(reader.index)

(* The array the page holds still has the entries committed when it was    *)
(* asked for, and so has what was read of it.                              *)
PageFollows ==
    page.pc = "read" =>
        /\ page.first = PageFrom(Len(page.array))
        /\ page.next \in page.first .. Len(page.array)
        /\ Len(page.data) = Len(page.array) - page.next
        /\ Len(page.committed) <= Len(page.array)
        /\ Len(page.committed) <= Inc(commitIndex)
        /\ \A i \in 1 .. Len(page.committed) : page.array[i] = page.committed[i]
        /\ \A j \in 1 .. Len(page.data) :
              Len(page.array) + 1 - j <= Len(page.committed) =>
                  page.data[j] = page.committed[Len(page.array) + 1 - j]

Typed == TypeOK /\ Shape

-----------------------------------------------------------------------------
(* Lemmas on the operators                                                 *)

LEMMA IncFacts ==
    ASSUME NEW i \in Index
    PROVE  /\ Inc(i) \in Index /\ Inc(i) \in Nat
           /\ i = MaxUint64 => Inc(i) = 0
           /\ i # MaxUint64 => Inc(i) = i + 1
  BY PipelineAssumption DEF Index, Inc

LEMMA IndexRange == 0 .. MaxSubmits \subseteq Index \ {MaxUint64}
  BY PipelineAssumption DEF Index

(* What append leaves of the log.                                          *)
LEMMA KeepAndAppend ==
    ASSUME NEW S, NEW s \in Seq(S), NEW keep \in 0 .. Len(s), NEW e \in S
    PROVE  LET t == Append(SubSeq(s, 1, keep), e)
           IN  /\ t \in Seq(S) /\ Len(t) = keep + 1 /\ t[keep + 1] = e
               /\ \A i \in 1 .. keep : t[i] = s[i]
  <1> DEFINE u == SubSeq(s, 1, keep)
  <1>1. u \in Seq(S) /\ Len(u) = keep /\ \A i \in 1 .. keep : u[i] = s[i]
    <2>1. \A i \in 1 .. keep : s[i] \in S
      BY ElementOfSeq
    <2> QED BY <2>1, SubSeqProperties
  <1> HIDE DEF u
  <1>2. /\ Append(u, e) \in Seq(S) /\ Len(Append(u, e)) = keep + 1
        /\ Append(u, e)[keep + 1] = e
        /\ \A i \in 1 .. keep : Append(u, e)[i] = u[i]
    BY <1>1
  <1> QED BY <1>1, <1>2 DEF u

LEMMA AppendFacts ==
    ASSUME NEW S, NEW s \in Seq(S), NEW e \in S
    PROVE  /\ Append(s, e) \in Seq(S) /\ Len(Append(s, e)) = Len(s) + 1
           /\ Append(s, e)[Len(s) + 1] = e
           /\ \A i \in 1 .. Len(s) : Append(s, e)[i] = s[i]
  OBVIOUS

(* The bounds the types rest on.                                           *)
LEMMA StageBounds ==
    ASSUME Typed, Stages
    PROVE  /\ Taken <= Pushed /\ Pushed <= Inc(lastApplied)
           /\ Inc(lastApplied) <= Inc(commitIndex) /\ Inc(commitIndex) <= Len(stateLog)
           /\ Len(stateLog) <= MaxSubmits
           /\ Taken \in Nat /\ Pushed \in Nat /\ stored <= Taken /\ Len(commitChan) \in Nat
           /\ Inc(lastApplied) \in Nat /\ Inc(commitIndex) \in Nat /\ Len(stateLog) \in Nat
  <1>1. /\ Inc(lastApplied) \in Nat /\ Inc(commitIndex) \in Nat /\ Len(stateLog) \in Nat
        /\ Len(commitChan) \in Nat
    BY IncFacts DEF Typed, TypeOK
  <1>2. Taken \in Nat /\ stored <= Taken
    BY DEF Typed, TypeOK, Taken
  <1>3. Pushed \in Nat
    BY <1>1 DEF Typed, TypeOK, Pushed
  <1>4. Pushed <= Inc(lastApplied)
    BY <1>1 DEF Stages, Pushed, Typed, TypeOK
  <1>5. Taken <= Pushed
    BY <1>1, <1>2, <1>3 DEF Stages
  <1>6. Len(stateLog) <= MaxSubmits
    BY <1>1, PipelineAssumption DEF Typed, TypeOK
  <1> QED BY <1>1, <1>2, <1>3, <1>4, <1>5, <1>6 DEF Stages

-----------------------------------------------------------------------------
(* Types                                                                   *)

LEMMA InitTyped == ASSUME Init PROVE Typed /\ Stages
  <1> USE PipelineAssumption
  <1>1. TypeOK
    <2>1. db \in [Key -> 0 .. MaxSubmits] /\ committedLog \in [Key -> Index]
      BY DEF Init, Index, Missing
    <2>2. closed \in BOOLEAN /\ panicked \in BOOLEAN
      BY Zenon DEF Init
    <2> QED BY <2>1, <2>2 DEF Init, TypeOK, IdleApplier, IdleConsumer, IdleReader, NoPage, Index
  <1>2. Shape
    BY DEF Init, Shape, IdleConsumer, IdleReader, NoPage, Index, Missing
  <1>3. Stages
    BY IncFacts DEF Init, Stages, Pushed, Taken, IdleApplier, IdleConsumer, Inc
  <1> QED BY <1>1, <1>2, <1>3 DEF Typed

LEMMA ExtendTyped ==
    ASSUME Typed, Stages, NEW keep \in 0 .. MaxSubmits, NEW k \in Key, Extend(keep, k)
    PROVE  Typed'
  <1> USE PipelineAssumption DEF Typed
  <1> DEFINE entry == [key |-> k, value |-> submitted + 1]
  <1>1. /\ submitted' = submitted + 1 /\ submitted < MaxSubmits
        /\ stateLog' = Append(SubSeq(stateLog, 1, keep), entry) /\ Rewritten(keep, entry)
        /\ keep \in 0 .. Len(stateLog)
        /\ UNCHANGED <<mu, commitIndex, lastApplied, chanVars,
                   applier, commitChan, storeVars, reader>>
    BY StageBounds DEF Extend
  <1>2. entry \in Command
    BY <1>1 DEF Command, TypeOK
  <1> HIDE DEF entry
  <1>3. stateLog' \in Seq(Command) /\ Len(stateLog') = keep + 1
    <2>1. stateLog \in Seq(Command)
      BY DEF TypeOK
    <2> QED BY <1>1, <1>2, <2>1, KeepAndAppend
  <1>4. /\ page' \in [pc : {"idle", "read"}, array : Seq(Command), shared : BOOLEAN,
                 next : Nat, first : Nat, data : Seq(Command), committed : Seq(Command)]
        /\ page'.pc = "read" => page'.next <= Len(page'.array)
    <2>1. CASE page' = [page EXCEPT !.array = IF page.shared /\ keep < Len(@)
                                      THEN [@ EXCEPT ![keep + 1] = entry] ELSE @]
      <3>1. CASE page.shared /\ keep < Len(page.array)
        <4>1. /\ [page.array EXCEPT ![keep + 1] = entry] \in Seq(Command)
              /\ Len([page.array EXCEPT ![keep + 1] = entry]) = Len(page.array)
          BY <1>2, <3>1, ExceptSeq DEF TypeOK
        <4> QED BY <2>1, <3>1, <4>1 DEF Shape
      <3> QED BY <2>1, <3>1 DEF Shape
    <2>2. CASE page.shared /\ page' = [page EXCEPT !.shared = FALSE]
      BY <2>2 DEF Shape
    <2> QED BY <1>1, <2>1, <2>2 DEF Rewritten
  <1>5. Len(stateLog') <= submitted' /\ submitted' \in 0 .. MaxSubmits
    BY <1>1, <1>3 DEF TypeOK
  <1>6. TypeOK'
    BY <1>1, <1>3, <1>4, <1>5 DEF TypeOK, chanVars, storeVars
  <1>7. Shape'
    BY <1>1, <1>4 DEF Shape, storeVars
  <1> QED BY <1>6, <1>7

(* The other steps of the protocol, and Signal.                            *)
LEMMA ProtocolTyped ==
    ASSUME Typed, Stages,
           (\E i \in 0 .. MaxSubmits : RaiseCommit(i)) \/ Shutdown \/ Signal \/ SignalClosed
    PROVE  Typed'
  <1> USE PipelineAssumption DEF Typed, raftVars, chanVars, storeVars, restVars
  <1>1. CASE \E i \in 0 .. MaxSubmits : RaiseCommit(i)
    BY <1>1, IndexRange, ZenonT(60) DEF RaiseCommit, TypeOK, Shape
  <1>2. CASE Shutdown
    BY <1>2 DEF Shutdown, TypeOK, Shape
  <1>3. CASE Signal
    BY <1>3 DEF Signal, TypeOK, Shape
  <1>4. CASE SignalClosed
    BY <1>4 DEF SignalClosed, TypeOK, Shape
  <1> QED BY <1>1, <1>2, <1>3, <1>4

LEMMA ApplierTyped ==
    ASSUME Typed, Stages, commitChannel PROVE Typed'
  <1> USE PipelineAssumption DEF Typed, raftVars, chanVars, storeVars, restVars
  <1>1. CASE ReceiveReady
    <2>1. ready' \in 0 .. ReadyCap
      <3>1. ready \in 0 .. ReadyCap
        BY DEF TypeOK
      <3>2. ready > 0 /\ ready' = ready - 1
        BY <1>1 DEF ReceiveReady
      <3> QED BY <3>1, <3>2
    <2>2. applier' \in [pc : {"recv", "lock", "push", "done"}, next : 0 .. MaxSubmits,
                        end : 0 .. MaxSubmits]
      BY <1>1 DEF ReceiveReady, TypeOK
    <2> QED BY <1>1, <2>1, <2>2, ZenonT(60) DEF ReceiveReady, TypeOK, Shape
  <1>2. CASE ReadyClosed
    BY <1>2, ZenonT(60) DEF ReadyClosed, TypeOK, Shape
  <1>3. CASE TakeBatch
    <2>1. Inc(lastApplied) \in 0 .. MaxSubmits /\ Inc(commitIndex) \in 0 .. MaxSubmits
      BY StageBounds
    <2>2. applier' \in [pc : {"recv", "lock", "push", "done"}, next : 0 .. MaxSubmits,
                        end : 0 .. MaxSubmits]
      BY <1>3, <2>1 DEF TakeBatch, IdleApplier, From
    <2> QED BY <1>3, <2>2, SMTT(30) DEF TakeBatch, TypeOK, Shape
  <1>4. CASE Push
    <2>0. applier.next \in 0 .. MaxSubmits /\ applier.end \in 0 .. MaxSubmits
      BY DEF TypeOK
    <2>a. applier.next < applier.end /\ applier.end = Inc(lastApplied)
      BY <1>4 DEF Push, Stages
    <2>1. applier.next + 1 \in 1 .. Len(stateLog)
      BY <2>0, <2>a, StageBounds
    <2>2. stateLog[applier.next + 1] \in Command
      BY <2>1, ElementOfSeq DEF TypeOK
    <2>3. [command |-> stateLog[applier.next + 1], index |-> applier.next] \in CommitEntry
      BY <2>2, IndexRange DEF CommitEntry, TypeOK
    <2>4. commitChan' \in Seq(CommitEntry) /\ Len(commitChan') <= ChanCap
      BY <1>4, <2>3, AppendFacts DEF Push, TypeOK
    <2>b. applier.next + 1 \in 0 .. MaxSubmits
      BY <2>0, <2>a
    <2>5. applier' \in [pc : {"recv", "lock", "push", "done"}, next : 0 .. MaxSubmits,
                        end : 0 .. MaxSubmits]
      BY <1>4, <2>b DEF Push, TypeOK
    <2> QED BY <1>4, <2>4, <2>5, ZenonT(60) DEF Push, TypeOK, Shape
  <1>5. CASE BatchDone
    BY <1>5 DEF BatchDone, IdleApplier, TypeOK, Shape
  <1> QED BY <1>1, <1>2, <1>3, <1>4, <1>5 DEF commitChannel

(* The entry in the hands of ReadCommits.                                  *)
LEMMA HandTyped ==
    ASSUME Typed, consumer.pc # "recv"
    PROVE  /\ consumer.hand[1].command.key \in Key
           /\ consumer.hand[1].command.value \in 1 .. MaxSubmits
           /\ consumer.hand[1].index \in Index
  <1>1. consumer.hand \in Seq(CommitEntry) /\ Len(consumer.hand) = 1
    BY DEF Typed, TypeOK
  <1>2. consumer.hand[1] \in CommitEntry
    BY <1>1, ElementOfSeq
  <1> QED BY <1>2 DEF CommitEntry, Command

LEMMA ConsumerTyped ==
    ASSUME Typed, Stages, ReadCommits PROVE Typed'
  <1> USE PipelineAssumption DEF Typed, raftVars, chanVars, storeVars, restVars
  <1>1. CASE ReceiveCommit
    <2>1. /\ Head(commitChan) \in CommitEntry /\ Tail(commitChan) \in Seq(CommitEntry)
          /\ Len(Tail(commitChan)) = Len(commitChan) - 1
      BY <1>1, HeadTailProperties DEF ReceiveCommit, TypeOK
    <2>2. <<Head(commitChan)>> \in Seq(CommitEntry) /\ Len(<<Head(commitChan)>>) = 1
      BY <2>1
    <2>3. commitChan' \in Seq(CommitEntry) /\ Len(commitChan') <= ChanCap
      BY <1>1, <2>1, StageBounds DEF ReceiveCommit, TypeOK
    <2>4. /\ consumer'.pc = "value" /\ consumer'.hand \in Seq(CommitEntry)
          /\ Len(consumer'.hand) = 1
          /\ consumer' \in [pc : {"recv", "value", "index"}, hand : Seq(CommitEntry)]
      BY <1>1, <2>2 DEF ReceiveCommit
    <2> QED BY <1>1, <2>3, <2>4, SMTT(30) DEF ReceiveCommit, TypeOK, Shape
  <1>2. CASE SetValue
    <2>1. stored + 1 \in 0 .. MaxSubmits
      BY <1>2, StageBounds, SMTT(30) DEF SetValue, Taken, TypeOK
    <2>2. db' \in [Key -> 0 .. MaxSubmits]
      <3>1. /\ consumer.hand[1].command.key \in Key
            /\ consumer.hand[1].command.value \in 0 .. MaxSubmits
        BY <1>2, HandTyped DEF SetValue
      <3> QED BY <1>2, <3>1 DEF SetValue, TypeOK
    <2> QED BY <1>2, <2>1, <2>2, ZenonT(60) DEF SetValue, TypeOK, Shape
  <1>3. CASE SetIndex
    <2>1. committedLog' \in [Key -> Index]
      BY <1>3, HandTyped DEF SetIndex, TypeOK
    <2> QED BY <1>3, <2>1, SMTT(30) DEF SetIndex, IdleConsumer, TypeOK, Shape
  <1> QED BY <1>1, <1>2, <1>3 DEF ReadCommits

LEMMA RequestTyped ==
    ASSUME Typed, Stages, GetValue \/ getLog PROVE Typed'
  <1> USE PipelineAssumption DEF Typed, raftVars, chanVars, storeVars, restVars
  <1>0. Missing \in Index /\ 0 \in Index
    BY DEF Missing, Index
  <1>1. ASSUME NEW k \in Key, ReadValue(k) PROVE Typed'
    BY <1>0, <1>1, SMTT(30) DEF ReadValue, TypeOK, Shape
  <1>2. CASE ReadIndex
    BY <1>0, <1>2, ZenonT(60) DEF ReadIndex, TypeOK, Shape
  <1>3. CASE EndRead
    BY <1>0, <1>3 DEF EndRead, IdleReader, TypeOK, Shape
  <1>4. CASE BeginPage
    <2>1. \A i \in 1 .. Inc(commitIndex) : stateLog[i] \in Command
      BY StageBounds, ElementOfSeq DEF TypeOK
    <2>2. Committed \in Seq(Command)
      BY <2>1, StageBounds, SubSeqProperties DEF Committed
    <2>3. PageFrom(Len(stateLog)) \in Nat /\ Len(stateLog) \in Nat
      BY StageBounds DEF PageFrom
    <2>4. <<>> \in Seq(Command)
      OBVIOUS
    <2>5. stateLog \in Seq(Command) /\ Len(stateLog) <= Len(stateLog)
      BY <2>3 DEF TypeOK
    <2> QED BY <1>4, <2>2, <2>3, <2>4, <2>5, SMTT(30) DEF BeginPage, TypeOK, Shape
  <1>5. CASE ReadEntry
    <2>1. page.next \in 1 .. Len(page.array)
      BY <1>5 DEF ReadEntry, Shape
    <2>2. page.array[page.next] \in Command
      BY <2>1, ElementOfSeq DEF TypeOK
    <2>3. Append(page.data, page.array[page.next]) \in Seq(Command)
      BY <2>2, AppendFacts DEF TypeOK
    <2>4. page.next - 1 \in Nat /\ page.next - 1 <= Len(page.array)
      BY <2>1
    <2> QED BY <1>5, <2>3, <2>4, ZenonT(60) DEF ReadEntry, TypeOK, Shape
  <1>6. CASE EndPage
    BY <1>6 DEF EndPage, NoPage, TypeOK, Shape
  <1> QED BY <1>1, <1>2, <1>3, <1>4, <1>5, <1>6 DEF GetValue, getLog

LEMMA NextTyped == ASSUME Typed, Stages, [Next]_vars PROVE Typed'
  <1>1. CASE Protocol
    BY <1>1, ExtendTyped, ProtocolTyped DEF Protocol
  <1>2. CASE Signal \/ SignalClosed
    BY <1>2, ProtocolTyped
  <1>3. CASE commitChannel
    BY <1>3, ApplierTyped
  <1>4. CASE ReadCommits
    BY <1>4, ConsumerTyped
  <1>5. CASE GetValue \/ getLog
    BY <1>5, RequestTyped
  <1>6. CASE UNCHANGED vars
    BY <1>6 DEF vars, raftVars, chanVars, storeVars, restVars, Typed, TypeOK, Shape
  <1> QED BY <1>1, <1>2, <1>3, <1>4, <1>5, <1>6 DEF Next

-----------------------------------------------------------------------------
(* The stages and what is between them                                     *)

(* Steps that touch none of it.                                            *)
Beside ==
    \/ UNCHANGED vars \/ Shutdown \/ Signal \/ SignalClosed \/ ReceiveReady \/ ReadyClosed
    \/ GetValue \/ getLog

LEMMA BesideLeaves ==
    ASSUME Typed, Beside
    PROVE  /\ UNCHANGED <<stateLog, commitIndex, lastApplied, commitChan, consumer, stored,
                          db, committedLog>>
           /\ applier'.pc = "push" <=> applier.pc = "push"
           /\ applier'.next = applier.next /\ applier'.end = applier.end
  <1> USE DEF raftVars, chanVars, storeVars, restVars
  <1>1. CASE UNCHANGED vars
    BY <1>1 DEF vars
  <1>2. CASE Shutdown \/ Signal \/ SignalClosed
    BY <1>2 DEF Shutdown, Signal, SignalClosed
  <1>3. CASE ReceiveReady \/ ReadyClosed
    BY <1>3 DEF ReceiveReady, ReadyClosed, Typed, TypeOK
  <1>4. CASE GetValue
    BY <1>4 DEF GetValue, ReadValue, ReadIndex, EndRead
  <1>5. CASE getLog
    BY <1>5 DEF getLog, BeginPage, ReadEntry, EndPage
  <1> QED BY <1>1, <1>2, <1>3, <1>4, <1>5 DEF Beside

LEMMA NextCases ==
    ASSUME [Next]_vars
    PROVE  \/ \E keep \in 0 .. MaxSubmits, k \in Key : Extend(keep, k)
           \/ \E i \in 0 .. MaxSubmits : RaiseCommit(i)
           \/ TakeBatch \/ Push \/ BatchDone
           \/ ReceiveCommit \/ SetValue \/ SetIndex
           \/ Beside
  BY DEF Next, Protocol, commitChannel, ReadCommits, Beside

(* What Extend does to the log, the committed part of which it keeps.      *)
LEMMA ExtendLog ==
    ASSUME Typed, Stages, NEW keep \in 0 .. MaxSubmits, NEW k \in Key, Extend(keep, k)
    PROVE  /\ Inc(commitIndex) <= keep /\ keep <= Len(stateLog)
           /\ Len(stateLog') = keep + 1
           /\ stateLog'[keep + 1] = [key |-> k, value |-> submitted + 1]
           /\ \A i \in 1 .. keep : stateLog'[i] = stateLog[i]
           /\ UNCHANGED <<mu, commitIndex, lastApplied, chanVars,
                          applier, commitChan, storeVars, reader>>
  <1> DEFINE entry == [key |-> k, value |-> submitted + 1]
  <1>1. entry \in Command
    BY PipelineAssumption DEF Extend, Command, Typed, TypeOK
  <1>2. keep \in Inc(commitIndex) .. Len(stateLog) /\ keep \in 0 .. Len(stateLog)
    BY StageBounds DEF Extend
  <1>3. stateLog' = Append(SubSeq(stateLog, 1, keep), entry)
    BY DEF Extend
  <1>4. UNCHANGED <<mu, commitIndex, lastApplied, chanVars,
                    applier, commitChan, storeVars, reader>>
    BY DEF Extend
  <1> HIDE DEF entry
  <1>5. /\ Len(stateLog') = keep + 1 /\ stateLog'[keep + 1] = entry
        /\ \A i \in 1 .. keep : stateLog'[i] = stateLog[i]
    <2>1. stateLog \in Seq(Command)
      BY DEF Typed, TypeOK
    <2> QED BY <1>1, <1>2, <1>3, <2>1, KeepAndAppend
  <1> QED BY <1>2, <1>4, <1>5, StageBounds DEF entry

LEMMA NextStages == ASSUME Typed, Stages, [Next]_vars PROVE Stages'
  <1> USE DEF raftVars, chanVars, storeVars, restVars
  <1>0. stored \in Nat /\ applier.next \in Nat /\ applier.end \in Nat
    BY DEF Typed, TypeOK
  <1>1. ASSUME NEW keep \in 0 .. MaxSubmits, NEW k \in Key, Extend(keep, k)
        PROVE  Stages'
    <2>0. Inc(commitIndex) <= keep /\ Inc(commitIndex) \in Nat
      BY <1>1, ExtendLog, StageBounds
    <2>1. Inc(commitIndex) <= keep + 1
      BY <2>0
    <2> QED BY <1>1, <2>1, ExtendLog DEF Stages, Pushed, Taken
  <1>2. ASSUME NEW i \in 0 .. MaxSubmits, RaiseCommit(i)
        PROVE  Stages'
    <2>1. Inc(commitIndex) <= i /\ i < Len(stateLog) /\ commitIndex' = i
      BY <1>2, StageBounds DEF RaiseCommit
    <2>2. Inc(i) = i + 1
      BY IncFacts, IndexRange
    <2>3. Inc(commitIndex') <= Len(stateLog) /\ Inc(lastApplied) <= Inc(commitIndex')
      BY <2>1, <2>2, StageBounds
    <2> QED BY <1>2, <2>3 DEF RaiseCommit, Stages, Pushed, Taken
  <1>3. CASE TakeBatch
    <2>1. Inc(commitIndex) <= Inc(commitIndex)
      BY StageBounds
    <2>2. CASE commitIndex > lastApplied \/ lastApplied = MaxUint64
      BY <1>3, <2>1, <2>2 DEF TakeBatch, From, Stages, Pushed, Taken
    <2>3. CASE ~(commitIndex > lastApplied \/ lastApplied = MaxUint64)
      BY <1>3, <2>3 DEF TakeBatch, IdleApplier, Stages, Pushed, Taken
    <2> QED BY <2>2, <2>3
  <1>4. CASE Push
    <2>1. /\ applier'.next = applier.next + 1 /\ applier'.pc = "push" /\ applier.pc = "push"
          /\ applier'.end = applier.end /\ applier.next < applier.end
      BY <1>4 DEF Push, Typed, TypeOK
    <2>2. Len(commitChan') = Len(commitChan) + 1
      BY <1>4 DEF Push, Typed, TypeOK
    <2>3. Taken' = Taken
      BY <1>4 DEF Push, Taken
    <2>4. Pushed' = Taken' + Len(commitChan')
      BY <1>0, <2>1, <2>2, <2>3, StageBounds DEF Stages, Pushed
    <2> QED BY <1>0, <1>4, <2>1, <2>4 DEF Push, Stages
  <1>5. CASE BatchDone
    BY <1>5 DEF BatchDone, IdleApplier, Stages, Pushed, Taken
  <1>6. CASE ReceiveCommit
    <2>1. Len(commitChan') = Len(commitChan) - 1
      BY <1>6, HeadTailProperties DEF ReceiveCommit, Typed, TypeOK
    <2>2. Taken' = Taken + 1
      BY <1>6 DEF ReceiveCommit, Taken
    <2>3. Pushed' = Pushed
      BY <1>6 DEF ReceiveCommit, Pushed
    <2>4. Pushed' = Taken' + Len(commitChan')
      BY <2>1, <2>2, <2>3, StageBounds DEF Stages
    <2> QED BY <1>6, <2>4 DEF ReceiveCommit, Stages
  <1>7. CASE SetValue
    <2>1. Taken' = Taken
      BY <1>7 DEF SetValue, Taken, Typed, Shape
    <2> QED BY <1>7, <2>1 DEF SetValue, Stages, Pushed
  <1>8. CASE SetIndex
    BY <1>8 DEF SetIndex, IdleConsumer, Stages, Pushed, Taken
  <1>9. CASE Beside
    BY <1>9, BesideLeaves DEF Stages, Pushed, Taken
  <1> QED BY <1>1, <1>2, <1>3, <1>4, <1>5, <1>6, <1>7, <1>8, <1>9, NextCases

LEMMA NextInFlight == ASSUME Typed, Stages, InFlight, [Next]_vars PROVE InFlight'
  <1> USE DEF raftVars, chanVars, storeVars, restVars
  <1>0. stored \in Nat /\ applier.next \in Nat /\ applier.end \in Nat
    BY DEF Typed, TypeOK
  <1>1. ASSUME NEW keep \in 0 .. MaxSubmits, NEW k \in Key, Extend(keep, k)
        PROVE  InFlight'
    <2>1. \A i \in 1 .. Pushed : EntryAt(i)' = EntryAt(i)
      <3>1. /\ Inc(commitIndex) <= keep
            /\ \A i \in 1 .. keep : stateLog'[i] = stateLog[i]
        BY <1>1, ExtendLog
      <3>2. \A i \in 1 .. Pushed : i \in 1 .. keep
        BY <3>1, StageBounds
      <3> QED BY <3>1, <3>2 DEF EntryAt
    <2>2. \A i \in 1 .. Len(commitChan) : Taken + i \in 1 .. Pushed
      BY StageBounds DEF Stages
    <2>3. consumer.pc = "value" => stored + 1 \in 1 .. Pushed
      BY <1>0, StageBounds DEF Taken
    <2>4. stored > 0 => stored \in 1 .. Pushed
      BY <1>0, StageBounds
    <2>5. UNCHANGED <<commitChan, consumer, stored, Taken>>
      BY <1>1, ExtendLog DEF Taken
    <2> QED BY <2>1, <2>2, <2>3, <2>4, <2>5 DEF InFlight, EntryAt
  <1>2. ASSUME NEW i \in 0 .. MaxSubmits, RaiseCommit(i)
        PROVE  InFlight'
    BY <1>2 DEF RaiseCommit, InFlight, Taken, EntryAt
  <1>3. CASE TakeBatch
    BY <1>3 DEF TakeBatch, InFlight, Taken, EntryAt
  <1>4. CASE Push
    <2>1. applier.next = Taken + Len(commitChan)
      BY <1>4 DEF Push, Stages, Pushed
    <2>2. [command |-> stateLog[applier.next + 1], index |-> applier.next]
             = EntryAt(Taken + (Len(commitChan) + 1))
      BY <2>1, StageBounds DEF EntryAt
    <2>3. /\ Len(commitChan') = Len(commitChan) + 1
          /\ commitChan'[Len(commitChan) + 1] = EntryAt(Taken + (Len(commitChan) + 1))
          /\ \A i \in 1 .. Len(commitChan) : commitChan'[i] = commitChan[i]
      BY <1>4, <2>2 DEF Push, Typed, TypeOK
    <2>4. UNCHANGED <<stateLog, consumer, stored, Taken>>
      BY <1>4 DEF Push, Taken
    <2>5. \A i \in 1 .. Len(commitChan) + 1 : commitChan'[i] = EntryAt(Taken + i)
      BY <2>3, StageBounds DEF InFlight
    <2> QED BY <2>3, <2>4, <2>5 DEF InFlight, EntryAt
  <1>5. CASE BatchDone
    BY <1>5 DEF BatchDone, InFlight, Taken, EntryAt
  <1>6. CASE ReceiveCommit
    <2>1. /\ Len(commitChan') = Len(commitChan) - 1 /\ Len(commitChan) > 0
          /\ \A i \in 1 .. Len(commitChan') : commitChan'[i] = commitChan[i + 1]
          /\ Head(commitChan) = commitChan[1]
      BY <1>6, HeadTailProperties, EmptySeq DEF ReceiveCommit, Typed, TypeOK
    <2>2. Taken = stored /\ Taken' = stored + 1 /\ UNCHANGED <<stored, stateLog>>
      BY <1>6 DEF ReceiveCommit, Taken
    <2>3. consumer'.pc = "value" /\ consumer'.hand[1] = EntryAt(stored + 1)
      BY <1>6, <2>1, <2>2, StageBounds DEF ReceiveCommit, InFlight
    <2>4. \A i \in 1 .. Len(commitChan') : commitChan'[i] = EntryAt(stored + 1 + i)
      <3> SUFFICES ASSUME NEW i \in 1 .. Len(commitChan')
                   PROVE  commitChan'[i] = EntryAt(stored + 1 + i)
        OBVIOUS
      <3>1. i + 1 \in 1 .. Len(commitChan) /\ stored + (i + 1) = stored + 1 + i
        BY <1>0, <2>1, StageBounds
      <3>2. commitChan[i + 1] = EntryAt(stored + (i + 1))
        BY <2>2, <3>1 DEF InFlight
      <3> QED BY <2>1, <3>1, <3>2
    <2> QED BY <2>2, <2>3, <2>4 DEF InFlight, EntryAt
  <1>7. CASE SetValue
    <2>1. /\ Taken' = Taken /\ stored' = stored + 1 /\ UNCHANGED <<stateLog, commitChan>>
          /\ consumer'.pc = "index" /\ consumer'.hand = consumer.hand /\ consumer.pc = "value"
      BY <1>7 DEF SetValue, Taken, Typed, Shape
    <2>2. stored' > 0
      BY <1>0, <2>1
    <2> QED BY <2>1, <2>2 DEF InFlight, EntryAt
  <1>8. CASE SetIndex
    BY <1>8 DEF SetIndex, IdleConsumer, InFlight, EntryAt, Taken
  <1>9. CASE Beside
    BY <1>9, BesideLeaves DEF InFlight, EntryAt, Taken
  <1> QED BY <1>1, <1>2, <1>3, <1>4, <1>5, <1>6, <1>7, <1>8, <1>9, NextCases

LEMMA NextSignalled == ASSUME Typed, Stages, Signalled, [Next]_vars PROVE Signalled'
  <1> USE DEF raftVars, chanVars, storeVars, restVars, Signalled
  <1>1. CASE Protocol
    BY <1>1 DEF Protocol, Extend, RaiseCommit, Shutdown, chanVars
  <1>2. CASE Signal \/ SignalClosed
    BY <1>2 DEF Signal, SignalClosed, Typed, TypeOK
  <1>3. CASE ReceiveReady
    BY <1>3 DEF ReceiveReady, Typed, TypeOK
  <1>4. CASE ReadyClosed
    BY <1>4 DEF ReadyClosed
  <1>5. CASE TakeBatch
    <2>1. CASE commitIndex > lastApplied \/ lastApplied = MaxUint64
      BY <1>5, <2>1 DEF TakeBatch
    <2>2. CASE ~(commitIndex > lastApplied \/ lastApplied = MaxUint64)
      <3>1. commitIndex \in Nat /\ lastApplied \in Nat /\ commitIndex <= lastApplied
        BY <2>2, PipelineAssumption DEF Typed, TypeOK, Index
      <3>2. Inc(lastApplied) = lastApplied + 1
        BY <2>2, IncFacts DEF Typed, TypeOK
      <3>3. lastApplied + 1 <= Inc(commitIndex)
        BY <3>2 DEF Stages
      <3>4. Inc(commitIndex) = commitIndex + 1
        BY <3>1, <3>3, IncFacts DEF Typed, TypeOK
      <3>5. lastApplied = commitIndex
        BY <3>1, <3>3, <3>4
      <3> QED BY <1>5, <2>2, <3>5 DEF TakeBatch
    <2> QED BY <2>1, <2>2
  <1>6. CASE Push \/ BatchDone
    BY <1>6 DEF Push, BatchDone
  <1>7. CASE ReadCommits
    BY <1>7 DEF ReadCommits, ReceiveCommit, SetValue, SetIndex
  <1>8. CASE GetValue \/ getLog
    BY <1>8 DEF GetValue, ReadValue, ReadIndex, EndRead, getLog, BeginPage, ReadEntry, EndPage
  <1>9. CASE UNCHANGED vars
    BY <1>9 DEF vars
  <1> QED BY <1>1, <1>2, <1>3, <1>4, <1>5, <1>6, <1>7, <1>8, <1>9 DEF Next, commitChannel

LEMMA NextSignalsCount ==
    ASSUME Typed, Stages, SignalsCount, [Next]_vars PROVE SignalsCount'
  <1> USE DEF raftVars, chanVars, storeVars, restVars
  <1>0. /\ ready \in Nat /\ Inc(commitIndex) \in Nat /\ Sending \in {0, 1} /\ Locking \in {0, 1}
        /\ ready + Sending + Locking <= Inc(commitIndex)
    BY IncFacts DEF Typed, TypeOK, Sending, Locking, SignalsCount
  <1>1. CASE UNCHANGED <<mu, commitIndex, ready, closed>> /\ applier'.pc = applier.pc
    BY <1>1 DEF SignalsCount, Sending, Locking, Inc
  <1>2. ASSUME NEW i \in 0 .. MaxSubmits, RaiseCommit(i) PROVE SignalsCount'
    <2>1. /\ Sending = 0 /\ Sending' = 1 /\ Locking' = Locking
          /\ UNCHANGED <<ready, closed, applier>> /\ commitIndex' = i /\ Inc(commitIndex) <= i
      BY <1>0, <1>2, PipelineAssumption DEF RaiseCommit, Sending, Locking
    <2>2. Inc(i) = i + 1
      BY IncFacts, IndexRange
    <2>3. Inc(commitIndex)' = Inc(i)
      BY <2>1 DEF Inc
    <2>4. (ready + Sending + Locking <= Inc(commitIndex))'
      BY <1>0, <2>1, <2>2, <2>3
    <2> QED BY <2>1, <2>4 DEF SignalsCount
  <1>3. CASE Signal
    <2>1. /\ Sending = 1 /\ Sending' = 0 /\ Locking' = Locking /\ ready' = ready + 1
          /\ UNCHANGED <<commitIndex, closed, applier>> /\ ~closed
      BY <1>3 DEF Signal, Sending, Locking
    <2>2. (ready + Sending + Locking <= Inc(commitIndex))'
      BY <1>0, <2>1 DEF Inc
    <2> QED BY <2>1, <2>2 DEF SignalsCount
  <1>4. CASE ReceiveReady
    <2>1. /\ Sending' = Sending /\ Locking = 0 /\ Locking' = 1 /\ ready' = ready - 1 /\ ready > 0
          /\ UNCHANGED commitIndex /\ applier'.pc = "lock"
      BY <1>4 DEF ReceiveReady, Sending, Locking, Typed, TypeOK
    <2>2. (ready + Sending + Locking <= Inc(commitIndex))'
      BY <1>0, <2>1 DEF Inc
    <2> QED BY <2>1, <2>2 DEF SignalsCount
  <1>5. CASE ReadyClosed
    <2>1. Sending' = Sending /\ Locking' = 0 /\ UNCHANGED <<ready, closed, commitIndex>> /\ ready = 0 /\ closed
      BY <1>5 DEF ReadyClosed, Sending, Locking, Typed, TypeOK
    <2>2. (ready + Sending + Locking <= Inc(commitIndex))'
      BY <1>0, <2>1 DEF Inc
    <2> QED BY <2>1, <2>2 DEF SignalsCount
  <1>6. CASE TakeBatch \/ Push \/ BatchDone
    <2>1. applier'.pc \in {"push", "recv"} /\ UNCHANGED <<mu, ready, commitIndex>>
      BY <1>6 DEF TakeBatch, Push, BatchDone, IdleApplier, Typed, TypeOK
    <2>2. Sending' = Sending /\ Locking' = 0
      BY <2>1 DEF Sending, Locking
    <2>3. (ready + Sending + Locking <= Inc(commitIndex))'
      BY <1>0, <2>1, <2>2 DEF Inc
    <2> QED BY <2>1, <2>3 DEF SignalsCount
  <1>7. CASE Shutdown
    BY <1>7 DEF Shutdown, SignalsCount, Sending, Locking, Inc
  <1>8. ASSUME \E keep \in 0 .. MaxSubmits, k \in Key : Extend(keep, k)
        PROVE  UNCHANGED <<mu, commitIndex, ready, closed, applier>>
    BY <1>8 DEF Extend
  <1>9. ASSUME SignalClosed \/ ReadCommits \/ GetValue \/ getLog \/ UNCHANGED vars
        PROVE  UNCHANGED <<mu, commitIndex, ready, closed, applier>>
    BY <1>9 DEF SignalClosed, ReadCommits, ReceiveCommit, SetValue, SetIndex, GetValue,
                ReadValue, ReadIndex, EndRead, getLog, BeginPage, ReadEntry, EndPage, vars
  <1> QED
    BY <1>1, <1>2, <1>3, <1>4, <1>5, <1>6, <1>7, <1>8, <1>9
       DEF Next, Protocol, commitChannel

(* Where a goroutine has work, or the committer is blocked.                *)
LEMMA StuckOnlyThere ==
    ASSUME Typed, Stages, Signalled, SignalsCount PROVE StuckOnlyWhenFull
  <1> SUFFICES ASSUME stored < Inc(commitIndex), ~CanSignal, ~CanApply, ~CanStore
               PROVE  /\ mu = "commit" /\ ready = ReadyCap /\ applier.pc = "lock" /\ ~closed
                      /\ Inc(commitIndex) >= ReadyCap + 2
    BY DEF StuckOnlyWhenFull
  <1>0. /\ ready \in 0 .. ReadyCap /\ ReadyCap \in Nat \ {0} /\ ChanCap \in Nat \ {0}
        /\ mu \in {"free", "commit"} /\ applier.pc \in {"recv", "lock", "push", "done"}
        /\ applier.next \in Nat /\ applier.end \in Nat /\ stored \in Nat
        /\ commitIndex \in Index /\ lastApplied \in Index /\ Inc(commitIndex) \in Nat
    BY PipelineAssumption, IncFacts DEF Typed, TypeOK
  <1>1. consumer.pc = "recv" /\ Len(commitChan) = 0
    BY DEF CanStore, Typed, TypeOK
  <1>2. Pushed = stored
    BY <1>0, <1>1 DEF Stages, Taken
  <1>3. applier.pc # "push"
    BY <1>0, <1>1 DEF CanApply
  <1>4. lastApplied # commitIndex
    BY <1>0, <1>2, <1>3 DEF Pushed
  <1>5. mu = "commit" \/ ready > 0 \/ applier.pc = "lock"
    BY <1>4 DEF Signalled
  <1>6. CASE applier.pc = "recv"
    BY <1>0, <1>5, <1>6 DEF CanApply, CanSignal
  <1>7. CASE applier.pc = "done"
    BY <1>0, <1>5, <1>7 DEF SignalsCount, CanSignal
  <1>8. CASE applier.pc = "lock"
    <2>1. mu = "commit" /\ ~closed /\ ready = ReadyCap
      BY <1>0, <1>8 DEF CanApply, CanSignal
    <2>2. ready + 1 + 1 <= Inc(commitIndex)
      BY <1>8, <2>1 DEF SignalsCount, Sending, Locking
    <2> QED BY <1>0, <1>8, <2>1, <2>2
  <1> QED BY <1>0, <1>3, <1>6, <1>7, <1>8

-----------------------------------------------------------------------------
(* The last write of a key                                                 *)

LEMMA LastWriteIs ==
    ASSUME LastExists, Typed, NEW k \in Key, NEW n \in 0 .. Len(stateLog)
    PROVE  IsLast(k, n, LastWrite(k, n))
  <1> DEFINE W == {i \in 1 .. n : stateLog[i].key = k}
  <1>0. n \in Nat
    BY DEF Typed, TypeOK
  <1>1. PICK i \in 0 .. n : IsLast(k, n, i)
    BY DEF LastExists
  <1>2. CASE i = 0
    <2>1. W = {}
      BY <1>0, <1>1, <1>2 DEF IsLast
    <2> QED BY <1>1, <1>2, <2>1 DEF LastWrite, Latest
  <1>3. CASE i # 0
    <2>1. i \in W /\ \A j \in W : j <= i
      BY <1>0, <1>1, <1>3 DEF IsLast
    <2> DEFINE x == CHOOSE y \in W : \A j \in W : j <= y
    <2>2. x \in W /\ \A j \in W : j <= x
      BY <2>1
    <2>3. LastWrite(k, n) = x
      BY <2>1 DEF LastWrite, Latest
    <2> HIDE DEF x
    <2>4. IsLast(k, n, x)
      BY <1>0, <2>2 DEF IsLast
    <2> QED BY <2>3, <2>4
  <1> QED BY <1>2, <1>3

LEMMA LastWriteStep ==
    ASSUME LastExists, Typed, NEW k \in Key, NEW n \in Nat, n + 1 <= Len(stateLog)
    PROVE  LastWrite(k, n + 1) = IF stateLog[n + 1].key = k THEN n + 1 ELSE LastWrite(k, n)
  <1> DEFINE a == LastWrite(k, n)
             b == LastWrite(k, n + 1)
  <1>1. n \in 0 .. Len(stateLog) /\ n + 1 \in 0 .. Len(stateLog)
    BY DEF Typed, TypeOK
  <1>2. IsLast(k, n, a) /\ IsLast(k, n + 1, b)
    BY <1>1, LastWriteIs
  <1> HIDE DEF a, b
  <1>3. CASE stateLog[n + 1].key = k
    <2>1. b = n + 1
      BY <1>2, <1>3 DEF IsLast
    <2> QED BY <1>3, <2>1 DEF b
  <1>4. CASE stateLog[n + 1].key # k
    <2>1. b # n + 1 /\ b \in 0 .. n /\ a \in 0 .. n
      BY <1>2, <1>4 DEF IsLast
    <2>2. ~ a < b
      BY <1>2, <2>1 DEF IsLast
    <2>3. ~ b < a
      BY <1>2, <2>1 DEF IsLast
    <2> QED BY <1>4, <2>1, <2>2, <2>3 DEF a, b
  <1> QED BY <1>3, <1>4

LEMMA LastWriteKept ==
    ASSUME NEW keep \in Nat, \A i \in 1 .. keep : stateLog'[i] = stateLog[i],
           NEW k, NEW n \in 0 .. keep
    PROVE  LastWrite(k, n)' = LastWrite(k, n)
  <1>1. {i \in 1 .. n : stateLog'[i].key = k} = {i \in 1 .. n : stateLog[i].key = k}
    <2>1. \A i \in 1 .. n : i \in 1 .. keep
      OBVIOUS
    <2>2. \A i \in 1 .. n : stateLog'[i].key = stateLog[i].key
      BY <2>1
    <2> QED BY <2>2
  <1> QED BY <1>1 DEF LastWrite

LEMMA NextLastExists == ASSUME Typed, Stages, LastExists, [Next]_vars PROVE LastExists'
  <1>1. ASSUME NEW keep \in 0 .. MaxSubmits, NEW c \in Key, Extend(keep, c)
        PROVE  LastExists'
    <2>0. keep \in Nat
      BY PipelineAssumption
    <2>1. /\ keep \in Nat /\ keep <= Len(stateLog) /\ Len(stateLog') = keep + 1
          /\ stateLog'[keep + 1] = [key |-> c, value |-> submitted + 1]
          /\ \A i \in 1 .. keep : stateLog'[i] = stateLog[i]
      BY <1>1, <2>0, ExtendLog
    <2>a. stateLog'[keep + 1].key = c
      BY <2>1
    <2>2. SUFFICES ASSUME NEW k \in Key, NEW n \in 0 .. keep + 1
                   PROVE  \E i \in 0 .. n : IsLast(k, n, i)'
      BY <2>1 DEF LastExists
    <2>3. CASE n <= keep
      <3>1. n \in 0 .. Len(stateLog)
        BY <2>1, <2>3 DEF Typed, TypeOK
      <3>2. PICK i \in 0 .. n : IsLast(k, n, i)
        BY <3>1 DEF LastExists
      <3>3. IsLast(k, n, i)'
        BY <2>1, <2>3, <3>1, <3>2 DEF IsLast
      <3> QED BY <3>3
    <2>4. CASE n = keep + 1
      <3>1. keep \in 0 .. Len(stateLog)
        BY <2>1 DEF Typed, TypeOK
      <3>2. PICK i \in 0 .. keep : IsLast(k, keep, i)
        BY <3>1 DEF LastExists
      <3>3. CASE c = k
        <4>1. IsLast(k, n, n)'
          BY <2>1, <2>a, <2>4, <3>3 DEF IsLast
        <4> QED BY <2>1, <2>4, <4>1
      <3>4. CASE c # k
        <4>1. IsLast(k, n, i)'
          BY <2>1, <2>a, <2>4, <3>2, <3>4 DEF IsLast
        <4> QED BY <2>1, <2>4, <4>1
      <3> QED BY <3>3, <3>4
    <2> QED BY <2>1, <2>3, <2>4
  <1>2. CASE UNCHANGED stateLog
    BY <1>2 DEF LastExists, IsLast
  <1>3. ASSUME ~ \E keep \in 0 .. MaxSubmits, k \in Key : Extend(keep, k)
        PROVE  UNCHANGED stateLog
    BY <1>3, NextCases, BesideLeaves
       DEF RaiseCommit, TakeBatch, Push, BatchDone, ReceiveCommit, SetValue, SetIndex, raftVars
  <1> QED BY <1>1, <1>2, <1>3

(* Every step keeps what LastWrite says of the entries that are stored.    *)
LEMMA StoredKept ==
    ASSUME Typed, Stages, [Next]_vars, NEW k, NEW n \in 0 .. Inc(commitIndex)
    PROVE  /\ LastWrite(k, n)' = LastWrite(k, n)
           /\ n > 0 => stateLog'[n] = stateLog[n]
  <1>1. ASSUME NEW keep \in 0 .. MaxSubmits, NEW c \in Key, Extend(keep, c)
        PROVE  /\ LastWrite(k, n)' = LastWrite(k, n)
               /\ n > 0 => stateLog'[n] = stateLog[n]
    <2>0. keep \in Nat
      BY PipelineAssumption
    <2>1. /\ keep \in Nat /\ Inc(commitIndex) <= keep
          /\ \A i \in 1 .. keep : stateLog'[i] = stateLog[i]
      BY <1>1, <2>0, ExtendLog
    <2>2. n \in 0 .. keep /\ n \in Nat
      BY <2>1, StageBounds
    <2> QED BY <2>1, <2>2, LastWriteKept
  <1>2. CASE UNCHANGED stateLog
    BY <1>2 DEF LastWrite
  <1>3. ASSUME ~ \E keep \in 0 .. MaxSubmits, key \in Key : Extend(keep, key)
        PROVE  UNCHANGED stateLog
    BY <1>3, NextCases, BesideLeaves
       DEF RaiseCommit, TakeBatch, Push, BatchDone, ReceiveCommit, SetValue, SetIndex, raftVars
  <1> QED BY <1>1, <1>2, <1>3

-----------------------------------------------------------------------------
(* The two stores                                                          *)

(* How many entries committedLog has.                                      *)
Indexed == IF consumer.pc = "index" THEN stored - 1 ELSE stored

LEMMA StoresBounds ==
    ASSUME Typed, Stages, InFlight
    PROVE  /\ stored \in 0 .. Inc(commitIndex) /\ Indexed \in 0 .. Inc(commitIndex)
           /\ Indexed <= stored /\ stored \in Nat /\ Indexed \in Nat
           /\ stored \in 0 .. Len(stateLog) /\ Indexed \in 0 .. Len(stateLog)
           /\ consumer.pc = "value" => stored + 1 <= Inc(commitIndex)
  <1>1. stored \in Nat
    BY DEF Typed, TypeOK
  <1>2. consumer.pc = "index" => stored > 0
    BY DEF InFlight
  <1>3. Indexed \in Nat /\ Indexed <= stored
    BY <1>1, <1>2 DEF Indexed
  <1>4. consumer.pc = "value" => stored + 1 <= Inc(commitIndex)
    BY <1>1, StageBounds DEF Taken
  <1> QED BY <1>1, <1>3, <1>4, StageBounds

LEMMA IndexDef ==
    IndexFollowsValue <=>
        \A k \in Key : committedLog[k] = IF LastWrite(k, Indexed) = 0 THEN Missing
                                         ELSE LastWrite(k, Indexed) - 1
  BY DEF IndexFollowsValue, Indexed

(* Only ReadCommits moves the stores.                                      *)
LEMMA StoresLeft ==
    ASSUME Typed, [Next]_vars
    PROVE  \/ SetValue \/ SetIndex
           \/ UNCHANGED <<db, committedLog, stored, Indexed>>
  <1> USE DEF raftVars, chanVars, storeVars, restVars, Indexed
  <1>1. CASE \E keep \in 0 .. MaxSubmits, k \in Key : Extend(keep, k)
    BY <1>1 DEF Extend
  <1>2. CASE \E i \in 0 .. MaxSubmits : RaiseCommit(i)
    BY <1>2 DEF RaiseCommit
  <1>3. CASE TakeBatch \/ Push \/ BatchDone
    BY <1>3 DEF TakeBatch, Push, BatchDone
  <1>4. CASE ReceiveCommit
    BY <1>4 DEF ReceiveCommit
  <1>5. CASE Beside
    BY <1>5, BesideLeaves
  <1> QED BY <1>1, <1>2, <1>3, <1>4, <1>5, NextCases

LEMMA NextValueIsLast ==
    ASSUME Typed, Stages, InFlight, LastExists, ValueIsLast, [Next]_vars
    PROVE  ValueIsLast'
  <1> SUFFICES ASSUME NEW k \in Key
               PROVE  (db[k] = IF LastWrite(k, stored) = 0 THEN 0
                               ELSE stateLog[LastWrite(k, stored)].value)'
    BY DEF ValueIsLast
  <1> DEFINE a == LastWrite(k, stored)
  <1>0. IsLast(k, stored, a) /\ a \in 0 .. Inc(commitIndex) /\ a \in Nat
    <2>1. IsLast(k, stored, a)
      BY StoresBounds, LastWriteIs
    <2> QED BY <2>1, StoresBounds, StageBounds DEF IsLast
  <1>1. db[k] = IF a = 0 THEN 0 ELSE stateLog[a].value
    BY DEF ValueIsLast
  <1>2. a > 0 => stateLog'[a] = stateLog[a]
    BY <1>0, StoredKept
  <1>3. CASE SetValue
    <2> DEFINE b == LastWrite(k, stored + 1)
               h == consumer.hand[1].command
    <2>1. stored + 1 \in 0 .. Inc(commitIndex) /\ stored \in Nat
          /\ stored + 1 <= Len(stateLog) /\ stored + 1 > 0
      BY <1>3, StoresBounds, StageBounds DEF SetValue
    <2>2. b = IF stateLog[stored + 1].key = k THEN stored + 1 ELSE a
      BY <2>1, LastWriteStep
    <2>3. h = stateLog[stored + 1]
      BY <1>3 DEF SetValue, InFlight, EntryAt
    <2>4. stored' = stored + 1 /\ db' = [db EXCEPT ![h.key] = h.value]
      BY <1>3 DEF SetValue
    <2>5. stateLog'[stored + 1] = stateLog[stored + 1]
      BY <1>3 DEF SetValue, raftVars
    <2>6. LastWrite(k, stored)' = b
      BY <1>3, <2>4 DEF SetValue, LastWrite, raftVars
    <2>7. db'[k] = IF h.key = k THEN h.value ELSE db[k]
      BY <2>4 DEF Typed, TypeOK
    <2> HIDE DEF a, b, h
    <2> QED BY <1>0, <1>1, <1>2, <2>1, <2>2, <2>3, <2>5, <2>6, <2>7
  <1>4. CASE UNCHANGED <<db, stored>>
    <2>1. LastWrite(k, stored)' = a
      <3>1. \A n \in 0 .. Inc(commitIndex) : LastWrite(k, n)' = LastWrite(k, n)
        BY StoredKept
      <3> QED BY <1>4, <3>1, StoresBounds DEF LastWrite
    <2> HIDE DEF a
    <2> QED BY <1>0, <1>1, <1>2, <1>4, <2>1
  <1>5. CASE SetIndex
    BY <1>4, <1>5 DEF SetIndex
  <1> QED BY <1>3, <1>4, <1>5, StoresLeft

LEMMA NextIndexFollows ==
    ASSUME Typed, Stages, InFlight, LastExists, IndexFollowsValue, [Next]_vars
    PROVE  IndexFollowsValue'
  <1> SUFFICES ASSUME NEW k \in Key
               PROVE  (committedLog[k] = IF LastWrite(k, Indexed) = 0 THEN Missing
                                         ELSE LastWrite(k, Indexed) - 1)'
    BY DEF IndexFollowsValue, Indexed
  <1> DEFINE a == LastWrite(k, Indexed)
  <1>1. committedLog[k] = IF a = 0 THEN Missing ELSE a - 1
    BY IndexDef
  <1>2. CASE UNCHANGED <<committedLog, Indexed>>
    <2>1. LastWrite(k, Indexed)' = a
      <3>1. \A n \in 0 .. Inc(commitIndex) : LastWrite(k, n)' = LastWrite(k, n)
        BY StoredKept
      <3> QED BY <1>2, <3>1, StoresBounds DEF LastWrite
    <2> HIDE DEF a
    <2> QED BY <1>1, <1>2, <2>1 DEF Missing
  <1>3. CASE SetValue
    BY <1>2, <1>3 DEF SetValue, Indexed, Typed, Shape, TypeOK
  <1>4. CASE SetIndex
    <2> DEFINE b == LastWrite(k, stored)
               h == consumer.hand[1]
    <2>1. stored > 0 /\ Indexed = stored - 1 /\ h = EntryAt(stored)
      BY <1>4 DEF SetIndex, Indexed, InFlight
    <2>2. b = IF stateLog[stored].key = k THEN stored ELSE a
      <3>1. Indexed \in Nat /\ Indexed + 1 = stored /\ Indexed + 1 <= Len(stateLog)
        BY <2>1, StoresBounds
      <3> QED BY <3>1, LastWriteStep
    <2>3. Indexed' = stored /\ LastWrite(k, Indexed)' = b
      BY <1>4 DEF SetIndex, Indexed, IdleConsumer, LastWrite, raftVars
    <2>4. h.index = stored - 1 /\ h.command.key = stateLog[stored].key
      BY <2>1 DEF EntryAt
    <2>5. committedLog'[k] = IF h.command.key = k THEN h.index ELSE committedLog[k]
      BY <1>4 DEF SetIndex, Typed, TypeOK
    <2> HIDE DEF a, b, h
    <2> QED BY <1>1, <2>1, <2>2, <2>3, <2>4, <2>5, StoresBounds DEF Missing
  <1> QED BY <1>2, <1>3, <1>4, StoresLeft

-----------------------------------------------------------------------------
(* GetValue                                                                *)

LEMMA ReaderLeft ==
    ASSUME [Next]_vars
    PROVE  (\E k \in Key : ReadValue(k)) \/ ReadIndex \/ EndRead \/ UNCHANGED reader
  <1> USE DEF raftVars, chanVars, storeVars, restVars
  <1>1. CASE Protocol \/ Signal \/ SignalClosed
    BY <1>1 DEF Protocol, Extend, RaiseCommit, Shutdown, Signal, SignalClosed
  <1>2. CASE commitChannel
    BY <1>2 DEF commitChannel, ReceiveReady, ReadyClosed, TakeBatch, Push, BatchDone
  <1>3. CASE ReadCommits
    BY <1>3 DEF ReadCommits, ReceiveCommit, SetValue, SetIndex
  <1>4. CASE getLog
    BY <1>4 DEF getLog, BeginPage, ReadEntry, EndPage
  <1>5. CASE UNCHANGED vars
    BY <1>5 DEF vars
  <1> QED BY <1>1, <1>2, <1>3, <1>4, <1>5 DEF Next, GetValue

(* The write a read found is kept, and so is the one before it.            *)
LEMMA ReadKept ==
    ASSUME Typed, Stages, InFlight, LastExists, [Next]_vars,
           NEW i \in 1 .. stored, NEW k \in Key
    PROVE  /\ i \in 1 .. stored' /\ stateLog'[i] = stateLog[i]
           /\ LastWrite(k, i - 1)' = LastWrite(k, i - 1)
           /\ LastWrite(k, i - 1) <= i - 1 /\ LastWrite(k, i - 1) \in Nat
  <1>1. i \in Nat /\ i > 0 /\ i \in 0 .. Inc(commitIndex) /\ i - 1 \in 0 .. Inc(commitIndex)
        /\ i - 1 \in 0 .. Len(stateLog)
    BY StoresBounds, StageBounds
  <1>2. stored' = stored \/ stored' = stored + 1
    BY StoresLeft DEF SetValue, SetIndex
  <1>3. IsLast(k, i - 1, LastWrite(k, i - 1))
    BY <1>1, LastWriteIs
  <1>4. LastWrite(k, i - 1) <= i - 1 /\ LastWrite(k, i - 1) \in Nat
    BY <1>1, <1>3 DEF IsLast
  <1>5. stateLog'[i] = stateLog[i] /\ LastWrite(k, i - 1)' = LastWrite(k, i - 1)
    BY <1>1, StoredKept
  <1> QED BY <1>1, <1>2, <1>4, <1>5, StoresBounds

LEMMA ReadValueFollows ==
    ASSUME Typed, Stages, InFlight, LastExists, ValueIsLast, IndexFollowsValue,
           NEW k \in Key, db[k] # 0
    PROVE  \E i \in 1 .. stored :
              /\ stateLog[i] = [key |-> k, value |-> db[k]]
              /\ committedLog[k] + 1 >= LastWrite(k, i - 1)
  <1> DEFINE a == LastWrite(k, stored)
             c == LastWrite(k, Indexed)
             d == LastWrite(k, a - 1)
  <1>1. IsLast(k, stored, a) /\ IsLast(k, Indexed, c)
    BY StoresBounds, LastWriteIs
  <1>2. a # 0 /\ db[k] = stateLog[a].value
    BY DEF ValueIsLast
  <1>3. committedLog[k] = IF c = 0 THEN MaxUint64 ELSE c - 1
    BY IndexDef DEF Missing
  <1>4. Indexed = stored \/ (stored > 0 /\ Indexed + 1 = stored)
    BY StoresBounds DEF Indexed, InFlight
  <1>5. a \in 1 .. stored /\ a \in Nat /\ c \in Nat /\ stateLog[a].key = k
    BY <1>1, <1>2, StoresBounds DEF IsLast
  <1>6. a \in 1 .. Len(stateLog)
    BY <1>5, StoresBounds
  <1>7. stateLog[a] = [key |-> k, value |-> db[k]]
    <2>1. stateLog[a] \in Command
      BY <1>6, ElementOfSeq DEF Typed, TypeOK
    <2> QED BY <1>2, <1>5, <2>1 DEF Command
  <1>8. d \in Nat /\ d <= a - 1
    <2>1. a - 1 \in 0 .. Len(stateLog)
      BY <1>5, <1>6
    <2>2. IsLast(k, a - 1, d)
      BY <2>1, LastWriteIs
    <2> QED BY <1>5, <2>2 DEF IsLast
  <1>9. committedLog[k] + 1 >= d
    <2>1. CASE Indexed = stored
      <3>1. c = a
        BY <2>1
      <3> HIDE DEF a, c, d
      <3> QED BY <1>3, <1>5, <1>8, <3>1, PipelineAssumption
    <2>2. CASE stored > 0 /\ Indexed + 1 = stored
      <3>1. a = IF stateLog[stored].key = k THEN stored ELSE c
        <4>1. Indexed \in Nat /\ Indexed + 1 <= Len(stateLog)
          BY <2>2, StoresBounds
        <4>2. LastWrite(k, Indexed + 1) = IF stateLog[Indexed + 1].key = k THEN Indexed + 1
                                          ELSE LastWrite(k, Indexed)
          BY <4>1, LastWriteStep
        <4> QED BY <2>2, <4>2
      <3>2. CASE a = stored
        <4>1. a - 1 = Indexed
          BY <2>2, <3>2, StoresBounds
        <4>2. d = c
          BY <4>1
        <4> HIDE DEF a, c, d
        <4> QED BY <1>3, <1>5, <4>2, PipelineAssumption
      <3>3. CASE a # stored
        <4>1. a = c
          BY <3>1, <3>3
        <4> HIDE DEF a, c, d
        <4> QED BY <1>3, <1>5, <1>8, <4>1, PipelineAssumption
      <3> QED BY <3>2, <3>3
    <2> QED BY <1>4, <2>1, <2>2
  <1> QED BY <1>5, <1>7, <1>9

LEMMA NextReadFollows ==
    ASSUME Typed, Stages, InFlight, LastExists, ValueIsLast, IndexFollowsValue, ReadFollows,
           [Next]_vars
    PROVE  ReadFollows'
  <1> USE DEF raftVars, storeVars
  <1>1. ASSUME NEW k \in Key, ReadValue(k) PROVE ReadFollows'
    <2>1. /\ reader'.pc = "index" /\ reader'.key = k /\ reader'.value = db[k]
          /\ UNCHANGED <<stateLog, stored, committedLog>>
      BY <1>1 DEF ReadValue
    <2>2. CASE db[k] # 0
      <3>1. PICK i \in 1 .. stored :
              /\ stateLog[i] = [key |-> k, value |-> db[k]]
              /\ committedLog[k] + 1 >= LastWrite(k, i - 1)
        BY <2>2, ReadValueFollows
      <3>2. LastWrite(k, i - 1)' = LastWrite(k, i - 1)
        BY <2>1 DEF LastWrite
      <3> QED BY <2>1, <3>1, <3>2 DEF ReadFollows, ReadFrom
    <2>3. CASE db[k] = 0
      BY <2>1, <2>3 DEF ReadFollows
    <2> QED BY <2>2, <2>3
  <1>2. CASE ReadIndex
    <2>1. SUFFICES ASSUME reader'.pc = "success" PROVE ReadFrom(reader.index)'
      BY <1>2 DEF ReadIndex, ReadFollows, Typed, Shape
    <2>2. /\ reader.pc = "index" /\ reader.value # 0
          /\ reader'.index = committedLog[reader.key]
          /\ reader'.key = reader.key /\ reader'.value = reader.value
          /\ UNCHANGED <<stateLog, stored>>
      BY <1>2, <2>1 DEF ReadIndex, Typed, Shape
    <2>3. PICK i \in 1 .. stored :
              /\ stateLog[i] = [key |-> reader.key, value |-> reader.value]
              /\ committedLog[reader.key] + 1 >= LastWrite(reader.key, i - 1)
      BY <2>2 DEF ReadFollows, ReadFrom
    <2>4. LastWrite(reader.key, i - 1)' = LastWrite(reader.key, i - 1)
      BY <2>2 DEF LastWrite
    <2> QED BY <2>2, <2>3, <2>4 DEF ReadFrom
  <1>3. CASE EndRead
    BY <1>3 DEF EndRead, IdleReader, ReadFollows
  <1>4. CASE UNCHANGED reader
    <2>1. ASSUME reader.pc = "index", reader.value # 0
          PROVE  ReadFrom(committedLog[reader.key])'
      <3>1. PICK i \in 1 .. stored :
              /\ stateLog[i] = [key |-> reader.key, value |-> reader.value]
              /\ committedLog[reader.key] + 1 >= LastWrite(reader.key, i - 1)
        BY <2>1 DEF ReadFollows, ReadFrom
      <3>2. reader.key \in Key
        BY <2>1 DEF Typed, Shape
      <3>3. /\ i \in 1 .. stored' /\ stateLog'[i] = stateLog[i]
            /\ LastWrite(reader.key, i - 1) <= i - 1 /\ LastWrite(reader.key, i - 1) \in Nat
        BY <3>2, ReadKept
      <3>4. LastWrite(reader.key, i - 1)' = LastWrite(reader.key, i - 1)
        <4>1. \A k \in Key : LastWrite(k, i - 1)' = LastWrite(k, i - 1)
          BY ReadKept
        <4> QED BY <1>4, <3>2, <4>1 DEF LastWrite
      <3>5. committedLog'[reader.key] + 1 >= LastWrite(reader.key, i - 1)
        <4>1. CASE SetIndex
          <5>1. committedLog'[reader.key] \in {committedLog[reader.key], stored - 1}
            BY <1>4, <3>2, <4>1 DEF SetIndex, InFlight, EntryAt, Typed, TypeOK
          <5> QED BY <3>1, <3>3, <5>1, StoresBounds
        <4>2. CASE UNCHANGED committedLog
          BY <3>1, <4>2
        <4> QED BY <4>1, <4>2, StoresLeft DEF SetValue
      <3> QED BY <1>4, <3>1, <3>3, <3>4, <3>5 DEF ReadFrom
    <2>2. ASSUME reader.pc = "success" PROVE ReadFrom(reader.index)'
      <3>1. PICK i \in 1 .. stored :
              /\ stateLog[i] = [key |-> reader.key, value |-> reader.value]
              /\ reader.index + 1 >= LastWrite(reader.key, i - 1)
        BY <2>2 DEF ReadFollows, ReadFrom
      <3>2. reader.key \in Key
        BY <2>2 DEF Typed, Shape
      <3>3. i \in 1 .. stored' /\ stateLog'[i] = stateLog[i]
        BY <3>2, ReadKept
      <3>4. LastWrite(reader.key, i - 1)' = LastWrite(reader.key, i - 1)
        <4>1. \A k \in Key : LastWrite(k, i - 1)' = LastWrite(k, i - 1)
          BY ReadKept
        <4> QED BY <1>4, <3>2, <4>1 DEF LastWrite
      <3> QED BY <1>4, <3>1, <3>3, <3>4 DEF ReadFrom
    <2> QED BY <1>4, <2>1, <2>2 DEF ReadFollows
  <1> QED BY <1>1, <1>2, <1>3, <1>4, ReaderLeft

LEMMA CommittedIs ==
    ASSUME Typed, Stages
    PROVE  /\ Committed \in Seq(Command) /\ Len(Committed) = Inc(commitIndex)
           /\ \A j \in 1 .. Inc(commitIndex) : Committed[j] = stateLog[j]
  <1>1. \A j \in 1 .. Inc(commitIndex) : stateLog[j] \in Command
    BY StageBounds, ElementOfSeq DEF Typed, TypeOK
  <1> QED BY <1>1, StageBounds, SubSeqProperties DEF Committed

LEMMA ReadFollowsFresh ==
    ASSUME Typed, Stages, InFlight, LastExists, ReadFollows PROVE ReadIsFresh
  <1> SUFFICES ASSUME reader.pc = "success" PROVE
        \E i \in 1 .. Len(Committed) :
            /\ Committed[i] = [key |-> reader.key, value |-> reader.value]
            /\ reader.index + 1 >= LastWrite(reader.key, i - 1)
    BY DEF ReadIsFresh
  <1>1. PICK i \in 1 .. stored :
          /\ stateLog[i] = [key |-> reader.key, value |-> reader.value]
          /\ reader.index + 1 >= LastWrite(reader.key, i - 1)
    BY DEF ReadFollows, ReadFrom
  <1>2. /\ Len(Committed) = Inc(commitIndex)
        /\ \A j \in 1 .. Inc(commitIndex) : Committed[j] = stateLog[j]
    BY CommittedIs
  <1>3. i \in 1 .. Inc(commitIndex)
    BY StoresBounds, StageBounds
  <1> QED BY <1>1, <1>2, <1>3

-----------------------------------------------------------------------------
(* getLog                                                                  *)

LEMMA PageLeft ==
    ASSUME [Next]_vars
    PROVE  \/ \E keep \in 0 .. MaxSubmits, k \in Key : Extend(keep, k)
           \/ getLog
           \/ UNCHANGED page
  <1> USE DEF raftVars, chanVars, storeVars, restVars
  <1>1. CASE Protocol \/ Signal \/ SignalClosed
    BY <1>1 DEF Protocol, RaiseCommit, Shutdown, Signal, SignalClosed
  <1>2. CASE commitChannel
    BY <1>2 DEF commitChannel, ReceiveReady, ReadyClosed, TakeBatch, Push, BatchDone
  <1>3. CASE ReadCommits
    BY <1>3 DEF ReadCommits, ReceiveCommit, SetValue, SetIndex
  <1>4. CASE GetValue
    BY <1>4 DEF GetValue, ReadValue, ReadIndex, EndRead
  <1>5. CASE UNCHANGED vars
    BY <1>5 DEF vars
  <1> QED BY <1>1, <1>2, <1>3, <1>4, <1>5 DEF Next

LEMMA CommitGrows ==
    ASSUME Typed, Stages, [Next]_vars PROVE Inc(commitIndex) <= Inc(commitIndex')
  <1>0. Inc(commitIndex) <= Inc(commitIndex)
    BY StageBounds
  <1>1. ASSUME NEW i \in 0 .. MaxSubmits, RaiseCommit(i)
        PROVE  Inc(commitIndex) <= Inc(commitIndex')
    <2>1. Inc(commitIndex) <= i /\ commitIndex' = i
      BY <1>1, StageBounds DEF RaiseCommit
    <2>2. Inc(i) = i + 1
      BY IncFacts, IndexRange
    <2> QED BY <2>1, <2>2, StageBounds
  <1>2. CASE ~ \E i \in 0 .. MaxSubmits : RaiseCommit(i)
    <2>1. commitIndex' = commitIndex
      BY <1>2, NextCases, BesideLeaves
         DEF Extend, TakeBatch, Push, BatchDone, ReceiveCommit, SetValue, SetIndex, raftVars
    <2> QED BY <1>0, <2>1
  <1> QED BY <1>1, <1>2

(* What is written into the array of the page is not committed.            *)
LEMMA ExtendPage ==
    ASSUME Typed, Stages, PageFollows,
           NEW keep \in 0 .. MaxSubmits, NEW k \in Key, Extend(keep, k)
    PROVE  PageFollows'
  <1> DEFINE entry == [key |-> k, value |-> submitted + 1]
  <1>1. Rewritten(keep, entry) /\ UNCHANGED commitIndex
    BY DEF Extend
  <1>2. keep \in Nat /\ Inc(commitIndex) <= keep /\ Inc(commitIndex) \in Nat
    <2>1. keep \in Nat
      BY PipelineAssumption
    <2> QED BY <2>1, ExtendLog, StageBounds
  <1>3. entry \in Command
    BY PipelineAssumption DEF Extend, Command, Typed, TypeOK
  <1> HIDE DEF entry
  <1>4. /\ page'.pc = page.pc /\ page'.first = page.first /\ page'.next = page.next
        /\ page'.data = page.data /\ page'.committed = page.committed
        /\ Len(page'.array) = Len(page.array)
        /\ \A i \in 1 .. Len(page.array) : i <= keep => page'.array[i] = page.array[i]
    <2>1. CASE page' = [page EXCEPT !.array = IF page.shared /\ keep < Len(@)
                                      THEN [@ EXCEPT ![keep + 1] = entry] ELSE @]
      <3>1. CASE page.shared /\ keep < Len(page.array)
        <4> DEFINE t == [page.array EXCEPT ![keep + 1] = entry]
        <4>1. keep + 1 \in 1 .. Len(page.array) /\ page.array \in Seq(Command)
          BY <1>2, <3>1 DEF Typed, TypeOK
        <4>2. /\ Len(t) = Len(page.array)
              /\ \A j \in 1 .. Len(page.array) :
                    t[j] = IF j = keep + 1 THEN entry ELSE page.array[j]
          BY <1>3, <4>1, ExceptSeq
        <4>3. page' = [page EXCEPT !.array = t]
          BY <2>1, <3>1
        <4> HIDE DEF t
        <4>4. /\ page'.pc = page.pc /\ page'.first = page.first /\ page'.next = page.next
              /\ page'.data = page.data /\ page'.committed = page.committed
              /\ page'.array = t
          BY <4>3 DEF Typed, Shape
        <4> QED BY <1>2, <4>2, <4>4
      <3>2. CASE ~(page.shared /\ keep < Len(page.array))
        BY <2>1, <3>2 DEF Typed, Shape
      <3> QED BY <3>1, <3>2
    <2>2. CASE page.shared /\ page' = [page EXCEPT !.shared = FALSE]
      BY <2>2 DEF Typed, Shape
    <2> QED BY <1>1, <2>1, <2>2 DEF Rewritten
  <1>6. SUFFICES ASSUME page.pc = "read" PROVE PageFollows'
    BY <1>4 DEF PageFollows
  <1>7. Len(page.committed) <= keep /\ Len(page.committed) <= Len(page.array)
        /\ Len(page.committed) \in Nat /\ Len(page.array) \in Nat
    BY <1>2, <1>6 DEF PageFollows, Typed, Shape
  <1>8. \A i \in 1 .. Len(page.committed) : page'.array[i] = page.committed[i]
    <2> SUFFICES ASSUME NEW i \in 1 .. Len(page.committed)
                 PROVE  page'.array[i] = page.committed[i]
      OBVIOUS
    <2>1. i <= keep /\ i \in 1 .. Len(page.array)
      BY <1>2, <1>7
    <2> QED BY <1>4, <1>6, <2>1 DEF PageFollows
  <1> QED BY <1>1, <1>4, <1>6, <1>8 DEF PageFollows

LEMMA RequestPage ==
    ASSUME Typed, Stages, PageFollows, getLog PROVE PageFollows'
  <1>1. CASE BeginPage
    <2> DEFINE n == Len(stateLog)
    <2>1. /\ page'.pc = "read" /\ page'.array = stateLog /\ page'.next = n
          /\ page'.first = PageFrom(n) /\ page'.data = <<>> /\ page'.committed = Committed
          /\ UNCHANGED commitIndex
      BY <1>1 DEF BeginPage, raftVars
    <2>2. n \in Nat /\ Inc(commitIndex) <= n
      BY StageBounds
    <2>3. PageFrom(n) <= n /\ PageFrom(n) \in Nat
      BY <2>2, PipelineAssumption DEF PageFrom
    <2>4. Len(page'.data) = 0 /\ Len(page'.data) = n - n
      BY <2>1, <2>2
    <2>5. /\ Len(Committed) = Inc(commitIndex)
          /\ \A i \in 1 .. Len(Committed) : stateLog[i] = Committed[i]
      BY CommittedIs
    <2>6. n \in PageFrom(n) .. n /\ Inc(commitIndex) <= Inc(commitIndex)
      BY <2>2, <2>3, StageBounds
    <2>7. \A j \in 1 .. Len(page'.data) : FALSE
      BY <2>4
    <2> QED BY <2>1, <2>2, <2>4, <2>5, <2>6, <2>7 DEF PageFollows
  <1>2. CASE ReadEntry
    <2> DEFINE n == Len(page.array)
               m == page.next
               c == Len(page.committed)
    <2>0. page.pc = "read" /\ m > page.first
      BY <1>2 DEF ReadEntry
    <2>1. /\ n \in Nat /\ m \in Nat /\ page.first \in Nat /\ c \in Nat /\ c <= n
          /\ m \in 1 .. n /\ m \in page.first .. n /\ m - 1 \in page.first .. n
      BY <2>0 DEF PageFollows, Typed, Shape
    <2>2. page.data \in Seq(Command) /\ page.array[m] \in Command /\ Len(page.data) = n - m
      <3>1. page.data \in Seq(Command) /\ page.array \in Seq(Command)
        BY DEF Typed, TypeOK
      <3> QED BY <2>0, <2>1, <3>1, ElementOfSeq DEF PageFollows
    <2>3. /\ page'.pc = "read" /\ page'.array = page.array /\ page'.next = m - 1
          /\ page'.first = page.first /\ page'.committed = page.committed
          /\ page'.data = Append(page.data, page.array[m])
          /\ UNCHANGED commitIndex
      BY <1>2 DEF ReadEntry, Typed, Shape, raftVars
    <2>4. /\ Len(page'.data) = n - m + 1 /\ page'.data[n - m + 1] = page.array[m]
          /\ \A j \in 1 .. n - m : page'.data[j] = page.data[j]
      BY <2>2, <2>3, AppendFacts
    <2>5. Len(page'.data) = n - (m - 1)
      BY <2>1, <2>4
    <2>6. ASSUME NEW j \in 1 .. n - m + 1, n + 1 - j <= c
          PROVE  page'.data[j] = page.committed[n + 1 - j]
      <3>1. CASE j = n - m + 1
        <4>1. n + 1 - j = m /\ m \in 1 .. c
          BY <2>1, <2>6, <3>1
        <4> QED BY <2>0, <2>4, <3>1, <4>1 DEF PageFollows
      <3>2. CASE j \in 1 .. n - m
        BY <2>0, <2>2, <2>4, <2>6, <3>2 DEF PageFollows
      <3> QED BY <2>1, <3>1, <3>2
    <2>7. /\ page.first = PageFrom(n) /\ c <= Inc(commitIndex)
          /\ \A i \in 1 .. c : page.array[i] = page.committed[i]
      BY <2>0 DEF PageFollows
    <2> QED BY <2>1, <2>3, <2>4, <2>5, <2>6, <2>7 DEF PageFollows
  <1>3. CASE EndPage
    BY <1>3 DEF EndPage, NoPage, PageFollows
  <1> QED BY <1>1, <1>2, <1>3 DEF getLog

LEMMA NextPageFollows ==
    ASSUME Typed, Stages, Typed', Stages', PageFollows, [Next]_vars PROVE PageFollows'
  <1>1. CASE UNCHANGED page
    <2>1. commitIndex' \in Index /\ Len(page.committed) \in Nat
      BY DEF Typed, TypeOK, Shape
    <2>2. /\ Inc(commitIndex) <= Inc(commitIndex') /\ Inc(commitIndex) \in Nat
          /\ Inc(commitIndex') \in Nat
      BY <2>1, CommitGrows, StageBounds, IncFacts
    <2>3. \A n \in Nat : n <= Inc(commitIndex) => n <= Inc(commitIndex')
      BY <2>2
    <2>4. Inc(commitIndex)' = Inc(commitIndex')
      BY DEF Inc
    <2> QED BY <1>1, <2>1, <2>3, <2>4 DEF PageFollows
  <1> QED BY <1>1, PageLeft, ExtendPage, RequestPage

LEMMA PageFollowsShows ==
    ASSUME Typed, PageFollows PROVE PageShowsCommitted
  <1> SUFFICES ASSUME page.pc = "read", page.next = page.first
               PROVE  LET n == Len(page.array)
                      IN  /\ Len(page.data) = IF n < PageLimit THEN n ELSE PageLimit
                          /\ \A j \in DOMAIN page.data :
                                n + 1 - j <= Len(page.committed) =>
                                    page.data[j] = page.committed[n + 1 - j]
    BY DEF PageShowsCommitted
  <1>1. Len(page.array) \in Nat /\ DOMAIN page.data = 1 .. Len(page.data)
    BY DEF Typed, TypeOK
  <1>2. Len(page.data) = IF Len(page.array) < PageLimit THEN Len(page.array) ELSE PageLimit
    BY <1>1, PipelineAssumption DEF PageFollows, PageFrom
  <1> QED BY <1>1, <1>2 DEF PageFollows

-----------------------------------------------------------------------------
(* The invariant as a whole                                                *)

PipelineInv ==
    /\ Typed /\ Stages /\ InFlight /\ Signalled /\ SignalsCount
    /\ LastExists /\ ValueIsLast /\ IndexFollowsValue
    /\ ReadFollows /\ PageFollows

LEMMA InitPipeline == ASSUME Init PROVE PipelineInv
  <1>1. Typed /\ Stages
    BY InitTyped
  <1>2. Len(commitChan) = 0 /\ Len(stateLog) = 0 /\ consumer.pc = "recv"
    BY DEF Init, IdleConsumer
  <1>3. InFlight /\ Signalled
    BY <1>2 DEF Init, InFlight, Signalled
  <1>4. LastExists
    <2>1. \A k \in Key : \A n \in 0 .. Len(stateLog) : IsLast(k, n, 0)
      BY <1>2 DEF IsLast
    <2>2. \A n \in 0 .. Len(stateLog) : 0 \in 0 .. n
      BY <1>2
    <2> QED BY <2>1, <2>2 DEF LastExists
  <1>5. \A k : LastWrite(k, 0) = 0
    <2>1. \A k : {i \in 1 .. 0 : stateLog[i].key = k} = {}
      OBVIOUS
    <2> QED BY <2>1 DEF LastWrite, Latest
  <1>6. ValueIsLast /\ IndexFollowsValue
    BY <1>2, <1>5 DEF Init, ValueIsLast, IndexFollowsValue
  <1>7. ReadFollows /\ PageFollows
    BY DEF Init, IdleReader, NoPage, ReadFollows, PageFollows
  <1>8. SignalsCount
    BY PipelineAssumption DEF Init, IdleApplier, SignalsCount, Sending, Locking, Inc
  <1> QED BY <1>1, <1>3, <1>4, <1>6, <1>7, <1>8 DEF PipelineInv

LEMMA NextPipeline == ASSUME PipelineInv, [Next]_vars PROVE PipelineInv'
  <1> USE DEF PipelineInv
  <1>1. Typed' /\ Stages'
    BY NextTyped, NextStages
  <1>2. InFlight' /\ Signalled' /\ SignalsCount'
    BY NextInFlight, NextSignalled, NextSignalsCount
  <1>3. LastExists' /\ ValueIsLast'
    BY NextLastExists, NextValueIsLast
  <1>4. IndexFollowsValue' /\ ReadFollows'
    BY NextIndexFollows, NextReadFollows
  <1>5. PageFollows'
    BY <1>1, NextPageFollows
  <1> QED BY <1>1, <1>2, <1>3, <1>4, <1>5

LEMMA PipelineAlways == Spec => []PipelineInv
  BY InitPipeline, NextPipeline, PTL DEF Spec

(* Every variable of the pipeline keeps its type.                          *)
THEOREM PipelineTypeCorrect == Spec => []TypeOK
  <1>1. PipelineInv => TypeOK
    BY DEF PipelineInv, Typed
  <1> QED BY <1>1, PipelineAlways, PTL

(* commitReadyChan: an applier that waits with nothing in the channel, and *)
(* nobody about to send, has taken every committed entry.                  *)
THEOREM SignalsAreKept == Spec => []NoLostSignal
  <1>1. PipelineInv => NoLostSignal
    BY DEF PipelineInv, Signalled, NoLostSignal, Typed, TypeOK
  <1> QED BY <1>1, PipelineAlways, PTL

(* The pipeline has one deadlock and no other: a committer that holds      *)
(* raft.mu before a full commitReadyChan while commitChannel, the only     *)
(* receiver, waits for raft.mu.  While fewer than ReadyCap + 2 entries are *)
(* committed, work that is left can always go on.                          *)
THEOREM PipelineStuckOnlyWhenFull == Spec => []StuckOnlyWhenFull
  <1>1. PipelineInv => StuckOnlyWhenFull
    BY StuckOnlyThere DEF PipelineInv
  <1> QED BY <1>1, PipelineAlways, PTL

(* ReadCommits: committedLog has the index of the value in db, or the one  *)
(* before while the second store is under way.                             *)
THEOREM IndexAlwaysFollows == Spec => []IndexFollowsValue
  <1>1. PipelineInv => IndexFollowsValue
    BY DEF PipelineInv
  <1> QED BY <1>1, PipelineAlways, PTL

(* GetValue: an index older than the write before the value is never       *)
(* returned with it.                                                       *)
THEOREM ReadsAreFresh == Spec => []ReadIsFresh
  <1>1. PipelineInv => ReadIsFresh
    BY ReadFollowsFresh DEF PipelineInv
  <1> QED BY <1>1, PipelineAlways, PTL

(* getLog: what was committed when the page was asked for is shown as it   *)
(* was committed.                                                          *)
THEOREM PagesShowCommitted == Spec => []PageShowsCommitted
  <1>1. PipelineInv => PageShowsCommitted
    BY PageFollowsShows DEF PipelineInv
  <1> QED BY <1>1, PipelineAlways, PTL

-----------------------------------------------------------------------------
(* The refinement                                                          *)

LEMMA InitStore == ASSUME Init PROVE KV!KVInit
  <1>1. Inc(commitIndex) = 0
    BY DEF Init, Inc
  <1>2. Committed = <<>>
    BY <1>1, SubSeqEmpty DEF Committed
  <1> QED BY <1>2 DEF Init, KV!KVInit

(* Committed changes when commitIndex does.                                *)
LEMMA CommittedKept ==
    ASSUME Typed, Stages, Typed', Stages', [Next]_vars, UNCHANGED commitIndex
    PROVE  UNCHANGED Committed
  <1> DEFINE C == Committed
             D == Committed'
  <1>1. /\ C \in Seq(Command) /\ Len(C) = Inc(commitIndex)
        /\ \A j \in 1 .. Inc(commitIndex) : C[j] = stateLog[j]
    BY CommittedIs
  <1>2. Inc(commitIndex) \in Nat /\ Inc(commitIndex)' = Inc(commitIndex)
    BY StageBounds DEF Inc
  <1>3. \A j \in 1 .. Inc(commitIndex) : stateLog'[j] = stateLog[j] /\ stateLog[j] \in Command
    <2> SUFFICES ASSUME NEW j \in 1 .. Inc(commitIndex)
                 PROVE  stateLog'[j] = stateLog[j] /\ stateLog[j] \in Command
      OBVIOUS
    <2>1. j \in 0 .. Inc(commitIndex) /\ j > 0
      BY <1>2
    <2>2. stateLog'[j] = stateLog[j]
      BY <2>1, StoredKept
    <2> QED BY <1>1, <2>2, ElementOfSeq
  <1>4. D = SubSeq(stateLog', 1, Inc(commitIndex))
    BY <1>2 DEF Committed
  <1>5. /\ D \in Seq(Command) /\ Len(D) = Inc(commitIndex)
        /\ \A j \in 1 .. Inc(commitIndex) : D[j] = stateLog'[j]
    BY <1>2, <1>3, <1>4, SubSeqProperties
  <1> HIDE DEF C, D
  <1>6. C = D
    BY <1>1, <1>3, <1>5, SeqEqual
  <1> QED BY <1>6 DEF C, D

LEMMA RaiseIsCommit ==
    ASSUME PipelineInv, NEW i \in 0 .. MaxSubmits, RaiseCommit(i) PROVE KV!Commit
  <1> DEFINE C == Committed
             D == Committed'
             c == Inc(commitIndex)
  <1>0. Typed /\ Stages
    BY DEF PipelineInv
  <1>1. /\ C \in Seq(Command) /\ Len(C) = c
        /\ \A j \in 1 .. c : C[j] = stateLog[j]
    BY <1>0, CommittedIs
  <1>2. /\ c <= i /\ i + 1 <= Len(stateLog) /\ commitIndex' = i
        /\ UNCHANGED <<stateLog, stored, db>> /\ c \in Nat /\ i \in Nat
    BY <1>0, StageBounds, PipelineAssumption DEF RaiseCommit, raftVars, storeVars
  <1>3. Inc(i) = i + 1
    BY IncFacts, IndexRange
  <1>4. D = SubSeq(stateLog, 1, i + 1)
    BY <1>2, <1>3 DEF Committed, Inc
  <1>5. \A j \in 1 .. i + 1 : stateLog[j] \in Command
    <2>1. stateLog \in Seq(Command)
      BY <1>0 DEF Typed, TypeOK
    <2> QED BY <1>2, <2>1, ElementOfSeq
  <1>6. /\ D \in Seq(Command) /\ Len(D) = i + 1
        /\ \A j \in 1 .. i + 1 : D[j] = stateLog[j]
    BY <1>2, <1>4, <1>5, SubSeqProperties
  <1> HIDE DEF C, D, c
  <1>7. SubSeq(D, 1, c) = C
    <2>1. \A j \in 1 .. c : D[j] \in Command /\ D[j] = C[j]
      BY <1>1, <1>2, <1>5, <1>6
    <2>2. /\ SubSeq(D, 1, c) \in Seq(Command) /\ Len(SubSeq(D, 1, c)) = c
          /\ \A j \in 1 .. c : SubSeq(D, 1, c)[j] = D[j]
      BY <1>2, <2>1, SubSeqProperties
    <2> QED BY <1>1, <2>1, <2>2, SeqEqual
  <1>8. \A j \in 1 .. Len(D) : D[j] \in KV!Command
    <2>1. \A j \in 1 .. Len(D) : D[j] \in Command
      BY <1>5, <1>6
    <2>2. Command \subseteq KV!Command
      BY PipelineAssumption DEF Command, KV!Command
    <2> QED BY <2>1, <2>2
  <1>9. Len(D) > Len(C) /\ SubSeq(D, 1, Len(C)) = C
    BY <1>1, <1>2, <1>6, <1>7
  <1> QED BY <1>2, <1>8, <1>9 DEF KV!Commit, C, D

LEMMA SetValueIsTake ==
    ASSUME PipelineInv, PipelineInv', [Next]_vars, SetValue PROVE KV!Take
  <1>0. Typed /\ Stages /\ InFlight /\ Typed' /\ Stages'
    BY DEF PipelineInv
  <1>1. UNCHANGED Committed
    BY <1>0, CommittedKept DEF SetValue, raftVars
  <1>2. stored \in Nat /\ stored + 1 <= Inc(commitIndex) /\ Inc(commitIndex) \in Nat
    BY <1>0, StoresBounds, StageBounds DEF SetValue
  <1>3. stored < Len(Committed) /\ Committed[stored + 1] = stateLog[stored + 1]
    BY <1>0, <1>2, CommittedIs
  <1>4. consumer.hand[1].command = stateLog[stored + 1]
    BY <1>0 DEF SetValue, InFlight, EntryAt
  <1> QED BY <1>1, <1>3, <1>4 DEF SetValue, KV!Take

LEMMA NextStore ==
    ASSUME PipelineInv, PipelineInv', [Next]_vars
    PROVE  [KV!Commit \/ KV!Take]_(KV!kvVars)
  <1>0. Typed /\ Stages /\ Typed' /\ Stages'
    BY DEF PipelineInv
  <1>1. CASE \E i \in 0 .. MaxSubmits : RaiseCommit(i)
    BY <1>1, RaiseIsCommit
  <1>2. CASE SetValue
    BY <1>2, SetValueIsTake
  <1>3. CASE ~SetValue /\ ~ \E i \in 0 .. MaxSubmits : RaiseCommit(i)
    <2>1. UNCHANGED <<commitIndex, db, stored>>
      <3>1. UNCHANGED <<db, stored>>
        BY <1>0, <1>3, StoresLeft DEF SetIndex
      <3>2. UNCHANGED commitIndex
        BY <1>0, <1>3, NextCases, BesideLeaves
           DEF Extend, TakeBatch, Push, BatchDone, ReceiveCommit, SetIndex, raftVars
      <3> QED BY <3>1, <3>2
    <2>2. UNCHANGED Committed
      BY <1>0, <2>1, CommittedKept
    <2> QED BY <2>1, <2>2 DEF KV!kvVars
  <1> QED BY <1>1, <1>2, <1>3

(* The server implements KeyValueStore: RaiseCommit commits, the first     *)
(* store of ReadCommits takes, and every other step leaves both the        *)
(* committed commands and db as they were.                                 *)
THEOREM PipelineImplementsStore == Spec => ImplementsStore
  <1>1. Init => KV!KVInit
    BY InitStore
  <1>2. PipelineInv /\ PipelineInv' /\ [Next]_vars => [KV!Commit \/ KV!Take]_(KV!kvVars)
    BY NextStore
  <1> QED BY <1>1, <1>2, PipelineAlways, PTL DEF Spec, ImplementsStore, KV!KVSpec
=============================================================================
