---------------------------- MODULE CommitPipeline ----------------------------
(***************************************************************************)
(* How a committed entry reaches the store of one server.                  *)
(*                                                                         *)
(*   AppendEntries or broadcastMsg   raises commitIndex and, with raft.mu  *)
(*                                   held, signals commitReadyChan;        *)
(*   commitChannel                   takes a signal, locks raft.mu, cuts   *)
(*                                   the new entries out of stateLog, and  *)
(*                                   pushes them to commitChan;            *)
(*   ReadCommits                     stores each one in db and its index   *)
(*                                   in committedLog;                      *)
(*   GetValue                        reads db, then committedLog;          *)
(*   getLog                          makes a page of the last entries.     *)
(*                                                                         *)
(* The rest of the cluster is the environment: it extends the log, cuts    *)
(* off and replaces entries that are not committed, and commits.  Values   *)
(* are numbered as they are submitted, so that each is written once.       *)
(***************************************************************************)
EXTENDS Naturals, Sequences

CONSTANTS
    Key,         \* the keys clients write
    MaxUint64,   \* math.MaxUint64, what "-1" wraps to
    ReadyCap,    \* capacity of commitReadyChan, 32 in the code
    ChanCap,     \* capacity of commitProducer, 32 in the code
    PageLimit,   \* entries on a page of the log, 5 unless the client asks for more
    MaxSubmits   \* bound: entries ever appended to the log

ASSUME PipelineAssumption ==
    /\ ReadyCap \in Nat \ {0} /\ ChanCap \in Nat \ {0}
    /\ MaxSubmits \in Nat /\ PageLimit \in Nat
    /\ MaxUint64 \in Nat /\ MaxSubmits < MaxUint64

VARIABLES
    mu,            \* raft.mu: "free", or held by the goroutine that commits
    stateLog,      \* raft.stateLog, the commands only
    submitted,     \* how many entries were ever appended
    commitIndex,   \* raft.volatileState.commitIndex
    lastApplied,   \* raft.volatileState.lastApplied
    ready,         \* signals in commitReadyChan, whose contents nobody reads
    closed,        \* Shutdown has closed commitReadyChan
    panicked,      \* a send on the closed channel ended the process
    applier,       \* commitChannel: where it is and what it still has to push
    commitChan,    \* the CommitEntry values in the channel
    consumer,      \* ReadCommits: where it is and the entry in its hands
    db,            \* s.db, 0 for a missing key
    committedLog,  \* s.committedLog, Missing for a missing key
    stored,        \* ghost: how many entries ReadCommits has put in db
    reader,        \* a GetValue call
    page           \* a getLog request: the slice it holds and what it has read

raftVars  == <<stateLog, submitted, commitIndex>>
chanVars  == <<ready, closed, panicked>>
storeVars == <<consumer, db, committedLog, stored>>
restVars  == <<reader, page>>
vars == <<mu, raftVars, lastApplied, chanVars, applier, commitChan, storeVars, restVars>>

-----------------------------------------------------------------------------
None == "none"
Missing == MaxUint64   \* what committedLog has for a key without an index
Command == [key : Key, value : 1 .. MaxSubmits]
Index == 0 .. MaxUint64
CommitEntry == [command : Command, index : Index]

(* uint64 increment, which wraps.                                          *)
Inc(i) == IF i = MaxUint64 THEN 0 ELSE i + 1

Committed == SubSeq(stateLog, 1, Inc(commitIndex))

IdleApplier  == [pc |-> "recv", next |-> 0, end |-> 0]
IdleConsumer == [pc |-> "recv", hand |-> <<>>]
IdleReader   == [pc |-> "idle", key |-> None, value |-> 0, index |-> Missing]
NoPage       == [pc |-> "idle", array |-> <<>>, shared |-> FALSE, next |-> 0,
                 first |-> 0, data |-> <<>>, committed |-> <<>>]

Init ==
    /\ mu = "free" /\ stateLog = <<>> /\ submitted = 0
    /\ commitIndex = MaxUint64 /\ lastApplied = MaxUint64
    /\ ready = 0 /\ closed = FALSE /\ panicked = FALSE
    /\ applier = IdleApplier /\ commitChan = <<>>
    /\ consumer = IdleConsumer /\ stored = 0
    /\ db = [k \in Key |-> 0]
    /\ committedLog = [k \in Key |-> Missing]
    /\ reader = IdleReader /\ page = NoPage

Running == ~panicked

-----------------------------------------------------------------------------
(* The protocol, as far as the pipeline sees it.  Each step is a critical  *)
(* section of raft.mu.                                                     *)

(* append in Go: it writes into the array of the log, which the page may   *)
(* share, or makes a new array when that one is too small.                 *)
Rewritten(keep, entry) ==
    \/ page' = [page EXCEPT !.array = IF page.shared /\ keep < Len(@)
                                      THEN [@ EXCEPT ![keep + 1] = entry] ELSE @]
    \/ page.shared /\ page' = [page EXCEPT !.shared = FALSE]

(* Submit on a leader, with keep the whole log, or the append in           *)
(* AppendEntries, which replaces what follows the kept entries.  Committed *)
(* entries are kept: that is for the protocol to guarantee.                *)
Extend(keep, k) ==
    /\ Running /\ mu = "free"
    /\ keep \in Inc(commitIndex) .. Len(stateLog)
    /\ submitted < MaxSubmits
    /\ submitted' = submitted + 1
    /\ LET entry == [key |-> k, value |-> submitted + 1]
       IN  stateLog' = Append(SubSeq(stateLog, 1, keep), entry) /\ Rewritten(keep, entry)
    /\ UNCHANGED <<mu, commitIndex, lastApplied, chanVars,
                   applier, commitChan, storeVars, reader>>

(* Mutant of RaiseCommit: a path that forgets to signal.                   *)
RaiseCommitSilently(i) ==
    /\ Running /\ mu = "free"
    /\ i \in Inc(commitIndex) .. MaxSubmits
    /\ i < Len(stateLog)
    /\ commitIndex' = i
    /\ UNCHANGED <<mu, stateLog, submitted, lastApplied, chanVars, applier,
                   commitChan, storeVars, restVars>>

(* setCommitIndex in AppendEntries and broadcastMsg.  The goroutine keeps  *)
(* raft.mu until its signal is in commitReadyChan.  The commit past an     *)
(* empty log (consensus.go:285) is left to Raft.                           *)
RaiseCommit(i) ==
    /\ Running /\ mu = "free"
    /\ i \in Inc(commitIndex) .. MaxSubmits
    /\ i < Len(stateLog)
    /\ mu' = "commit"
    /\ commitIndex' = i
    /\ UNCHANGED <<stateLog, submitted, lastApplied, chanVars, applier,
                   commitChan, storeVars, restVars>>

(* raft.commitReadyChan <- CommitReady{...}, then the deferred unlock.     *)
Signal ==
    /\ Running /\ mu = "commit" /\ ~closed
    /\ ready < ReadyCap
    /\ ready' = ready + 1
    /\ mu' = "free"
    /\ UNCHANGED <<raftVars, lastApplied, closed, panicked, applier, commitChan,
                   storeVars, restVars>>

(* The same send once Shutdown has closed the channel.                     *)
SignalClosed ==
    /\ Running /\ mu = "commit" /\ closed
    /\ panicked' = TRUE
    /\ UNCHANGED <<mu, raftVars, lastApplied, ready, closed, applier, commitChan,
                   storeVars, restVars>>

Shutdown ==
    /\ Running /\ mu = "free" /\ ~closed
    /\ closed' = TRUE
    /\ UNCHANGED <<mu, raftVars, lastApplied, ready, panicked, applier, commitChan,
                   storeVars, restVars>>

-----------------------------------------------------------------------------
(* commitChannel                                                           *)

ReceiveReady ==
    /\ Running /\ applier.pc = "recv"
    /\ ready > 0
    /\ ready' = ready - 1
    /\ applier' = [applier EXCEPT !.pc = "lock"]
    /\ UNCHANGED <<mu, raftVars, lastApplied, closed, panicked, commitChan,
                   storeVars, restVars>>

(* The range loop ends when the channel is closed and drained.             *)
ReadyClosed ==
    /\ Running /\ applier.pc = "recv"
    /\ ready = 0 /\ closed
    /\ applier' = [applier EXCEPT !.pc = "done"]
    /\ UNCHANGED <<mu, raftVars, lastApplied, chanVars, commitChan, storeVars, restVars>>

(* The bounds of stateLog[LastApplied()+1 : CommitIndex()+1], as a count   *)
(* of entries to skip and a count to stop at.  The mutants forget the      *)
(* increment, and lastApplied.                                             *)
FromLastApplied(i) == i
FromStart(i) == 0
From(i) == Inc(i)

(* The critical section: the new entries, as a slice of the log's array.   *)
TakeBatch ==
    /\ Running /\ applier.pc = "lock" /\ mu = "free"
    /\ IF commitIndex > lastApplied \/ lastApplied = MaxUint64
       THEN /\ applier' = [pc |-> "push", next |-> From(lastApplied),
                           end |-> Inc(commitIndex)]
            /\ lastApplied' = commitIndex
       ELSE /\ applier' = IdleApplier
            /\ UNCHANGED lastApplied
    /\ UNCHANGED <<mu, raftVars, chanVars, commitChan, storeVars, restVars>>

(* commitChan <- CommitEntry{...}: the entry is read from the array now,   *)
(* without the lock.  Its term, which nobody reads, is left out.           *)
Push ==
    /\ Running /\ applier.pc = "push" /\ applier.next < applier.end
    /\ Len(commitChan) < ChanCap
    /\ commitChan' = Append(commitChan,
           [command |-> stateLog[applier.next + 1], index |-> applier.next])
    /\ applier' = [applier EXCEPT !.next = @ + 1]
    /\ UNCHANGED <<mu, raftVars, lastApplied, chanVars, storeVars, restVars>>

BatchDone ==
    /\ Running /\ applier.pc = "push" /\ applier.next = applier.end
    /\ applier' = IdleApplier
    /\ UNCHANGED <<mu, raftVars, lastApplied, chanVars, commitChan, storeVars, restVars>>

-----------------------------------------------------------------------------
(* ReadCommits                                                             *)

ReceiveCommit ==
    /\ Running /\ consumer.pc = "recv"
    /\ commitChan # <<>>
    /\ consumer' = [pc |-> "value", hand |-> <<Head(commitChan)>>]
    /\ commitChan' = Tail(commitChan)
    /\ UNCHANGED <<mu, raftVars, lastApplied, chanVars, applier, db, committedLog,
                   stored, restVars>>

SetValue ==
    /\ Running /\ consumer.pc = "value"
    /\ db' = [db EXCEPT ![consumer.hand[1].command.key] = consumer.hand[1].command.value]
    /\ stored' = stored + 1
    /\ consumer' = [consumer EXCEPT !.pc = "index"]
    /\ UNCHANGED <<mu, raftVars, lastApplied, chanVars, applier, commitChan,
                   committedLog, restVars>>

(* Mutant of SetIndex: keeps the first index of a key.                     *)
SetIndexOnce ==
    /\ Running /\ consumer.pc = "index"
    /\ committedLog' = [committedLog EXCEPT ![consumer.hand[1].command.key] =
                            IF @ = Missing THEN consumer.hand[1].index ELSE @]
    /\ consumer' = IdleConsumer
    /\ UNCHANGED <<mu, raftVars, lastApplied, chanVars, applier, commitChan, db,
                   stored, restVars>>

SetIndex ==
    /\ Running /\ consumer.pc = "index"
    /\ committedLog' = [committedLog EXCEPT ![consumer.hand[1].command.key] =
                            consumer.hand[1].index]
    /\ consumer' = IdleConsumer
    /\ UNCHANGED <<mu, raftVars, lastApplied, chanVars, applier, commitChan, db,
                   stored, restVars>>

-----------------------------------------------------------------------------
(* GetValue                                                                *)

(* Bound: one request at a time.  Requests only read, so no two of them    *)
(* affect each other.                                                      *)
NoRequest == reader.pc = "idle" /\ page.pc = "idle"

ReadValue(k) ==
    /\ Running /\ NoRequest
    /\ reader' = [pc |-> "index", key |-> k, value |-> db[k], index |-> Missing]
    /\ UNCHANGED <<mu, raftVars, lastApplied, chanVars, applier, commitChan, storeVars, page>>

(* Success is set when both stores have the key; ReadUint64 makes 0 of a   *)
(* missing index.                                                          *)
ReadIndex ==
    /\ Running /\ reader.pc = "index"
    /\ reader' = [reader EXCEPT
           !.index = IF committedLog[reader.key] = Missing THEN 0
                     ELSE committedLog[reader.key],
           !.pc = IF reader.value # 0 /\ committedLog[reader.key] # Missing
                  THEN "success" ELSE "failure"]
    /\ UNCHANGED <<mu, raftVars, lastApplied, chanVars, applier, commitChan, storeVars, page>>

(* The context ends before a read, or the call is over.                    *)
EndRead ==
    /\ Running /\ reader.pc # "idle"
    /\ reader' = IdleReader
    /\ UNCHANGED <<mu, raftVars, lastApplied, chanVars, applier, commitChan, storeVars, page>>

-----------------------------------------------------------------------------
(* getLog: the page is filled from the last entry back, without the lock,  *)
(* from the array the log had when it was asked for.                       *)

(* chunkSize, the first entry on the page; the mutant is off by one.       *)
PageFromNext(n) == IF n > PageLimit THEN n - PageLimit + 1 ELSE 0
PageFrom(n) == IF n > PageLimit THEN n - PageLimit ELSE 0

BeginPage ==
    /\ Running /\ NoRequest /\ mu = "free"
    /\ page' = [pc |-> "read", array |-> stateLog, shared |-> TRUE,
                next |-> Len(stateLog), first |-> PageFrom(Len(stateLog)),
                data |-> <<>>, committed |-> Committed]
    /\ UNCHANGED <<mu, raftVars, lastApplied, chanVars, applier, commitChan, storeVars, reader>>

ReadEntry ==
    /\ Running /\ page.pc = "read" /\ page.next > page.first
    /\ page' = [page EXCEPT !.data = Append(@, page.array[page.next]), !.next = @ - 1]
    /\ UNCHANGED <<mu, raftVars, lastApplied, chanVars, applier, commitChan, storeVars, reader>>

EndPage ==
    /\ Running /\ page.pc = "read" /\ page.next = page.first
    /\ page' = NoPage
    /\ UNCHANGED <<mu, raftVars, lastApplied, chanVars, applier, commitChan, storeVars, reader>>

-----------------------------------------------------------------------------
commitChannel == ReceiveReady \/ ReadyClosed \/ TakeBatch \/ Push \/ BatchDone
ReadCommits   == ReceiveCommit \/ SetValue \/ SetIndex
GetValue      == (\E k \in Key : ReadValue(k)) \/ ReadIndex \/ EndRead
getLog        == BeginPage \/ ReadEntry \/ EndPage

Protocol ==
    \/ \E keep \in 0 .. MaxSubmits, k \in Key : Extend(keep, k)
    \/ \E i \in 0 .. MaxSubmits : RaiseCommit(i)
    \/ Shutdown

Next == Protocol \/ Signal \/ SignalClosed \/ commitChannel \/ ReadCommits
        \/ GetValue \/ getLog

Spec == Init /\ [][Next]_vars

(* The scheduler runs every goroutine that can run.  Nothing is assumed of *)
(* the environment.                                                        *)
FairSpec ==
    /\ Spec
    /\ WF_vars(Signal \/ SignalClosed)
    /\ WF_vars(commitChannel)
    /\ WF_vars(ReadCommits)

-----------------------------------------------------------------------------
(* Properties                                                              *)

(* Every variable has its type.                                            *)
TypeOK ==
    /\ mu \in {"free", "commit"}
    /\ stateLog \in Seq(Command) /\ Len(stateLog) <= submitted
    /\ submitted \in 0 .. MaxSubmits
    /\ commitIndex \in Index /\ lastApplied \in Index
    /\ ready \in 0 .. ReadyCap /\ closed \in BOOLEAN /\ panicked \in BOOLEAN
    /\ applier \in [pc : {"recv", "lock", "push", "done"}, next : 0 .. MaxSubmits,
                    end : 0 .. MaxSubmits]
    /\ commitChan \in Seq(CommitEntry) /\ Len(commitChan) <= ChanCap
    /\ consumer.pc \in {"recv", "value", "index"} /\ consumer.hand \in Seq(CommitEntry)
    /\ Len(consumer.hand) = IF consumer.pc = "recv" THEN 0 ELSE 1
    /\ db \in [Key -> 0 .. MaxSubmits]
    /\ committedLog \in [Key -> Index]
    /\ stored \in 0 .. MaxSubmits
    /\ reader.pc \in {"idle", "index", "success", "failure"}
    /\ reader.value \in 0 .. MaxSubmits
    /\ page.array \in Seq(Command) /\ page.data \in Seq(Command)

(* The server keeps the promise of KeyValueStore: the committed sequence   *)
(* only grows, and db takes its commands in order, none twice and none     *)
(* left out, however signals coalesce and uncommitted entries are replaced *)
(* under the slice commitChannel still pushes from.                        *)
KV == INSTANCE KeyValueStore WITH log <- Committed, count <- stored, store <- db
ImplementsStore == KV!KVSpec

(* The entry of k that ReadCommits stored last among the first n.          *)
Latest(W) == IF W = {} THEN 0 ELSE CHOOSE i \in W : \A j \in W : j <= i
LastWrite(k, n) == Latest({i \in 1 .. n : stateLog[i].key = k})

(* committedLog holds, for every key, the index of the value in db; only   *)
(* between the two stores of ReadCommits does it lag, by that one write.   *)
IndexFollowsValue ==
    \A k \in Key :
        LET n == IF consumer.pc = "index" THEN stored - 1 ELSE stored
            i == LastWrite(k, n)
        IN  committedLog[k] = IF i = 0 THEN Missing ELSE i - 1

(* A successful GetValue, which looks at the two stores one after the      *)
(* other and may race with ReadCommits, never returns an index older than  *)
(* the write just before the one whose value it returns.                   *)
ReadIsFresh ==
    reader.pc = "success" =>
        \E i \in 1 .. Len(Committed) :
            /\ Committed[i] = [key |-> reader.key, value |-> reader.value]
            /\ reader.index + 1 >= LastWrite(reader.key, i - 1)

(* getLog (rest_server.go:552) reads the array without the lock while      *)
(* AppendEntries may write into it.  A complete page has the last entries, *)
(* as many as the limit allows, and every one of them that was committed   *)
(* when the page was asked for is shown as committed.  Of entries that     *)
(* were not, it may show some of an old log and some of a new one.         *)
PageShowsCommitted ==
    page.pc = "read" /\ page.next = page.first =>
        LET n == Len(page.array)
        IN  /\ Len(page.data) = IF n < PageLimit THEN n ELSE PageLimit
            /\ \A j \in DOMAIN page.data :
                  n + 1 - j <= Len(page.committed) =>
                      page.data[j] = page.committed[n + 1 - j]

(* The applier can block only on a full commitChan or on raft.mu: whenever *)
(* it is idle with nothing to wake it, every committed entry is pushed, so *)
(* no signal was lost when several commits share a turn.                   *)
NoLostSignal ==
    mu = "free" /\ ready = 0 /\ applier.pc = "recv" => lastApplied = commitIndex

(* What the goroutines of the pipeline wait for: the committer for room,   *)
(* commitChannel for a signal, the lock or room, ReadCommits for an entry. *)
CanSignal == mu = "commit" /\ (closed \/ ready < ReadyCap)
CanApply ==
    \/ applier.pc = "recv" /\ (ready > 0 \/ closed)
    \/ applier.pc = "lock" /\ mu = "free"
    \/ applier.pc = "push" /\ (applier.next = applier.end \/ Len(commitChan) < ChanCap)
CanStore == consumer.pc # "recv" \/ commitChan # <<>>

(* While a committed entry is not in the store, a goroutine of the         *)
(* pipeline can run.  The one exception is the send of AppendEntries       *)
(* (consensus.go:287) or broadcastMsg to a full commitReadyChan: it holds  *)
(* the mutex that commitChannel needs to make room, and it takes two       *)
(* commits more than the channel has places.                               *)
StuckOnlyWhenFull ==
    Running /\ stored < Inc(commitIndex) =>
        \/ CanSignal \/ CanApply \/ CanStore
        \/ /\ mu = "commit" /\ ready = ReadyCap /\ applier.pc = "lock" /\ ~closed
           /\ Inc(commitIndex) >= ReadyCap + 2

(* Every committed entry is in the store in the end, unless a send on the  *)
(* closed channel ends the process.  It holds while commitReadyChan has    *)
(* room for all commits but one: see StuckOnlyWhenFull.                    *)
CommitsAreStored ==
    \A n \in 1 .. MaxSubmits : (Len(Committed) >= n) ~> (stored >= n \/ panicked)
=============================================================================
