# Rocinante in TLA+

TLA+ models of rocinante, a key-value store replicated by a RAFT-like protocol
with an HTTP load balancer beside it, the TLC configurations that check them,
and proofs for TLAPS. Paths are relative to the repository (`pkg/...` is
`src/pkg/...`); `consensus.go` is `pkg/server/consensus.go`.

## 1. The system

| Component | State | Operations | Module |
|---|---|---|---|
| RAFT consensus (`consensus.go`, `volatile.go`, `log_entry.go`) | term, vote, log, commit and apply indices, nextIndex/matchIndex, under `raft.mu` | election timer, startElection and its vote goroutines, RequestVote, heartbeats, broadcastMsg, AppendEntries, Submit, commitChannel, Shutdown | `Raft`; the timers of one server in `ElectionTimer` |
| Commit pipeline and storage (`consensus.go`, `main_server.go`, `storage.go`, `commit.go`) | commitReadyChan, commitProducer, `db`, `committedLog` | signal, commitChannel, ReadCommits, GetValue, getLog | `CommitPipeline`, promise in `KeyValueStore` |
| Load balancer (`pkg/loadbalancer`) | pool of members with `Alive` flags, round robin position, attempt and retry counters in a request's context | httpHandler, HashSelection, RoundRobin, error handler, health check | `LoadBalancer` |
| Server lifecycle (`main_server.go`, `main.go`, the HTTP server of `rest_server.go`) | serverState, peer connections, gRPC server, quit channel, under `s.lock` | Serve, Start, Shutdown, ShutdownGrpc, Disconnect, Reconnect, WaitShutdown, signals | `ServerLife` |
| REST handlers and client (`rest_server.go`, `restclient.go`) | last leader seen; the client's endpoints and leader address | leader, submit, get, peer list, discovery, Store, Get | `RestStore` |
| Packet sniffer (`pkg/sniffer`, `pkg/flow`) | the flow table being captured, the channels `buffer`, `captureReady`, `publishReady` and `quitReady` | capture, startCapture, publish, start, signalHandler | `Sniffer` |
| Radix tree, programs, configuration, traffic generator, metrics, colours, generated protobuf | | | not modelled, see section 13 |

How they interact: an HTTP client reaches the load balancer, which asks the
cluster's REST interface for the choice saved for the client. The REST server
submits to its own `RaftProtocol`; nothing is passed on to another server, and
the REST client looks for the leader itself. Servers call each other through
gRPC: `RequestVoteCall` and `AppendEntriesCall`. Consensus hands committed entries to the server's
`ReadCommits` through two channels. The sniffer, like the load balancer, is a client of
the REST interface: it stores what it captures under the hash of the flow.

What is hard in this code:

* **Handlers made of several critical sections.** RequestVote and AppendEntries
  compare the term, unlock, and call `makeFollower`, lock, look again, unlock,
  and lock a last time to append. Everything may change in between.
* **Goroutines that outlive their reason.** A vote or append goroutine, or a
  heartbeat loop, started in one term goes on in another; nothing stops it.
* **Messages** lost, delayed and overtaken: every call runs in a goroutine of
  its own.
* **uint64 indices** with `math.MaxUint64` for -1, which wrap and compare as
  the greatest index; missing map keys that read 0.
* **A bounded channel written under a mutex** that its reader also needs.
* **Two stores read and written one after the other** without a common lock.
* **Goroutines that start and stop one server** and set its state regardless of
  what it is; a lock held until the REST server has left its port.
* **Answers that say less than they seem to**: a time-out while the handler goes
  on, a hint at a leader that was, a success without a leader.
* **Timers that withdraw** when the state or the term has changed, and count on
  whoever changed them to have started another.
* **One unbuffered quit channel** with several receivers, and tokens that
  publishers take from each other.
* **Flags** of the load balancer written by probes and failures that are stale
  by the time they are written; a lock held through network probes; calls
  without a time-out, and retries that send a body a second time.

What makes each part correct: leaders are backed by counted votes, logs that
claim to match do match, no log loses an entry to an old message, no index runs
out of its slice, and servers apply the same commands (`Raft`); the store takes
each committed command once and in order, and takes it eventually
(`CommitPipeline`); an error of the client means that nothing was stored, and
its reads never go back (`RestStore`); a signal ends the process, Serve returns
after what it serves, and a running server is connected (`ServerLife`); a follower or candidate
always has a timer and stands for election in the end (`ElectionTimer`); every
flow captured is stored unless a Store fails, and a signal that is received ends
the sniffer (`Sniffer`); a request ends after a bounded number of calls unless a
silent back end holds it, members are taken out for a cause, and the flags
follow the back ends (`LoadBalancer`). The hazards in `PROJECT.json` name
the line where each of these may go wrong.

## 2. Modules

```
Raft ──── RaftProofs            types, elections, log matching
     │    └── RaftHistoryProofs logs that grow, acknowledgements, one command log
     ├─── CommandLog            what a cluster with a single history implements
     ├─── RaftClaims            what comments and tests say and the code does not keep
     ├─── MCRaft                small clusters from Init
     └─── MCRaftElected         from an elected leader
ElectionTimer ── ElectionTimerProofs
                                the timers of one server
CommitPipeline ── CommitPipelineProofs
     └─── KeyValueStore         what the pipeline implements
RestStore ── RestStoreProofs    client and REST handlers over an abstract cluster
ServerLife ── ServerLifeProofs  one process from Serve to its end
LoadBalancer ── LoadBalancerProofs
Sniffer ── SnifferProofs        packets, tables, publishers, signals
```

A definition whose name is that of another one with a suffix (`NextAfterSkips`
before `NextAfter`) is a plausible mistake in the code it stands for; no
specification uses it. Replacing the definition by it must break a property.

## 3. Raft

One action is one critical section of `raft.mu`, or one step between two of
them. Each goroutine is a record with a position `pc`:

* `voteCalls`: a goroutine of startElection together with the RequestVote
  handler it calls. `spawned` (reads the candidate's last entry) → `sent` →
  handler: `demote`, `readlog`, `decide` → `replied` → `withdraw` or `tally`
  (gotVote) → `count` → `win` (startLeader). The votes are in `elections`,
  since the goroutines of one candidacy share one variable.
* `pending` and `calls`: a broadcastMsg goroutine before and after it has
  built its message, together with the AppendEntries handler. `built` → `sent`
  → handler: `demote`, `recheck`, `stepdown`, `append` → `replied`.
* `starting`: startElection between its read of the term and its lock.
* `heartbeat`: the loops of startLeader.

Details kept on purpose: the vote request carries the term before the
candidate's increment; `votedFor` is assigned and never read; `votesReceived`
is read without the lock and overwritten later; `makeFollower` takes any term;
startElection, makeLeader and gotVote look at neither state nor term again;
`nextIndex` and `matchIndex` are never reset; `LeaderCommit` is read after the
entries were cut out; an `append` in place may overwrite the entries of a
message that is not sent yet (`Overlay`, recorded in `torn`); panics (slice out
of range, send on or close of a closed channel) end the server (`fault`).

commitIndex may be past the log: uint64(len-1) of an empty log is MaxUint64,
which clamps no LeaderCommit. commitChannel then slices beyond the length, which
Go permits up to the capacity. A slot there holds nil, whose use panics after the
entries before it were pushed, or what an earlier, longer log has left in the
array. `written` is the most entries a server's array has held, a bound on such
slots (append may also have made a new array), and `ApplyCommits` has both
outcomes: it reads `Stale` up to `written`, or panics after some of the batch.

What is abstracted:

* Timers: a timeout may elapse whenever runElectionTimer would accept it. The
  timers themselves are in `ElectionTimer`.
* The network: a call may fail at any time it is in transit. `IsDisconnected`,
  `serverState` and Disconnect appear as such failures.
* `pending` is a set: two waiting broadcastMsg goroutines for the same peer and
  term are one, and heartbeat loops at the same position are one. A goroutine
  that is built and one that waits are distinct, so overtaking remains.
* LeaderCommit and marshalling are one step. A message overwritten in the
  middle of being marshalled (partly old, partly new) is not modelled.
* The signals of commitReadyChan: ApplyCommits may run when commitIndex and
  lastApplied differ. The channel itself is in `CommitPipeline`.
* A Submit whose reply matters to a client: only its effect on the log.
* `CommitEntry.Term` and the identifiers in CommitReady, which nobody reads.

Bounds: `MaxTerm`, `MaxElections`, `MaxLog`, the number of messages in progress
(`Calls`) and the servers that may stop (`Stoppable`). `created` and `torn` are
history variables, read by properties only.

### Properties

* `TypeOK`: indices stay uint64 values through every wrap; a message never
  starts beyond the log it carries.
* `LeaderWonElection`: a leader has a candidacy of its own in which a majority
  was really counted.
* `LogMatching`: as long as no two Submits created one index in one term
  (`UniqueCreated`) and no message was torn, logs with equal terms at an index
  agree up to it. The conditions are needed: the code lets two servers lead in
  one term (`claim_one_leader`).
* `NextIndexInLog`, `StateMachineSafety`, `LogOnlyGrows`: while all Submits
  extend one log (`SingleHistory`), nextIndex stays inside the log, any two
  servers have applied the same commands, and AppendEntries takes no entry
  away. Without the condition a new leader may lack committed entries, because
  the log comparison of RequestVote is joined by *or* to the equality of terms;
  the three runs without a single history say nothing, so the bounds were
  chosen to leave many states with one.
* `OneCandidateSafe`: the condition is met, and the servers apply the same
  commands, when one server alone ever stands for election, in however many
  elections. It says what the safety of the store rests on in this code: not on
  votes and terms, but on a candidate that is not challenged.
* `AckedIsStored`: under a single history what matchIndex says a peer has stored
  the peer has, although answers arrive late and overwrite it in any order. Two
  values say nothing: 0, which an absent key reads, and MaxUint64, which the
  answer to an empty log leaves.
* `CommitNeedsMajority`: an answer raises commitIndex only over entries that a
  majority has stored, except with those two values: index 0 is committed by
  the first answer of any peer, and a peer at MaxUint64 counts for everything.
* `OverrunOnlyFirst`: the panic of commitChannel beyond the log happens on its
  first turn or not at all; a server that has applied anything commits within
  its log.
* `ImplementsLog`: under a single history the cluster refines `CommandLog`, an
  abstract log that only gets longer at its end and of which every server is
  delivered longer and longer beginnings. `History` is the longest log a Submit
  made. The refinement is stated step by step, guarded by `SingleHistory'`,
  since a challenged leader may fork the history and nothing is promised then.

## 4. CommitPipeline

The way of a committed entry through one server, with the mutex as a variable
and the channels with their capacities. The rest of the cluster is the
environment: `Extend` appends or replaces uncommitted entries, `RaiseCommit`
commits what the log has (the commit past an empty log, and the panic it leads
to, are in `Raft`). `commitChannel` pushes from a slice of the log's array without the
lock, so the entry is read when it is pushed. `Missing` stands for a key that is
absent from `committedLog`.

* `ImplementsStore`: the pipeline refines `KeyValueStore`, with the committed
  prefix for its log, the ghost `stored` for its count and `db` for its store.
* `IndexFollowsValue`, `ReadIsFresh`: GetValue reads two stores one after the
  other; the index it returns is never older than the write before the one it
  returns the value of.
* `PageShowsCommitted`: getLog gets the slice of the log under raft.mu and reads
  its entries without it, from the last one back, while AppendEntries may write
  into the same array (`page.shared`; append may also make a new one). Whatever
  was committed when the page was asked for is on it as committed. What was not
  may be a mixture of two logs, and is marked as synced all the same.
* `NoLostSignal`, `CommitsAreStored`: signals coalesce and none is lost; every
  committed entry is stored in the end.

* `StuckOnlyWhenFull`: while a committed entry is not stored, one of the
  goroutines can run, with one exception: the signal is sent with raft.mu held,
  the only receiver needs raft.mu before it receives again, and a burst of
  commits fills the channel (32 in the code). The property says that the
  exception takes two commits more than the channel has places.

Fairness (`FairSpec`): weak fairness for the sending goroutine, commitChannel
and ReadCommits. The Go scheduler runs every goroutine that can run. There is
none for the environment. `CommitsAreStored` holds when the channel has room for
every commit but one, as in the run; with `ReadyCap` = 1 TLC refutes it by the
exception of `StuckOnlyWhenFull`, which stops the server for good.

## 5. LoadBalancer

A goroutine per request with the locals of the selection, the pool's flags and
its lock, the health check, back ends that change, and clients that leave.
HashSelection counts the members one by one while the flags change;
RoundRobin moves `current` under the lock and scans without it; the health
check holds the lock from its first probe to its last. `saved` is the entry the
cluster keeps for a client; the result of the lookup is not used by the code,
and the goroutine that saves the choice may fail.

A back end is `up`, `down` or `silent`. One that is up answers every call: that
is an assumption about the environment. One that is silent accepts connections,
so a probe finds it alive, and does not answer; the proxy has the default
transport, which has no time-out for that, so `ServeHTTP` waits until the back
end changes or the client leaves. Several members may have the same URL:
`url` maps each to the first of them, which UpdateMemberStatus marks and whose
back end they share. A client whose address cannot be parsed (`Unparsed`) makes
sourceHashHandler go on to a nil address; the panic ends the request
(`aborted`).

The error handler sends the same request again. A request with a `body` has it
closed by the transport when a call fails (`spent`), and the next call fails
when it reads it, whatever the back end: `Fails`. A back end that is up may
answer before it is read, so the call may succeed too: `Answers`.

Fairness: weak for handlers, the health ticker and the health check; strong for
the two steps that need the lock, because a Go mutex switches to a mode in which
it is handed to a waiter that starves. It asks nothing of a silent back end:
with neither an answer nor a failure `ServeHTTP` is not enabled.

* `TriesBounded`: the recursion of the error handler, the proxy and the handler
  ends within maxRetry + 3 failed calls.
* `RequestsEnd`: every request ends, or is held for good by a silent back end
  and by nothing else.
* `OutOnlyForCause`: a member is taken out of the pool only when its back end
  has been down, or a client left in the middle of its request, or a request
  was tried again with a spent body, which takes some back end that was down.
  The last case is no comfort: one back end that is down makes a request with a
  body take out members that have always answered.
* `FlagsConverge`: flags follow back ends that accept connections, or do not,
  from some time on. That it holds of a member that is up rests on the requests
  being finitely many: an endless series of clients that leave, or of bodies
  sent again, would take it out again and again.

`addServer`, which no program calls, and the configuration are left out.

The README of the repository says that every load balancer selects the server
saved for a client (`README.md:18`). sourceHashHandler fetches the saved choice
and goes on with its own, as `Lookup` does: nothing here relies on the claim.

## 6. RestStore

The client of `pkg/client` and the REST handlers it calls. The cluster is the
environment: servers begin and cease to lead (`ChangeRole`, two may lead at
once), their AppendEntries tell others of them, also after they have ceased to
(`AppendEntriesCall`, which records the sender whatever the outcome), accepted
commands reach stores (`StoreCommitted`), and REST requests shut servers down.

`client.pc` follows the two constructors: `new` (GetPeerList) → `discover`
(GetLeader over the endpoints, in the order Go's map yields) → `ready` or
`failed`. `query` is the request to `/leader`, which reads the protocol's state
and the last leader at two times. A Store has a caller's side and a handler's
side, for the caller may give up while the handler goes on. SubmitCall looks at
serverState, and Submit at the protocol's state, in two steps.

* `LeaderHasLed`: the address a client ends up with is that of a server that
  has led.
* `ErrorMeansNotStored`: an error of Store means that the command was not and
  will not be accepted. The time-out, after which it may be, is `false` without
  an error.
* `ReadsAreMonotonic`: a client never misses a key it has found, through every
  change of leader. It does not read from the leader, it reads from one server.
* `TrueMeansAccepted` fails: a server that does not lead answers Created.

The address is asked for once, so a client whose server has ceased to lead
stores nothing from then on and is told that it did; README.md:355 says that it
would find the new leader. Left out: base64 and JSON, and a SubmitCall that
panics after it has submitted, which a caller sees as a lost answer.

## 7. ServerLife

One process. A variable for each goroutine holds its position: main in Serve
(`serve`), the goroutine that opens connections (`starter`) with one dialer per
peer (`dial`), the one in rpc.Serve (`rpcThread`), the REST server's two
(`listen`, `restWait`), main's signal goroutine in Shutdown (`handler`), and
callers of ShutdownGrpc and Reconnect. `process` tells how it ended: an exit, or
one of the fatal errors and panics the code can run into (no listener, a nil
gRPC server, rpc.Serve of a stopped server, concurrent use of the map).

`shutdownRequest` is never made, so shutdownRest, whose goroutine sends on a nil
channel, has no effect, and WaitShutdown hears of signals alone.

`MapRace` is the runtime's check for concurrent use of a map: the shutdowns and
the REST server's PeerStatus walk through `peerClient`, and a dialer looks its
peer up (`DialCheck`), without the lock, while another dialer or Reconnect
writes to it. The process may die of it at any such moment.

* `ServeReturnsLast`: Serve, once it has served, returns to main only when
  rpc.Serve has returned and Shutdown has done everything but close the
  listener. It does not say that the protocol is Dead by then: timers and
  handlers past their test of the state may revive it, which `Raft` and
  `ElectionTimer` model and this module leaves to them (`ShutdownRaft` is a
  position here, not a state of the protocol).
* `MeshIsWhole`: a running server is connected to every peer unless a call that
  connects overlapped one that disconnects (`overlapped`, a history variable).
  Without the condition it fails: Reconnect and the starter set Running whatever
  the state is.
* `SignalEnds`: a signal that both main and the REST server wait for ends the
  process. Fairness is weak for every goroutine, none for signals, requests and
  peers: no shutdown waits for a peer that cannot be reached. Without the REST
  server's part it fails: a signal between the start of its listener and its
  signal.Notify leaves Shutdown waiting, with the lock, for a port that nobody
  leaves before a second signal.

Start, on a server that does not run, makes a new protocol and a new `quit`
channel and then ranges over a channel nobody closes, with the lock held
(`lock` = "start"): nothing takes the lock after it. `SignalEnds` excepts
that; every other action goes on as it can.
A main that waits already waits for the old channel (`quit` = "replaced").
GracefulStop and CheckSocket are one step each.

## 8. ElectionTimer

One server, with the other servers as environment: what they answer and what
they ask is arbitrary. `timer` holds the goroutines in runElectionTimer with
their locals (the timeout drawn, the state and the term at the start) and, as
they go on to it, in startElection; `call` holds whatever else changes state:
vote goroutines with an answer, broadcasts, and the two handlers, each in its
critical sections. `elapsed` is the time since electionResetEvent in units of
which a timeout is 1 .. `Patience`.

A timer withdraws at a tick when the state has changed, or in isExpired when the
term has; every makeFollower starts another one, also when there is one.

* `TimerAlive`: a follower or candidate has a timer that will not withdraw: one
  that has not read the state yet, or has read what still holds, or is in
  startElection. `orphaned` excepts a server whose startElection was left early
  because it was disconnected, until makeFollower or another timer's
  startElection starts the next one.
* `StandsAgain`: a follower or candidate that hears nothing does not stay in its
  term. Fairness is weak for the clock, the timers and the handlers; there is
  none for other servers, Disconnect and Shutdown.

Without the exception both fail, against the comment at `consensus.go:678` ("Run
another election timer, in case this election is not successful"): a candidate
that was disconnected during startElection and reconnected later has no timer
and waits for a request that demotes it. The model also shows that a timer past
isExpired makes a candidate of a server that is Leader or Dead by then.

## 9. Sniffer

`capture` is the goroutine of startCapture in capture (`read`, `send`), in its
select (`select`) and in its send to the publishers (`forward`); `worker` the
publishers, `main` RunE, `handler` the signal goroutine. Tables are numbered as
they are made, `made` has the keys of each, and the channels carry numbers. A
packet is a hash and a pair of addresses, which is all that the table tells
apart; packets without a transport layer are skipped by the code and left out.
What Store returns is arbitrary: `RestStore` says what that means.

Kept on purpose: a table ends after numPktBuffer + 1 packets; `break` in the
select of startCapture leaves the select and not the loop, so after a quit token
the loop is one table behind; a publisher that received a quit token waits for
a token of another; the global `sniffer` is never assigned, so signalHandler
sends one token only, and RunE gets no second one.

* `TableIsFaithful`: a table has, for every hash, each pair of addresses once and
  in the order first seen.
* `TablesInOrder`: the tables taken, waiting, in the capture loop's hands and in
  its buffer are all tables made, in their order, whoever took the quit token.
* `TokenBalance`: as many publishers wait as there are tokens, and one more for
  each quit token a publisher received.
* `NoFlowDropped`: each flow of a table that a publisher took is stored or still
  before a publisher, unless a Store of the table failed.
* `SignalIsHeard`: the signal handler waits for a lock that nobody keeps, and
  when it sends with the lock held, RunE is receiving or has only to open the
  device before it does.
* `EveryFlowStored`: every flow of a table is stored, unless a Store of the table
  failed or the process ended. Fairness: weak for every goroutine, none for
  packets. A table that is not full waits for packets: it is not complete, and
  the claim is not about it. No order is claimed: publishers store at the same
  time, and an older table may overwrite the entry of a flow in a newer one.
* `SignalExits`: a signal that the goroutine of main receives ends the process,
  whatever start-up and capture have come to, although the handler sends on an
  unbuffered channel with the lock held. The channel of signals has no buffer
  either: a signal between signal.Notify and the receive (`handler` = "new"), or
  a second one, is dropped and the process goes on.

## 10. Runs

| Run | Instance | What it shows |
|---|---|---|
| `raft_votes` | 5 servers, any may stop, one candidacy | four vote goroutines in every interleaving; three is the smallest cluster with a race, five the smallest where one lost vote does not decide |
| `raft_replication` | 3 servers, one elected, two commands, one message at a time | the majority rule with a follower that is behind, in `CommitNeedsMajority` |
| `raft_overtaking` | 2 servers, two commands, two messages in progress | requests and replies that overtake each other; with two commands matchIndex has a value that is none of the two it has by accident |
| `raft_leaders` | 2 servers, two elections, two terms | leadership changes hands or is taken twice by one server, so the history forks or stays single |
| `pipeline` | 2 keys, 3 submits, commitReadyChan of 2, commitProducer of 1, pages of 2 | replacement, bursts, reads, pages torn by a replacement; three writes are enough for a key to be written twice and replaced once |
| `balancer` | 2 members, 1 request, 2 changes, 1 retry, 3 hashes and an address that cannot be parsed | down, silent and up again during selection, retries and probes; both members down, one, or one with a retried body; two members with one URL |
| `rest_store` | 3 servers, 1 key, 2 changes of leadership | a hint at a third server, two leaders, a leader that ceased to lead before, during or after a Store |
| `server_life` | 2 peers, 1 signal, 2 calls | a signal and a REST shutdown at every moment of start-up, Disconnect before, during and after Reconnect; with two peers a reconnection can be cut in half; Start at every moment a server does not run |
| `election_timer` | 2 timers, 1 handler or goroutine at a time, 2 peers, 2 terms, 1 request, 1 Disconnect | a second timer is what makeFollower starts while the first has not withdrawn; with two peers startElection can be left in the middle |
| `sniffer` | 2 publishers, 2 hashes, 2 addresses, tables of 2 packets, 3 tables | a publisher can take the other's token, captureReady (of 1) can be full, and a third table can be behind a quit token; the source ends at any time |
| `claim_one_leader` | violated | two leaders in one term, against `pkg/tests/server_test.go:1261` |
| `claim_told` | violated | Store returns true for a command no leader took, against `README.md:363` |

`MaxUint64` is 9 in the runs: all that matters is that it is greater than every
index, and the assumption says so. With `ReadyCap` = `MaxSubmits` - 1 the channel
gets full, and no send blocks for good. The initial state of `MCRaftElected` is
reachable from `Init`. The bound on timers delays makeFollower until a timer is
free, and the bound on calls loses requests, which the network may do as well:
neither enables anything. Deadlock is not checked: a bounded model
stops at its bounds, and servers that panicked stop. Symmetry is used only in
runs without liveness properties.

Seen in the models without a run of their own: makeFollower, called in another
critical section than the comparison of terms, may lower a term the server has
reached meanwhile (against `consensus.go:225`). A follower whose
log is empty takes any LeaderCommit, for the clamp of AppendEntries is MaxUint64
then; when the entries have not all arrived before commitChannel runs, it panics.
A server that is Dead may still
append, and be revived by makeFollower, when a handler was past its isDead test.
A leader may commit an entry that only it has (against `consensus.go:90`, "when
we collect majority"): an absent matchIndex reads 0, which is >= index 0, and an
acknowledged empty heartbeat makes it MaxUint64. On a quiet interface a table
waits for its last packet for ever (against `sniffer.go:145`, "we time out").

Seen while reading, about pages that are not modelled: `Min`
(`rest_server.go:541`) returns the larger of its arguments, so the committed and
the flow pages always show the whole store; and the flow page fails as soon as
the store has one value that is not a flow, such as a choice the load balancer
saved in the same cluster.

## 11. Proofs

`RaftProofs` proves three theorems for every set of servers and values and all
bounds that satisfy `RaftAssumption` (the cluster is finite; terms and log
lengths are below MaxUint64).

* `TypeCorrect`: `Spec => []TypeOK`. `TypeOK` is inductive as it stands. One
  lemma per group of actions; the lemmas before it give the types of what
  actions write: `Overlay`, `Spliced`, the step operators.
* `LeadersAreElected`: `Spec => []LeaderWonElection`. A goroutine between
  gotVote and the store of votesReceived holds a number computed from an old
  read, so `ElectionInv` bounds each such number by the votes it can stand
  for: `VotesBacked` (the shared count by the votes counted), `CountBacked` (a
  number in a goroutine's hands by those and its own), `AskedOnce` and
  `NotCountedYet` (each peer is asked once in a candidacy and is not counted
  while its goroutine runs), `WinBacked` (a goroutine that is about to make a
  leader has its majority).
* `LogsMatch`: `Spec => []LogMatching`. `HistoryInv` says that every prefix of
  every log, and of the log every message carries, is a log some leader had
  after a Submit. `RecordedAgree` is then log matching; `SplicedIsOneOfTwo`
  says that AppendEntries leaves the old log or exactly the leader's, which is
  where the consistency check is needed. The antecedent, unique creation and no
  torn message, only becomes false along a behaviour, so it need not be proved.

`RaftHistoryProofs` goes on from there with what holds while all Submits extend
one log.

* `NextIndexStaysInLog`, `CommandsApplyInOrder`, `LogsOnlyGrow`: `Spec` implies
  `[]NextIndexInLog`, `[]StateMachineSafety` and `LogOnlyGrows`. The invariant is
  `GrowthInv`: under a single history no message is torn, no array has entries
  beyond its log (`NothingBeyond`), no message is longer than its sender's log
  (`MessagesInLog`), nextIndex is inside the log (`NextInLog`), and what a server
  has applied is a prefix of its log, as long as lastApplied says while the
  server is up (`AppliedInLog`). nextIndex - 1 after a refusal needs
  `RefusedInv`: a message without a PrevLogIndex is never refused in its own
  term. By `HistoryInv` every log is then a prefix of the one history, so two of
  them are prefixes of one another, and so are the applied sequences.

* `AcknowledgedIsStored`, `OverrunIsFirstTurn`, `CommitsNeedMajority`: `Spec`
  implies `[]AckedIsStored`, `[]OverrunOnlyFirst` and `CommitNeedsMajority`. The
  invariant is `AckInv`: a message with a positive answer is no longer than the
  log of the peer that answered (`AnswersInLog`, by `SplicedCovers`), matchIndex
  is inside both logs (`AckedInLog`), and a server that has applied anything
  commits within its log (`CommitInLog`). Logs long enough agree by `OneHistory`.
  For the majority, the peers counted by `Committable` and the leader are among
  those that hold the entries, and more than a majority is one.
* `OneCandidateIsSafe`: `Spec => []OneCandidateSafe`. `StoodInv` says that
  whoever has a heartbeat or sends a message has stood for election, that nobody
  sends to itself, and that an election comes before the first Submit; then the
  only candidate has every submitted entry (`CandidateHolds`), for Submit appends to
  its log alone and AppendEntries changes the logs of others alone. That Submit
  is its own needs `LeadersAreElected`. The history is single, and
  `CommandsApplyInOrder` does the rest.
* `ClusterIsOneLog`: `Spec => ImplementsLog`. Every log of a server, and what it
  has applied, is a prefix of `History` (`RecordedInHistory`). A Submit on a
  shorter log makes a log that is in the history already, one on the whole
  history is `Record` (`SubmitRecords`); a turn of commitChannel is `Deliver`
  (`ApplyDelivers`), the one that panics included; the other steps leave both
  variables. That a longest log exists is kept as an invariant (`LongestExists`)
  and so needs no induction over the set of logs.

The first attempt at `CommandsApplyInOrder` failed for a reason in the model.
ApplyCommits used to read `Stale` behind any log that was not empty, and with three
servers and three messages under way, more than the runs have, TLC refuted the
property: an empty message sent late takes commitIndex past an empty log, and
one entry arrives before commitChannel runs. In Go there is nothing but nil
behind a log that has never been longer. The model now tells the two cases
apart with `written` (section 3), and the theorem covers the panic.

`ElectionTimerProofs` proves two theorems for every number of timers, calls,
peers and for all bounds that satisfy `TimerAssumption`.

* `TimerTypeCorrect`: `Spec => []TypeOK`.
* `TimerStaysAlive`: `Spec => []TimerAlive`. Together with `TypeOK`, `TimerAlive`
  is inductive. A step of a timer keeps its own watch or, when it withdraws, had
  none to lose; every change of the state or the term comes with a timer that is
  `spawned` or in startElection, except to Leader or Dead, which the property
  does not ask a timer of, and the early return that sets `orphaned`.

`CommitPipelineProofs`, for all keys, capacities, page sizes and numbers of
commands that satisfy `PipelineAssumption`:

* `PipelineTypeCorrect`, `SignalsAreKept`, `IndexAlwaysFollows`, `ReadsAreFresh`,
  `PagesShowCommitted`: the five invariants of the pipeline, from one inductive
  invariant `PipelineInv`. `Stages` counts how far each stage has come (log,
  commits, batches, pushes, stores); `InFlight` says that what is in commitChan and in
  ReadCommits' hands are exactly the entries next in line; `Signalled` that a
  commit not taken has a signal, a committer or the applier behind it;
  `ValueIsLast` and `IndexFollowsValue` relate the stores to the last write of a
  key; `ReadFollows` and `PageFollows` say how far a read in progress has come.
* `PipelineStuckOnlyWhenFull`: `Spec => []StuckOnlyWhenFull`. `SignalsCount`, the
  part of `PipelineInv` it needs, adds up the signals waiting, being sent and
  just received, which are never more than the commits, and says that an applier
  that ended found the channel closed and drained.
* `PipelineImplementsStore`: `Spec => ImplementsStore`. ReadCommits' store of a value is
  a `KeyValueStore` step by `InFlight`, RaiseCommit extends the committed prefix, and
  Extend never touches it by `Stages`; all other steps stutter.

`LastWrite` is the greatest element of a set of indices. That such an element
exists for every finite set is an induction over data; `LastExists` states it
for every prefix of the log and is kept as part of the invariant, where a
step adds one entry at most. The theorem then does without the induction.

`RestStoreProofs`, for all servers, keys and numbers of changes:
`RestTypeCorrect`, `LeaderAlwaysHasLed`, `ErrorsStoreNothing`,
`ReadsAlwaysMonotonic`. `RestInv` adds that whoever is named anywhere, in a hint,
an answer or a client, has led (`Named`); that a command is accepted only by a
handler that says Created, and an error seen only where it was refused
(`Submitted`); and that the server a client reads from has every key found
(`Found`).

`ServerLifeProofs`, for all peers, signals and calls: `LifeTypeCorrect`,
`ServeAlwaysReturnsLast`, `MeshAlwaysWhole`. `LifeInv` adds the order of Serve
(`Order`), who holds the lock (`Locks`), what is over once `quit` is closed
(`Closing`), and that, without an overlap, whoever connects has yet to dial the
peers that are missing (`Mesh`). `LifeAssumption` says that no peer is called
"idle", the value of `reconnect` when nobody reconnects.

`LoadBalancerProofs`, for all pools, requests, clients and limits that satisfy
`BalancerAssumption`: `BalancerTypeCorrect`, `TriesAlwaysBounded`,
`OutAlwaysForCause`. `BalancerInv` has an equation for the calls made, retries
plus finished attempts plus the failure in hand (`Tried`), the range of a
selection's locals at each position (`Locals`), and that a probe's answer or a
failed request blames a back end that has been down, unless its client left or
its body is spent, and that a body is spent by one of the two (`Blamed`). That
`url` names first members is part of `Shape`: UpdateMemberStatus then marks a
member that shares its back end with the one that failed.

`SnifferProofs`, for all publishers, hashes, addresses and sizes of tables:
`SnifferTypeCorrect`, `TablesAlwaysInOrder`, `TokensAlwaysBalance`,
`TablesAlwaysFaithful`, `FlowsNeverDropped`, `SignalsAlwaysHeard`. The invariant
`SnifferInv` adds to the properties `Loop` (the packet counter, and that the loop
holds a table exactly while it forwards one), `Starting` (nothing runs before
NewSniffer), `Hands` (a publisher has flows left only while it stores) and
`Handling` (where main and the signal handler are when the lock is held). The steps of a publisher need the cardinality of the set
of those that wait, from `FiniteSetTheorems`. `TableIsFaithful` is stated pair by
pair, by membership and by who was seen first, so that one packet changes one
list by one entry at most and no induction over the packets is needed.

TLC finds each of these inductive invariants to hold on the instances of section
10 too (`INVARIANT PipelineInv` with module `CommitPipelineProofs`, and so on).

Out of the prover's reach and left to TLC is liveness under fairness:
`CommitsAreStored`, `RequestsEnd`, `FlagsConverge`, `SignalEnds`, `StandsAgain`,
`EveryFlowStored`, `SignalExits`. `StuckOnlyWhenFull`, `NoFlowDropped` and
`SignalIsHeard` are the safety half of three of them, and proved. Every other
property of a passing run is a theorem.

## 12. State and plan

All components that keep state and run concurrently are modelled, and there is a
theorem for every safety property, action property and refinement that a passing
run checks. The type invariants of `ElectionTimer`, `RestStore` and `ServerLife` are
proved and in no run. What remains open: the safety half of `RequestsEnd`, `SignalEnds` and
`StandsAgain` as invariants of their own; `SingleHistory` for a weaker condition
than one candidate, such as candidacies that do not overlap in time; the fields
that the type invariants leave to the `Shape` of the proof modules.

## 13. Not modelled

* Radix tree: no program imports it, and it does not compile as it stands (`getEdge`
  and `delEdge` use a field that edges do not have), so there is no behaviour to
  be faithful to.
* `LoadBalancer.addServer`, `FileStorage` and `newTerm`: nothing calls them. The
  header and checksum helpers of `pkg/flow` are for the traffic generator.
* The committed, flow, role and index pages: they format a copy of state that is
  taken under one lock, and change nothing.
* Flags, YAML, ports: sequential start-up I/O. Traffic generator: a load script.
* Colours, hashes, metrics: stateless, or counters nobody reads back. The hash
  of a client is an arbitrary number in `LoadBalancer`.
* Generated protobuf code; HTML and JSON formatting of the REST server.
