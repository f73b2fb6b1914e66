------------------------------- MODULE Sniffer -------------------------------
(***************************************************************************)
(* The packet sniffer (pkg/sniffer/main/sniffer.go): one goroutine captures*)
(* packets into flow tables, publishers store the tables in the cluster,   *)
(* main waits for the end, and a signal handler brings it.                 *)
(*                                                                         *)
(* Tables travel through two buffered channels, buffer and captureReady.   *)
(* quitReady is unbuffered and shared: a sender meets the capture loop, a  *)
(* publisher or main, whoever happens to receive.  Everything the process  *)
(* does ends when it exits.                                                *)
(***************************************************************************)
EXTENDS Naturals, FiniteSets, Sequences

CONSTANTS
    Hash,        \* hashes of transport flows
    Address,     \* IP addresses
    Worker,      \* the publishers
    NumPktBuffer,\* s.numPktBuffer: last packet number of a table, and capacity of captureReady
    MaxPackets,  \* bound: packets on the wire
    MaxTables    \* bound: tables captured

ASSUME SnifferAssumption ==
    /\ NumPktBuffer \in Nat \ {0} /\ MaxPackets \in Nat /\ MaxTables \in Nat
    /\ IsFiniteSet(Worker) /\ Worker # {}

VARIABLES
    wire,         \* packets so far, and whether the source is still open
    capture,      \* the capture goroutine: its position and locals
    buffer,       \* the channel of startCapture
    captureReady, \* the channel to the publishers
    publishReady, \* tokens in the channel of the publishers
    worker,       \* the publishers: position, table in hand and keys left
    main,         \* position of RunE
    handler,      \* position of the signal goroutine
    locked,       \* lock is held
    process,      \* "run" or "exit"
    seen,         \* ghost: the packets of the table being captured
    made,         \* the keys of each table captured; the channels carry its number
    taken,        \* ghost: tables taken by publishers, in order
    stored,       \* ghost: <<table, key>> that Store returned true for
    failed,       \* ghost: tables for which a Store failed
    quits         \* ghost: quit tokens that publishers received

channels == <<buffer, captureReady, publishReady>>
ghosts   == <<seen, made, taken, stored, failed, quits>>
vars == <<wire, capture, channels, worker, main, handler, locked, process, ghosts>>

Packet == [hash : Hash, src : Address, dst : Address]
Empty  == [h \in Hash |-> <<>>]     \* a hash with no flow is not in the map
Keys(table) == {h \in Hash : table[h] # <<>>}

Running == process = "run"

-----------------------------------------------------------------------------
(* RunE and start, with NewSniffer; publishers make their clients first.   *)
Init ==
    /\ wire = [packets |-> 0, open |-> TRUE]
    /\ capture = [pc |-> "off", numPkt |-> 0, table |-> Empty, hand |-> 0]
    /\ buffer = <<>> /\ captureReady = <<>> /\ publishReady = 0
    /\ worker = [w \in Worker |-> [pc |-> "off", table |-> 0, left |-> {}]]
    /\ main = "config" /\ handler = "new" /\ locked = FALSE
    /\ process = "run"
    /\ seen = <<>> /\ made = <<>> /\ taken = <<>>
    /\ stored = {} /\ failed = {} /\ quits = 0

Exit == process' = "exit"

(* The lock is kept until RunE returns.                                    *)
MakeChannelDeferred ==
    /\ main = "config" /\ ~locked
    /\ main' = "open"
    /\ locked' = TRUE
    /\ UNCHANGED <<wire, capture, channels, worker, handler, process, ghosts>>

(* channelQuit is made.                                                    *)
MakeChannel ==
    /\ main = "config" /\ ~locked
    /\ main' = "open"
    /\ UNCHANGED <<wire, capture, channels, worker, handler, locked, process, ghosts>>

(* NewSniffer opens the device, or RunE returns and the process ends.      *)
NewSniffer ==
    /\ main = "open"
    /\ \/ /\ main' = "start"
          /\ capture' = [capture EXCEPT !.pc = "read"]
          /\ worker' = [w \in Worker |-> [pc |-> "new", table |-> 0, left |-> {}]]
          /\ UNCHANGED process
       \/ main' = "end" /\ Exit /\ UNCHANGED <<capture, worker>>
    /\ UNCHANGED <<wire, channels, handler, locked, ghosts>>

-----------------------------------------------------------------------------
(* startCapture and capture                                                *)

(* A flow counts as known when its source is.                              *)
RecordedBySource(table, p) ==
    [table EXCEPT ![p.hash] =
        IF \E i \in DOMAIN @ : @[i].src = p.src
        THEN @ ELSE Append(@, [src |-> p.src, dst |-> p.dst])]

(* The list of a hash gets every pair of addresses once.                   *)
Recorded(table, p) ==
    [table EXCEPT ![p.hash] =
        IF \E i \in DOMAIN @ : @[i].src = p.src /\ @[i].dst = p.dst
        THEN @ ELSE Append(@, [src |-> p.src, dst |-> p.dst])]

(* The counter is compared after it was raised past the limit.             *)
FullLate(n) == n > NumPktBuffer

(* numPkt is compared before it is raised.                                 *)
Full(n) == n = NumPktBuffer

(* A packet with a transport layer; the others are skipped.                *)
Capture ==
    /\ capture.pc = "read" /\ wire.open
    /\ wire.packets < MaxPackets /\ Len(made) < MaxTables
    /\ wire' = [wire EXCEPT !.packets = @ + 1]
    /\ \E p \in Packet :
          /\ seen' = Append(seen, p)
          /\ capture' = [capture EXCEPT
                !.table = Recorded(@, p),
                !.pc = IF Full(capture.numPkt) THEN "send" ELSE "read",
                !.numPkt = IF Full(@) THEN @ ELSE @ + 1]
    /\ UNCHANGED <<channels, worker, main, handler, locked, process, made, taken,
                   stored, failed, quits>>

(* The source ends, and from then on every capture returns what it has.    *)
SourceEnds ==
    /\ wire.open
    /\ wire' = [wire EXCEPT !.open = FALSE]
    /\ UNCHANGED <<capture, channels, worker, main, handler, locked, process, ghosts>>

CaptureEnds ==
    /\ capture.pc = "read" /\ ~wire.open /\ Len(made) < MaxTables
    /\ capture' = [capture EXCEPT !.pc = "send"]
    /\ UNCHANGED <<wire, channels, worker, main, handler, locked, process, ghosts>>

(* capture hands its table over and returns.                               *)
SendTable ==
    /\ capture.pc = "send"
    /\ made' = Append(made, Keys(capture.table))
    /\ buffer' = Append(buffer, Len(made'))
    /\ capture' = [pc |-> "select", numPkt |-> 0, table |-> Empty, hand |-> 0]
    /\ seen' = <<>>
    /\ UNCHANGED <<wire, captureReady, publishReady, worker, main, handler, locked,
                   process, taken, stored, failed, quits>>

(* The select of startCapture receives a table.                            *)
SelectTable ==
    /\ capture.pc = "select" /\ buffer # <<>>
    /\ capture' = [capture EXCEPT !.pc = "forward", !.hand = Head(buffer)]
    /\ buffer' = Tail(buffer)
    /\ UNCHANGED <<wire, captureReady, publishReady, worker, main, handler, locked,
                   process, ghosts>>

(* A full channel is skipped instead of waited for.                        *)
ForwardOrDrop ==
    /\ capture.pc = "forward"
    /\ captureReady' = IF Len(captureReady) < NumPktBuffer
                       THEN Append(captureReady, capture.hand) ELSE captureReady
    /\ capture' = [capture EXCEPT !.pc = "read", !.hand = 0]
    /\ UNCHANGED <<wire, buffer, publishReady, worker, main, handler, locked, process, ghosts>>

Forward ==
    /\ capture.pc = "forward"
    /\ Len(captureReady) < NumPktBuffer
    /\ captureReady' = Append(captureReady, capture.hand)
    /\ capture' = [capture EXCEPT !.pc = "read", !.hand = 0]
    /\ UNCHANGED <<wire, buffer, publishReady, worker, main, handler, locked, process, ghosts>>

startCapture == Capture \/ CaptureEnds \/ SendTable \/ SelectTable \/ Forward

-----------------------------------------------------------------------------
(* start's publishers                                                      *)

SetWorker(w, pc, table, left) ==
    worker' = [worker EXCEPT ![w] = [pc |-> pc, table |-> table, left |-> left]]

(* A client that finds no leader is fatal for the process.                 *)
NewRestClient(w) ==
    /\ worker[w].pc = "new"
    /\ \/ SetWorker(w, "publish", 0, {}) /\ UNCHANGED process
       \/ Exit /\ UNCHANGED worker
    /\ UNCHANGED <<wire, capture, channels, main, handler, locked, ghosts>>

Take(w) ==
    /\ worker[w].pc = "publish" /\ captureReady # <<>>
    /\ captureReady' = Tail(captureReady)
    /\ taken' = Append(taken, Head(captureReady))
    /\ SetWorker(w, "store", Head(captureReady), made[Head(captureReady)])
    /\ UNCHANGED <<wire, capture, buffer, publishReady, main, handler, locked, process,
                   seen, made, stored, failed, quits>>

(* The loop over the table is left after a success.                        *)
LeftAfterOnce(left, k, ok) == IF ok THEN {} ELSE left \ {k}

(* The loop goes on after a success and is left at the first failure, with *)
(* the rest of the table unstored.                                         *)
LeftAfter(left, k, ok) == IF ok THEN left \ {k} ELSE {}

(* Store of one key, in the order of Go's map.  What a true means for the  *)
(* cluster is the matter of RestStore.                                     *)
Store(w) ==
    /\ worker[w].pc = "store" /\ worker[w].left # {}
    /\ \E k \in worker[w].left, ok \in BOOLEAN :
          LET n == worker[w].table
          IN  /\ SetWorker(w, "store", n, LeftAfter(worker[w].left, k, ok))
              /\ stored' = IF ok THEN stored \cup {<<n, k>>} ELSE stored
              /\ failed' = IF ok THEN failed ELSE failed \cup {n}
    /\ UNCHANGED <<wire, capture, channels, main, handler, locked, process, seen, made,
                   taken, quits>>

(* publish returns without a token.                                        *)
PublishDoneSilently(w) ==
    /\ worker[w].pc = "store" /\ worker[w].left = {}
    /\ SetWorker(w, "wait", 0, {})
    /\ UNCHANGED <<wire, capture, channels, main, handler, locked, process, ghosts>>

(* publish puts a token into publishReady, which has room for all.         *)
PublishDone(w) ==
    /\ worker[w].pc = "store" /\ worker[w].left = {}
    /\ publishReady' = publishReady + 1
    /\ SetWorker(w, "wait", 0, {})
    /\ UNCHANGED <<wire, capture, buffer, captureReady, main, handler, locked, process, ghosts>>

(* The loop of start takes a token, its own or another publisher's.        *)
Again(w) ==
    /\ worker[w].pc = "wait" /\ publishReady > 0
    /\ publishReady' = publishReady - 1
    /\ SetWorker(w, "publish", 0, {})
    /\ UNCHANGED <<wire, capture, buffer, captureReady, main, handler, locked, process, ghosts>>

publish(w) == NewRestClient(w) \/ Take(w) \/ Store(w) \/ PublishDone(w) \/ Again(w)

-----------------------------------------------------------------------------
(* The end                                                                 *)

(* The goroutine of main gets to its receive.                              *)
HandlerReceive ==
    /\ handler = "new"
    /\ handler' = "wait"
    /\ UNCHANGED <<wire, capture, channels, worker, main, locked, process, ghosts>>

(* signal.Notify was called before, and its channel has no buffer: a       *)
(* signal meets the goroutine in its receive, or is dropped.  One that is  *)
(* dropped, before the receive or after the first signal, changes nothing. *)
Signal ==
    /\ handler = "wait"
    /\ handler' = "lock"
    /\ UNCHANGED <<wire, capture, channels, worker, main, locked, process, ghosts>>

(* signalHandler: the variable sniffer is never assigned, so Stop is not   *)
(* called here; without channelQuit the process ends at once.  It sends    *)
(* one token at most, so RunE never gets to its own Stop.                  *)
HandlerLock ==
    /\ handler = "lock" /\ ~locked
    /\ locked' = TRUE
    /\ handler' = IF main = "config" THEN "exit" ELSE "send"
    /\ UNCHANGED <<wire, capture, channels, worker, main, process, ghosts>>

(* quitReady has room for nothing: a sender meets a receiver.  A break in  *)
(* the select of startCapture leaves the select and not the loop.          *)
ReceiveQuit ==
    \/ /\ capture.pc = "select"
       /\ capture' = [capture EXCEPT !.pc = "read"]
       /\ UNCHANGED <<worker, main, quits>>
    \/ /\ \E w \in Worker : worker[w].pc = "publish" /\ SetWorker(w, "wait", 0, {})
       /\ quits' = quits + 1
       /\ UNCHANGED <<capture, main>>
    \/ /\ main = "start"
       /\ main' = "run"
       /\ UNCHANGED <<capture, worker, quits>>

HandlerSend ==
    /\ handler = "send"
    /\ ReceiveQuit
    /\ handler' = "exit" /\ locked' = FALSE
    /\ UNCHANGED <<wire, channels, process, seen, made, taken, stored, failed>>

HandlerExit ==
    /\ handler = "exit"
    /\ Exit
    /\ UNCHANGED <<wire, capture, channels, worker, main, handler, locked, ghosts>>

signalHandler == HandlerReceive \/ HandlerLock \/ HandlerSend \/ HandlerExit

Next ==
    /\ Running
    /\ \/ MakeChannel \/ NewSniffer \/ SourceEnds \/ startCapture
       \/ \E w \in Worker : publish(w)
       \/ Signal \/ signalHandler

(* Goroutines that can run do.  Nothing is assumed of packets and signals. *)
Fairness ==
    /\ WF_vars(Running /\ (MakeChannel \/ NewSniffer))
    /\ WF_vars(Running /\ (CaptureEnds \/ SendTable \/ SelectTable \/ Forward))
    /\ \A w \in Worker : WF_vars(Running /\ publish(w))
    /\ WF_vars(Running /\ signalHandler)

Spec == Init /\ [][Next]_vars /\ Fairness

-----------------------------------------------------------------------------
(* Properties                                                              *)

Flow == [src : Address, dst : Address]
InProgress == IF capture.hand = 0 THEN <<>> ELSE <<capture.hand>>
Count(pc) == Cardinality({w \in Worker : worker[w].pc = pc})

(* Types; a table is full after NumPktBuffer + 1 packets, never later.     *)
TypeOK ==
    /\ wire \in [packets : 0 .. MaxPackets, open : BOOLEAN]
    /\ capture.pc \in {"off", "read", "send", "select", "forward"}
    /\ capture.numPkt \in 0 .. NumPktBuffer
    /\ \A h \in Hash : capture.table[h] \in Seq(Flow)
    /\ capture.hand \in 0 .. MaxTables
    /\ Len(seen) <= NumPktBuffer + 1 /\ Len(made) <= MaxTables
    /\ Len(captureReady) <= NumPktBuffer
    /\ publishReady \in 0 .. Cardinality(Worker)
    /\ worker \in [Worker -> [pc : {"off", "new", "publish", "store", "wait"},
                              table : 0 .. MaxTables, left : SUBSET Hash]]
    /\ main \in {"config", "open", "start", "run", "end"}
    /\ handler \in {"new", "wait", "lock", "send", "exit"}
    /\ locked \in BOOLEAN /\ process \in {"run", "exit"} /\ quits \in Nat

(* capture (sniffer.go:119): a table lists for every hash the pairs of     *)
(* addresses of its packets, all of them, and of any two the one that was  *)
(* seen first comes first, so that none is listed twice.                   *)
IsOf(p, h, f) == p.hash = h /\ p.src = f.src /\ p.dst = f.dst
SeenBefore(packets, h, f, g) ==
    \E m \in DOMAIN packets :
        IsOf(packets[m], h, f) /\ \A k \in 1 .. m : ~IsOf(packets[k], h, g)
Lists(list, h, packets) ==
    /\ \A f \in Flow : (\E i \in DOMAIN list : list[i] = f)
                        <=> (\E m \in DOMAIN packets : IsOf(packets[m], h, f))
    /\ \A i, j \in DOMAIN list : i < j => SeenBefore(packets, h, list[i], list[j])
TableIsFaithful == \A h \in Hash : Lists(capture.table[h], h, seen)

(* startCapture and publish: no table is lost, taken twice or overtaken on *)
(* its way through the two channels, whoever receives the quit token.      *)
TablesInOrder ==
    taken \o captureReady \o InProgress \o buffer = [i \in DOMAIN made |-> i]

(* start (sniffer.go:244): publishers wait for exactly the tokens that are *)
(* there, and one more for each quit token a publisher received.           *)
TokenBalance == Count("wait") = publishReady + quits

(* publish (sniffer.go:185): a flow of a table that a publisher took is    *)
(* stored, or is still before a publisher, or a Store of its table failed, *)
(* whatever tokens the publishers take from each other in the meantime.    *)
FlowsLeft(n) == UNION {worker[w].left : w \in {v \in Worker : worker[v].table = n}}
NoFlowDropped ==
    \A i \in DOMAIN taken :
        \/ taken[i] \in failed
        \/ \A h \in made[taken[i]] : <<taken[i], h>> \in stored \/ h \in FlowsLeft(taken[i])

(* signalHandler (sniffer.go:404) waits for a lock that nobody keeps, and  *)
(* when it sends with the lock held, on a channel without a buffer, RunE   *)
(* is about to receive or has only to open the device before it does.      *)
SignalIsHeard ==
    Running => /\ handler = "lock" => ~locked
               /\ handler = "send" => main \in {"open", "start"}

(* Every flow captured is stored, unless a Store of its table failed or    *)
(* the process ended: publishers take each other's tokens, wait for room   *)
(* and for tables, and a quit token may put the capture loop behind by a   *)
(* table, and none of it strands one.                                      *)
EveryFlowStored ==
    \A n \in 1 .. MaxTables :
        Len(made) >= n ~> \/ Len(made) >= n /\ \A h \in made[n] : <<n, h>> \in stored
                          \/ n \in failed \/ ~Running

(* A signal that the goroutine of main receives ends the process, whatever *)
(* start-up and capture have come to.  One that comes before its receive   *)
(* is lost, and another is needed.                                         *)
SignalExits == handler = "lock" ~> ~Running
==============================================================================
