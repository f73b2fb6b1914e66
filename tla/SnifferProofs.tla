---------------------------- MODULE SnifferProofs ----------------------------
(***************************************************************************)
(* For any number of publishers, any hashes and addresses and any size of  *)
(* a table: a table lists the flows of its packets, none is lost, taken    *)
(* twice or overtaken, no flow of one is dropped, the publishers wait for  *)
(* exactly the tokens that are there, and a signal is heard.               *)
(***************************************************************************)
EXTENDS Sniffer, SequenceTheorems, FiniteSetTheorems, TLAPS

-----------------------------------------------------------------------------
(* The inductive invariant                                                 *)

Table == 1 .. MaxTables
CaptureType ==
    [pc : {"off", "read", "send", "select", "forward"}, numPkt : 0 .. NumPktBuffer,
     table : [Hash -> Seq(Flow)], hand : 0 .. MaxTables]
WorkerType ==
    [pc : {"off", "new", "publish", "store", "wait"}, table : 0 .. MaxTables,
     left : SUBSET Hash]

Shape ==
    /\ wire \in [packets : 0 .. MaxPackets, open : BOOLEAN]
    /\ capture \in CaptureType /\ worker \in [Worker -> WorkerType]
    /\ seen \in Seq(Packet) /\ made \in Seq(SUBSET Hash)
    /\ buffer \in Seq(Table) /\ captureReady \in Seq(Table) /\ taken \in Seq(Table)
    /\ publishReady \in Nat /\ quits \in Nat
    /\ main \in {"config", "open", "start", "run", "end"}
    /\ handler \in {"new", "wait", "lock", "send", "exit"}
    /\ locked \in BOOLEAN /\ process \in {"run", "exit"}

(* The capture loop: numPkt counts the packets of a table that is not full *)
(* yet, a table that is sent has a number left, and the loop holds one     *)
(* exactly while it forwards it.                                           *)
Loop ==
    /\ Len(seen) <= NumPktBuffer + 1 /\ Len(made) <= MaxTables
    /\ Len(captureReady) <= NumPktBuffer
    /\ capture.pc # "send" => Len(seen) <= capture.numPkt
    /\ capture.pc = "send" => Len(made) < MaxTables
    /\ capture.hand # 0 <=> capture.pc = "forward"

(* Nothing runs before NewSniffer has started it.                          *)
Starting ==
    main \in {"config", "open"} =>
        capture.pc = "off" /\ \A w \in Worker : worker[w].pc = "off"

(* Only a publisher at its loop has flows before it.                       *)
Hands == \A w \in Worker : worker[w].pc # "store" => worker[w].left = {}

(* The lock is held from HandlerLock to HandlerSend, and RunE receives a   *)
(* token from HandlerSend only.                                            *)
Handling ==
    /\ handler \in {"new", "wait", "lock"} => ~locked
    /\ handler # "exit" => main # "run"
    /\ handler = "send" => main # "config"
    /\ main = "end" => ~Running

SnifferInv ==
    /\ Shape /\ Loop /\ Starting /\ Hands /\ Handling
    /\ TableIsFaithful /\ TablesInOrder /\ NoFlowDropped /\ TokenBalance

-----------------------------------------------------------------------------
(* Lemmas on the operators                                                 *)

LEMMA RecordedType ==
    ASSUME NEW table \in [Hash -> Seq(Flow)], NEW p \in Packet
    PROVE  Recorded(table, p) \in [Hash -> Seq(Flow)]
  <1>1. [src |-> p.src, dst |-> p.dst] \in Flow /\ p.hash \in Hash
    BY DEF Packet, Flow
  <1>2. table[p.hash] \in Seq(Flow)
    BY <1>1
  <1>3. Append(table[p.hash], [src |-> p.src, dst |-> p.dst]) \in Seq(Flow)
    BY <1>1, <1>2
  <1> QED BY <1>1, <1>2, <1>3 DEF Recorded

LEMMA EmptyType == Empty \in [Hash -> Seq(Flow)]
  BY DEF Empty

(* A table that moves from the head of a channel to the end of the next.   *)
LEMMA Moved ==
    ASSUME NEW S, NEW s \in Seq(S), NEW t \in Seq(S), t # <<>>
    PROVE  Append(s, Head(t)) \o Tail(t) = s \o t
  <1>1. /\ Head(t) \in S /\ Tail(t) \in Seq(S) /\ Len(Tail(t)) = Len(t) - 1
        /\ \A i \in 1 .. Len(Tail(t)) : Tail(t)[i] = t[i + 1]
    BY HeadTailProperties
  <1>2. Head(t) = t[1] /\ Len(t) \in Nat \ {0} /\ Len(s) \in Nat
    BY EmptySeq, LenProperties
  <1> DEFINE a == Append(s, Head(t))
  <1>3. /\ a \in Seq(S) /\ Len(a) = Len(s) + 1 /\ a[Len(s) + 1] = t[1]
        /\ \A i \in 1 .. Len(s) : a[i] = s[i]
    BY <1>1, <1>2, AppendProperties
  <1> HIDE DEF a
  <1>4. /\ a \o Tail(t) \in Seq(S) /\ Len(a \o Tail(t)) = Len(s) + Len(t)
        /\ \A i \in 1 .. Len(s) + Len(t) : (a \o Tail(t))[i] =
              IF i <= Len(s) + 1 THEN a[i] ELSE Tail(t)[i - (Len(s) + 1)]
    <2>1. /\ a \o Tail(t) \in Seq(S) /\ Len(a \o Tail(t)) = Len(a) + Len(Tail(t))
          /\ \A i \in 1 .. Len(a) + Len(Tail(t)) : (a \o Tail(t))[i] =
                IF i <= Len(a) THEN a[i] ELSE Tail(t)[i - Len(a)]
      BY <1>1, <1>3, ConcatProperties
    <2>2. Len(a) + Len(Tail(t)) = Len(s) + Len(t) /\ Len(a) = Len(s) + 1
      BY <1>1, <1>2, <1>3
    <2> QED BY ONLY <2>1, <2>2
  <1>5. /\ s \o t \in Seq(S) /\ Len(s \o t) = Len(s) + Len(t)
        /\ \A i \in 1 .. Len(s) + Len(t) : (s \o t)[i] =
              IF i <= Len(s) THEN s[i] ELSE t[i - Len(s)]
    BY ConcatProperties
  <1>6. ASSUME NEW i \in 1 .. Len(s) + Len(t) PROVE (a \o Tail(t))[i] = (s \o t)[i]
    <2>1. CASE i <= Len(s)
      BY <1>2, <1>3, <1>4, <1>5, <2>1
    <2>2. CASE i = Len(s) + 1
      BY <1>2, <1>3, <1>4, <1>5, <2>2
    <2>3. CASE i > Len(s) + 1
      <3>1. i - (Len(s) + 1) \in 1 .. Len(Tail(t)) /\ i - (Len(s) + 1) + 1 = i - Len(s)
        BY <1>1, <1>2, <2>3
      <3>2. (a \o Tail(t))[i] = Tail(t)[i - (Len(s) + 1)]
        BY <1>2, <1>4, <2>3
      <3>3. (s \o t)[i] = t[i - Len(s)]
        BY <1>2, <1>5, <2>3
      <3>4. Tail(t)[i - (Len(s) + 1)] = t[i - (Len(s) + 1) + 1]
        BY <1>1, <3>1
      <3> QED BY <3>1, <3>2, <3>3, <3>4
    <2>4. i <= Len(s) \/ i = Len(s) + 1 \/ i > Len(s) + 1
      BY <1>2
    <2> QED BY <2>1, <2>2, <2>3, <2>4
  <1>7. a \o Tail(t) = s \o t
    BY <1>2, <1>4, <1>5, <1>6, SeqEqual
  <1> QED BY <1>7 DEF a

-----------------------------------------------------------------------------
(* The initial state                                                       *)

LEMMA InitSniffer == ASSUME Init PROVE SnifferInv
  <1>1. Shape
    <2>1. [pc |-> "off", numPkt |-> 0, table |-> Empty, hand |-> 0] \in CaptureType
      BY EmptyType, SnifferAssumption DEF CaptureType
    <2>2. [w \in Worker |-> [pc |-> "off", table |-> 0, left |-> {}]] \in [Worker -> WorkerType]
      BY SnifferAssumption DEF WorkerType
    <2>3. wire \in [packets : 0 .. MaxPackets, open : BOOLEAN]
      BY SnifferAssumption DEF Init
    <2>4. /\ seen \in Seq(Packet) /\ made \in Seq(SUBSET Hash)
          /\ buffer \in Seq(Table) /\ captureReady \in Seq(Table) /\ taken \in Seq(Table)
      BY EmptySeq DEF Init
    <2> QED BY <2>1, <2>2, <2>3, <2>4 DEF Init, Shape
  <1>2. Loop /\ Starting /\ Hands /\ Handling /\ NoFlowDropped
    BY SnifferAssumption DEF Init, Loop, Starting, Hands, Handling, NoFlowDropped
  <1>3. TablesInOrder
    <2>1. <<>> \o <<>> = <<>>
      BY ConcatEmptySeq, EmptySeq
    <2>2. [i \in DOMAIN made |-> i] = <<>>
      BY DEF Init
    <2> QED BY <2>1, <2>2 DEF Init, TablesInOrder, InProgress
  <1>4. TokenBalance
    <2>1. {w \in Worker : worker[w].pc = "wait"} = {}
      BY DEF Init
    <2>2. Count("wait") = 0
      BY <2>1, FS_EmptySet DEF Count
    <2> QED BY <2>2 DEF Init, TokenBalance
  <1>5. TableIsFaithful
    BY DEF Init, Empty, TableIsFaithful, Lists
  <1> QED BY <1>1, <1>2, <1>3, <1>4, <1>5 DEF SnifferInv

-----------------------------------------------------------------------------
(* Types                                                                   *)

(* A table on its way has a number that was given out.                     *)
LEMMA ReadyIsMade ==
    ASSUME Shape, TablesInOrder, captureReady # <<>>
    PROVE  Head(captureReady) \in DOMAIN made /\ Head(captureReady) \in Table
  <1>1. /\ captureReady \in Seq(Table) /\ taken \in Seq(Table) /\ buffer \in Seq(Table)
        /\ InProgress \in Seq(Table)
    <2>1. capture.hand \in 0 .. MaxTables
      BY DEF Shape, CaptureType
    <2>2. capture.hand # 0 => capture.hand \in Table
      BY <2>1, SnifferAssumption DEF Table
    <2> QED BY <2>2 DEF Shape, InProgress
  <1> DEFINE a == taken \o captureReady
             b == a \o InProgress
             all == b \o buffer
             k == Len(taken) + 1
  <1>2. Len(taken) \in Nat /\ Len(captureReady) \in Nat \ {0}
    BY <1>1, EmptySeq, LenProperties
  <1>3. a \in Seq(Table) /\ k \in 1 .. Len(a) /\ a[k] = captureReady[1]
    <2>1. /\ a \in Seq(Table) /\ Len(a) = Len(taken) + Len(captureReady)
          /\ \A i \in 1 .. Len(taken) + Len(captureReady) :
                a[i] = IF i <= Len(taken) THEN taken[i] ELSE captureReady[i - Len(taken)]
      BY <1>1, ConcatProperties
    <2>2. k \in 1 .. Len(taken) + Len(captureReady) /\ ~(k <= Len(taken)) /\ k - Len(taken) = 1
      BY <1>2
    <2> HIDE DEF a, k
    <2> QED BY <2>1, <2>2
  <1>4. b \in Seq(Table) /\ k \in 1 .. Len(b) /\ b[k] = a[k]
    <2> HIDE DEF a, k
    <2> QED BY <1>1, <1>3, ConcatProperties, LenProperties
  <1>5. all \in Seq(Table) /\ k \in 1 .. Len(all) /\ all[k] = b[k]
    <2> HIDE DEF a, b, k
    <2>1. /\ b \o buffer \in Seq(Table) /\ Len(b \o buffer) = Len(b) + Len(buffer)
          /\ \A i \in 1 .. Len(b) + Len(buffer) :
                (b \o buffer)[i] = IF i <= Len(b) THEN b[i] ELSE buffer[i - Len(b)]
      BY <1>1, <1>4, ConcatProperties
    <2>2. Len(b) \in Nat /\ Len(buffer) \in Nat
      BY <1>1, <1>4, LenProperties
    <2> QED BY <1>4, <2>1, <2>2
  <1>6. all = [i \in DOMAIN made |-> i]
    BY DEF TablesInOrder
  <1>7. DOMAIN all = 1 .. Len(all)
    BY <1>5, LenProperties
  <1> HIDE DEF all, k
  <1>8. k \in DOMAIN made /\ all[k] = k
    BY <1>5, <1>6, <1>7
  <1>9. Head(captureReady) = captureReady[1] /\ Head(captureReady) \in Table
    BY <1>1, HeadTailProperties
  <1> HIDE DEF a, b
  <1> QED BY <1>3, <1>4, <1>5, <1>8, <1>9

LEMMA WorkerSet ==
    ASSUME Shape, NEW w \in Worker, NEW pc \in {"off", "new", "publish", "store", "wait"},
           NEW table \in 0 .. MaxTables, NEW left \in SUBSET Hash,
           SetWorker(w, pc, table, left)
    PROVE  worker' \in [Worker -> WorkerType]
  BY DEF Shape, SetWorker, WorkerType

LEMMA ShapeCapture ==
    ASSUME Shape, Loop, startCapture PROVE Shape'
  <1> USE DEF channels, ghosts
  <1>0. /\ capture \in CaptureType /\ capture.numPkt \in 0 .. NumPktBuffer
        /\ capture.table \in [Hash -> Seq(Flow)] /\ NumPktBuffer \in Nat /\ MaxTables \in Nat
        /\ buffer \in Seq(Table) /\ captureReady \in Seq(Table) /\ made \in Seq(SUBSET Hash)
        /\ seen \in Seq(Packet) /\ Len(made) \in Nat
    BY SnifferAssumption, LenProperties DEF Shape, CaptureType
  <1>1. CASE Capture
    <2>1. PICK p \in Packet :
            /\ seen' = Append(seen, p)
            /\ capture' = [capture EXCEPT
                  !.table = Recorded(@, p),
                  !.pc = IF Full(capture.numPkt) THEN "send" ELSE "read",
                  !.numPkt = IF Full(@) THEN @ ELSE @ + 1]
      BY <1>1 DEF Capture
    <2>2. seen' \in Seq(Packet)
      BY <1>0, <2>1, AppendProperties
    <2>3. Recorded(capture.table, p) \in [Hash -> Seq(Flow)]
      BY <1>0, RecordedType
    <2>4. ~Full(capture.numPkt) => capture.numPkt + 1 \in 0 .. NumPktBuffer
      BY <1>0 DEF Full
    <2>5. capture' \in CaptureType
      BY <1>0, <2>1, <2>3, <2>4 DEF CaptureType
    <2>6. wire' \in [packets : 0 .. MaxPackets, open : BOOLEAN]
      <3>1. wire \in [packets : 0 .. MaxPackets, open : BOOLEAN] /\ wire.packets \in 0 .. MaxPackets
        BY DEF Shape
      <3>2. wire.packets + 1 \in 0 .. MaxPackets
        BY <1>1, <3>1, SnifferAssumption DEF Capture
      <3>3. wire' = [wire EXCEPT !.packets = @ + 1]
        BY <1>1 DEF Capture
      <3> QED BY <3>1, <3>2, <3>3
    <2> QED BY <1>1, <2>2, <2>5, <2>6 DEF Capture, Shape
  <1>2. CASE CaptureEnds
    <2>1. capture' \in CaptureType
      BY <1>0, <1>2 DEF CaptureEnds, CaptureType
    <2> QED BY <1>2, <2>1 DEF CaptureEnds, Shape
  <1>3. CASE SendTable
    <2>1. Keys(capture.table) \in SUBSET Hash
      BY DEF Keys
    <2>2. made' \in Seq(SUBSET Hash) /\ Len(made') = Len(made) + 1
      BY <1>0, <1>3, <2>1, AppendProperties DEF SendTable
    <2>3. Len(made') \in Table
      BY <1>0, <1>3, <2>2 DEF SendTable, Loop, Table
    <2>4. buffer' \in Seq(Table)
      BY <1>0, <1>3, <2>3, AppendProperties DEF SendTable
    <2>5. capture' \in CaptureType
      BY <1>0, <1>3, EmptyType DEF SendTable, CaptureType
    <2>6. seen' \in Seq(Packet)
      BY <1>3, EmptySeq DEF SendTable
    <2> QED BY <1>3, <2>2, <2>4, <2>5, <2>6 DEF SendTable, Shape
  <1>4. CASE SelectTable
    <2>1. Head(buffer) \in Table /\ buffer' \in Seq(Table)
      BY <1>0, <1>4, HeadTailProperties DEF SelectTable
    <2>2. Head(buffer) \in 0 .. MaxTables
      BY <1>0, <2>1 DEF Table
    <2>3. capture' \in CaptureType
      BY <1>0, <1>4, <2>2 DEF SelectTable, CaptureType
    <2> QED BY <1>4, <2>1, <2>3 DEF SelectTable, Shape
  <1>5. CASE Forward
    <2>1. capture.hand \in 0 .. MaxTables /\ capture.hand # 0
      BY <1>0, <1>5 DEF Forward, Loop, CaptureType
    <2>2. capture.hand \in Table
      BY <1>0, <2>1 DEF Table
    <2>3. captureReady' \in Seq(Table)
      BY <1>0, <1>5, <2>2, AppendProperties DEF Forward
    <2>4. capture' \in CaptureType
      <3>1. 0 \in 0 .. MaxTables
        BY <1>0
      <3> QED BY <1>0, <1>5, <3>1 DEF Forward, CaptureType
    <2> QED BY <1>5, <2>3, <2>4 DEF Forward, Shape
  <1> QED BY <1>1, <1>2, <1>3, <1>4, <1>5 DEF startCapture

LEMMA ShapePublish ==
    ASSUME Shape, TablesInOrder, NEW w \in Worker, publish(w) PROVE Shape'
  <1> USE DEF channels, ghosts
  <1>0. /\ captureReady \in Seq(Table) /\ taken \in Seq(Table) /\ made \in Seq(SUBSET Hash)
        /\ worker[w] \in WorkerType /\ publishReady \in Nat /\ MaxTables \in Nat
    BY SnifferAssumption DEF Shape
  <1>1. CASE NewRestClient(w)
    <2>1. worker' \in [Worker -> WorkerType] /\ process' \in {"run", "exit"}
      BY <1>0, <1>1, WorkerSet DEF NewRestClient, Exit, Shape
    <2> QED BY <1>1, <2>1 DEF NewRestClient, Shape
  <1>2. CASE Take(w)
    <2>1. /\ Head(captureReady) \in Table /\ Head(captureReady) \in DOMAIN made
          /\ captureReady' \in Seq(Table)
      BY <1>0, <1>2, ReadyIsMade, HeadTailProperties DEF Take
    <2>2. taken' \in Seq(Table)
      BY <1>0, <1>2, <2>1, AppendProperties DEF Take
    <2>3. Head(captureReady) \in 0 .. MaxTables /\ made[Head(captureReady)] \in SUBSET Hash
      BY <1>0, <2>1, LenProperties DEF Table
    <2>4. worker' \in [Worker -> WorkerType]
      BY <1>2, <2>3, WorkerSet DEF Take
    <2> QED BY <1>2, <2>1, <2>2, <2>4 DEF Take, Shape
  <1>3. CASE Store(w)
    <2>1. \A k, ok : LeftAfter(worker[w].left, k, ok) \in SUBSET Hash
      BY <1>0 DEF LeftAfter, WorkerType
    <2>2. worker[w].table \in 0 .. MaxTables
      BY <1>0 DEF WorkerType
    <2>3. worker' \in [Worker -> WorkerType]
      BY <1>3, <2>1, <2>2, WorkerSet DEF Store
    <2> QED BY <1>3, <2>3 DEF Store, Shape
  <1>4. CASE PublishDone(w)
    <2>1. worker' \in [Worker -> WorkerType]
      <3>1. SetWorker(w, "wait", 0, {})
        BY <1>4 DEF PublishDone
      <3>2. 0 \in 0 .. MaxTables /\ {} \in SUBSET Hash
        BY <1>0
      <3> QED BY <3>1, <3>2, WorkerSet
    <2>2. publishReady' \in Nat
      BY <1>0, <1>4 DEF PublishDone, Shape
    <2> QED BY <1>4, <2>1, <2>2, ZenonT(60) DEF PublishDone, Shape
  <1>5. CASE Again(w)
    <2>1. worker' \in [Worker -> WorkerType]
      <3>1. SetWorker(w, "publish", 0, {})
        BY <1>5 DEF Again
      <3>2. 0 \in 0 .. MaxTables /\ {} \in SUBSET Hash
        BY <1>0
      <3> QED BY <3>1, <3>2, WorkerSet
    <2>2. publishReady' \in Nat
      BY <1>0, <1>5 DEF Again, Shape
    <2> QED BY <1>5, <2>1, <2>2, ZenonT(60) DEF Again, Shape
  <1> QED BY <1>1, <1>2, <1>3, <1>4, <1>5 DEF publish

LEMMA ShapeOthers ==
    ASSUME Shape,
           \/ MakeChannel \/ NewSniffer \/ SourceEnds \/ Signal \/ signalHandler
           \/ UNCHANGED vars
    PROVE  Shape'
  <1> USE DEF channels, ghosts
  <1>0. capture \in CaptureType /\ worker \in [Worker -> WorkerType] /\ MaxTables \in Nat
    BY SnifferAssumption DEF Shape
  <1>1. CASE MakeChannel
    BY <1>1 DEF MakeChannel, Shape
  <1>2. CASE NewSniffer
    <2>1. [w \in Worker |-> [pc |-> "new", table |-> 0, left |-> {}]] \in [Worker -> WorkerType]
      BY <1>0 DEF WorkerType
    <2>2. [capture EXCEPT !.pc = "read"] \in CaptureType
      BY <1>0 DEF CaptureType
    <2>3. capture' \in CaptureType /\ worker' \in [Worker -> WorkerType]
      BY <1>0, <1>2, <2>1, <2>2 DEF NewSniffer
    <2>4. main' \in {"config", "open", "start", "run", "end"} /\ process' \in {"run", "exit"}
      BY <1>2 DEF NewSniffer, Exit, Shape
    <2> QED BY <1>2, <2>3, <2>4 DEF NewSniffer, Shape
  <1>3. CASE SourceEnds
    BY <1>3 DEF SourceEnds, Shape
  <1>4. CASE HandlerReceive \/ Signal
    BY <1>4 DEF HandlerReceive, Signal, Shape
  <1>5. CASE HandlerLock
    <2>1. handler' \in {"new", "wait", "lock", "send", "exit"} /\ locked' \in BOOLEAN
      BY <1>5 DEF HandlerLock
    <2> QED BY <1>5, <2>1 DEF HandlerLock, Shape
  <1>6. CASE HandlerSend
    <2>1. CASE capture' = [capture EXCEPT !.pc = "read"] /\ UNCHANGED <<worker, main, quits>>
      <3>1. capture' \in CaptureType
        BY <1>0, <2>1 DEF CaptureType
      <3> QED BY <1>6, <2>1, <3>1 DEF HandlerSend, Shape
    <2>2. CASE /\ \E w \in Worker : SetWorker(w, "wait", 0, {})
               /\ quits' = quits + 1 /\ UNCHANGED <<capture, main>>
      <3>1. 0 \in 0 .. MaxTables
        BY <1>0
      <3>2. worker' \in [Worker -> WorkerType]
        BY <2>2, <3>1, WorkerSet
      <3>3. quits' \in Nat
        BY <2>2 DEF Shape
      <3> QED BY <1>6, <2>2, <3>2, <3>3 DEF HandlerSend, Shape
    <2>3. CASE main' = "run" /\ UNCHANGED <<capture, worker, quits>>
      BY <1>6, <2>3 DEF HandlerSend, Shape
    <2> QED BY <1>6, <2>1, <2>2, <2>3 DEF HandlerSend, ReceiveQuit
  <1>7. CASE HandlerExit
    BY <1>7 DEF HandlerExit, Exit, Shape
  <1>8. CASE UNCHANGED vars
    BY <1>8 DEF vars, Shape
  <1> QED BY <1>1, <1>2, <1>3, <1>4, <1>5, <1>6, <1>7, <1>8 DEF signalHandler

-----------------------------------------------------------------------------
(* The capture loop                                                        *)

LEMMA LoopNext ==
    ASSUME Shape, Loop, Starting, [Next]_vars PROVE Loop'
  <1> USE DEF channels, ghosts
  <1>0. /\ capture \in CaptureType /\ NumPktBuffer \in Nat \ {0} /\ MaxTables \in Nat
        /\ capture.numPkt \in Nat /\ capture.hand \in Nat
        /\ seen \in Seq(Packet) /\ made \in Seq(SUBSET Hash)
        /\ captureReady \in Seq(Table) /\ buffer \in Seq(Table)
        /\ Len(seen) \in Nat /\ Len(made) \in Nat /\ Len(captureReady) \in Nat
    BY SnifferAssumption, LenProperties DEF Shape, CaptureType
  <1>1. CASE Capture
    <2>1. PICK p \in Packet :
            /\ seen' = Append(seen, p)
            /\ capture' = [capture EXCEPT
                  !.table = Recorded(@, p),
                  !.pc = IF Full(capture.numPkt) THEN "send" ELSE "read",
                  !.numPkt = IF Full(@) THEN @ ELSE @ + 1]
      BY <1>1 DEF Capture
    <2>2. Len(seen') = Len(seen) + 1
      BY <1>0, <2>1, AppendProperties
    <2>3. /\ capture'.pc = IF Full(capture.numPkt) THEN "send" ELSE "read"
          /\ capture'.numPkt = IF Full(capture.numPkt) THEN capture.numPkt ELSE capture.numPkt + 1
          /\ capture'.hand = capture.hand
      BY <1>0, <2>1 DEF CaptureType
    <2>4. UNCHANGED <<made, captureReady>> /\ capture.pc = "read" /\ Len(made) < MaxTables
      BY <1>1 DEF Capture
    <2>5. Len(seen) <= capture.numPkt /\ capture.hand = 0
      BY <2>4 DEF Loop
    <2>6. CASE Full(capture.numPkt)
      <3>1. Len(seen') <= NumPktBuffer + 1
        BY <1>0, <2>2, <2>5, <2>6 DEF Full
      <3> QED BY <2>3, <2>4, <2>5, <2>6, <3>1 DEF Loop
    <2>7. CASE ~Full(capture.numPkt)
      <3>1. capture.numPkt <= NumPktBuffer
        BY <1>0 DEF CaptureType
      <3>2. Len(seen') <= capture'.numPkt /\ Len(seen') <= NumPktBuffer + 1
        BY <1>0, <2>2, <2>3, <2>5, <2>7, <3>1 DEF Full
      <3> QED BY <2>3, <2>4, <2>5, <2>7, <3>2 DEF Loop
    <2> QED BY <2>6, <2>7
  <1>2. CASE CaptureEnds
    <2>1. capture'.pc = "send" /\ capture'.hand = capture.hand /\ UNCHANGED <<seen, made, captureReady>>
      BY <1>0, <1>2 DEF CaptureEnds, CaptureType
    <2> QED BY <1>2, <2>1 DEF CaptureEnds, Loop
  <1>3. CASE SendTable
    <2>1. Len(made') = Len(made) + 1
      <3>1. Keys(capture.table) \in SUBSET Hash
        BY DEF Keys
      <3> QED BY <1>0, <1>3, <3>1, AppendProperties DEF SendTable
    <2>2. /\ capture'.pc = "select" /\ capture'.hand = 0 /\ capture'.numPkt = 0
          /\ Len(seen') = 0 /\ UNCHANGED captureReady
      BY <1>3 DEF SendTable
    <2>3. Len(made') <= MaxTables
      BY <1>0, <1>3, <2>1 DEF SendTable, Loop
    <2> QED BY <1>0, <2>2, <2>3 DEF Loop
  <1>4. CASE SelectTable
    <2>1. Head(buffer) # 0
      <3>1. Head(buffer) \in Table
        BY <1>0, <1>4, HeadTailProperties DEF SelectTable
      <3> QED BY <1>0, <3>1 DEF Table
    <2>2. /\ capture'.pc = "forward" /\ capture'.hand # 0 /\ capture'.numPkt = capture.numPkt
          /\ UNCHANGED <<seen, made, captureReady>> /\ capture.pc = "select"
      BY <1>0, <1>4, <2>1 DEF SelectTable, CaptureType
    <2> QED BY <2>2 DEF Loop
  <1>5. CASE Forward
    <2>1. /\ capture'.pc = "read" /\ capture'.hand = 0 /\ capture'.numPkt = capture.numPkt
          /\ UNCHANGED <<seen, made>> /\ capture.pc = "forward"
      BY <1>0, <1>5 DEF Forward, CaptureType
    <2>2. capture.hand \in Table
      <3>1. capture.hand # 0 /\ capture.hand \in 0 .. MaxTables
        BY <1>0, <2>1 DEF Loop, CaptureType
      <3> QED BY <1>0, <3>1 DEF Table
    <2>3. Len(captureReady') <= NumPktBuffer
      BY <1>0, <1>5, <2>2, AppendProperties DEF Forward
    <2> QED BY <2>1, <2>3 DEF Loop
  <1>6. CASE NewSniffer
    <2>1. CASE capture' = [capture EXCEPT !.pc = "read"]
      <3>1. /\ capture'.pc = "read" /\ capture'.hand = capture.hand
            /\ capture'.numPkt = capture.numPkt /\ UNCHANGED <<seen, made, captureReady>>
        BY <1>0, <1>6, <2>1 DEF NewSniffer, CaptureType
      <3>2. capture.pc = "off"
        BY <1>6 DEF NewSniffer, Starting
      <3> QED BY <3>1, <3>2 DEF Loop
    <2>2. CASE UNCHANGED capture
      BY <1>6, <2>2 DEF NewSniffer, Loop
    <2> QED BY <1>6, <2>1, <2>2 DEF NewSniffer
  <1>7. CASE HandlerSend
    <2>1. CASE capture.pc = "select" /\ capture' = [capture EXCEPT !.pc = "read"]
      <3>1. /\ capture'.pc = "read" /\ capture'.hand = capture.hand
            /\ capture'.numPkt = capture.numPkt /\ UNCHANGED <<seen, made, captureReady>>
        BY <1>0, <1>7, <2>1 DEF HandlerSend, CaptureType
      <3> QED BY <2>1, <3>1 DEF Loop
    <2>2. CASE UNCHANGED capture
      BY <1>7, <2>2 DEF HandlerSend, Loop
    <2> QED BY <1>7, <2>1, <2>2 DEF HandlerSend, ReceiveQuit
  <1>8. CASE \E w \in Worker : Take(w)
    <2>1. Len(captureReady') = Len(captureReady) - 1 /\ UNCHANGED <<capture, seen, made>>
      BY <1>0, <1>8, HeadTailProperties DEF Take
    <2> QED BY <1>0, <2>1 DEF Loop
  <1>9. CASE UNCHANGED <<capture, seen, made, captureReady>>
    BY <1>9 DEF Loop
  <1>10. ASSUME NEW w \in Worker, publish(w), ~Take(w)
         PROVE  UNCHANGED <<capture, seen, made, captureReady>>
    BY <1>10 DEF publish, NewRestClient, Store, PublishDone, Again
  <1>11. ASSUME \/ MakeChannel \/ SourceEnds \/ HandlerReceive \/ Signal \/ HandlerLock \/ HandlerExit
                \/ UNCHANGED vars
         PROVE  UNCHANGED <<capture, seen, made, captureReady>>
    BY <1>11 DEF MakeChannel, SourceEnds, HandlerReceive, Signal, HandlerLock, HandlerExit, vars
  <1> QED
    BY <1>1, <1>2, <1>3, <1>4, <1>5, <1>6, <1>7, <1>8, <1>9, <1>10, <1>11
       DEF Next, startCapture, signalHandler

LEMMA StartingNext ==
    ASSUME Shape, Starting, [Next]_vars PROVE Starting'
  <1> USE DEF channels, ghosts
  <1>1. CASE UNCHANGED <<main, capture, worker>>
    BY <1>1 DEF Starting
  <1>2. CASE MakeChannel
    BY <1>2 DEF MakeChannel, Starting
  <1>3. CASE NewSniffer \/ HandlerSend
    <2>1. CASE NewSniffer
      BY <2>1 DEF NewSniffer, Starting
    <2>2. CASE HandlerSend
      BY <2>2 DEF HandlerSend, ReceiveQuit, Starting
    <2> QED BY <1>3, <2>1, <2>2
  <1>4. ASSUME startCapture \/ \E w \in Worker : publish(w)
        PROVE  UNCHANGED main /\ (UNCHANGED <<capture, worker>> \/ main \notin {"config", "open"})
    <2>1. CASE startCapture
      BY <2>1 DEF startCapture, Capture, CaptureEnds, SendTable, SelectTable, Forward, Starting
    <2>2. CASE \E w \in Worker : publish(w)
      BY <2>2 DEF publish, NewRestClient, Take, Store, PublishDone, Again, Starting
    <2> QED BY <1>4, <2>1, <2>2
  <1>5. ASSUME SourceEnds \/ HandlerReceive \/ Signal \/ HandlerLock \/ HandlerExit \/ UNCHANGED vars
        PROVE  UNCHANGED <<main, capture, worker>>
    BY <1>5 DEF SourceEnds, HandlerReceive, Signal, HandlerLock, HandlerExit, vars
  <1> QED BY <1>1, <1>2, <1>3, <1>4, <1>5 DEF Next, signalHandler, Starting

-----------------------------------------------------------------------------
(* What a table lists                                                      *)

(* One more packet is what the list of its hash, and no other, may have to *)
(* change for.                                                             *)
LEMMA OneMorePacket ==
    ASSUME NEW s \in Seq(Packet), NEW p \in Packet
    PROVE  /\ Append(s, p) \in Seq(Packet) /\ Len(s) \in Nat /\ Append(s, p)[Len(s) + 1] = p
           /\ \A k \in 1 .. Len(s) : Append(s, p)[k] = s[k]
           /\ DOMAIN s = 1 .. Len(s) /\ DOMAIN Append(s, p) = 1 .. Len(s) + 1
           /\ \A h, f : (\E m \in DOMAIN Append(s, p) : IsOf(Append(s, p)[m], h, f))
                        <=> (\E m \in DOMAIN s : IsOf(s[m], h, f)) \/ IsOf(p, h, f)
           /\ \A h, f, g : SeenBefore(s, h, f, g) => SeenBefore(Append(s, p), h, f, g)
  <1> DEFINE t == Append(s, p)
  <1>1. /\ t \in Seq(Packet) /\ Len(t) = Len(s) + 1
        /\ t[Len(s) + 1] = p /\ \A k \in 1 .. Len(s) : t[k] = s[k]
    BY AppendProperties
  <1>2. Len(s) \in Nat /\ DOMAIN s = 1 .. Len(s) /\ DOMAIN t = 1 .. Len(s) + 1
    BY <1>1, LenProperties
  <1> HIDE DEF t
  <1>3. /\ \A m \in DOMAIN s : m \in DOMAIN t /\ t[m] = s[m]
        /\ \A m \in DOMAIN t : m \in DOMAIN s \/ m = Len(s) + 1
        /\ Len(s) + 1 \in DOMAIN t
    BY <1>1, <1>2
  <1>4. \A h, f : (\E m \in DOMAIN t : IsOf(t[m], h, f))
                  <=> (\E m \in DOMAIN s : IsOf(s[m], h, f)) \/ IsOf(p, h, f)
    BY <1>1, <1>3
  <1>5. ASSUME NEW h, NEW f, NEW g, SeenBefore(s, h, f, g) PROVE SeenBefore(t, h, f, g)
    <2>1. PICK m \in DOMAIN s : IsOf(s[m], h, f) /\ \A k \in 1 .. m : ~IsOf(s[k], h, g)
      BY <1>5 DEF SeenBefore
    <2>2. m \in DOMAIN t /\ t[m] = s[m] /\ \A k \in 1 .. m : t[k] = s[k]
      BY <1>1, <1>2, <1>3
    <2> QED BY <2>1, <2>2 DEF SeenBefore
  <1> QED BY <1>1, <1>2, <1>4, <1>5 DEF t

LEMMA ListKept ==
    ASSUME NEW s \in Seq(Packet), NEW p \in Packet, NEW h \in Hash, NEW list \in Seq(Flow),
           Lists(list, h, s),
           h = p.hash => \E i \in DOMAIN list : list[i] = [src |-> p.src, dst |-> p.dst]
    PROVE  Lists(list, h, Append(s, p))
  <1> DEFINE new == [src |-> p.src, dst |-> p.dst]
             t == Append(s, p)
  <1>1. \A f \in Flow : IsOf(p, h, f) <=> h = p.hash /\ f = new
    BY DEF IsOf, Flow
  <1>2. \A f : (\E m \in DOMAIN t : IsOf(t[m], h, f))
               <=> (\E m \in DOMAIN s : IsOf(s[m], h, f)) \/ IsOf(p, h, f)
    BY OneMorePacket
  <1>3. \A f, g : SeenBefore(s, h, f, g) => SeenBefore(t, h, f, g)
    BY OneMorePacket
  <1> HIDE DEF t, new
  <1>4. /\ \A f \in Flow : (\E i \in DOMAIN list : list[i] = f)
                            <=> (\E m \in DOMAIN s : IsOf(s[m], h, f))
        /\ \A i, j \in DOMAIN list : i < j => SeenBefore(s, h, list[i], list[j])
    BY DEF Lists
  <1>5. h = p.hash => \E i \in DOMAIN list : list[i] = new
    BY DEF new
  <1>6. Lists(list, h, t)
    BY <1>1, <1>2, <1>3, <1>4, <1>5 DEF Lists
  <1> QED BY <1>6 DEF t

LEMMA ListExtended ==
    ASSUME NEW s \in Seq(Packet), NEW p \in Packet, NEW list \in Seq(Flow),
           Lists(list, p.hash, s),
           ~\E i \in DOMAIN list : list[i] = [src |-> p.src, dst |-> p.dst]
    PROVE  Lists(Append(list, [src |-> p.src, dst |-> p.dst]), p.hash, Append(s, p))
  <1> DEFINE new == [src |-> p.src, dst |-> p.dst]
             t == Append(s, p)
             l == Append(list, new)
             h == p.hash
             n == Len(list) + 1
  <1>1. new \in Flow /\ \A f \in Flow : IsOf(p, h, f) <=> f = new
    BY DEF IsOf, Flow, Packet
  <1>2. /\ \A f : (\E m \in DOMAIN t : IsOf(t[m], h, f))
                  <=> (\E m \in DOMAIN s : IsOf(s[m], h, f)) \/ IsOf(p, h, f)
        /\ \A f, g : SeenBefore(s, h, f, g) => SeenBefore(t, h, f, g)
        /\ Len(s) \in Nat /\ DOMAIN s = 1 .. Len(s) /\ DOMAIN t = 1 .. Len(s) + 1
        /\ \A k \in 1 .. Len(s) : t[k] = s[k]
    BY OneMorePacket
  <1>3. /\ DOMAIN list = 1 .. Len(list) /\ Len(list) \in Nat
        /\ DOMAIN l = 1 .. n /\ l[n] = new /\ \A i \in DOMAIN list : l[i] = list[i]
    <2>1. /\ l \in Seq(Flow) /\ Len(l) = n /\ l[n] = new
          /\ \A i \in 1 .. Len(list) : l[i] = list[i]
      BY <1>1, AppendProperties
    <2> QED BY <2>1, LenProperties
  <1>4. /\ \A i \in DOMAIN l : i \in DOMAIN list \/ i = n
        /\ \A i \in DOMAIN list : i \in DOMAIN l /\ i < n /\ list[i] \in Flow
        /\ n \in DOMAIN l
    BY <1>3
  <1> HIDE DEF new, t, l, n, h
  <1>5. /\ \A f \in Flow : (\E i \in DOMAIN list : list[i] = f)
                            <=> (\E m \in DOMAIN s : IsOf(s[m], h, f))
        /\ \A i, j \in DOMAIN list : i < j => SeenBefore(s, h, list[i], list[j])
        /\ ~\E i \in DOMAIN list : list[i] = new
    BY DEF Lists, new, h
  <1>6. ASSUME NEW f \in Flow
        PROVE  (\E i \in DOMAIN l : l[i] = f) <=> (\E m \in DOMAIN t : IsOf(t[m], h, f))
    <2>1. (\E i \in DOMAIN l : l[i] = f) <=> (\E i \in DOMAIN list : list[i] = f) \/ f = new
      BY <1>3, <1>4
    <2> QED BY <1>1, <1>2, <1>5, <2>1
  <1>7. ASSUME NEW i \in DOMAIN l, NEW j \in DOMAIN l, i < j
        PROVE  SeenBefore(t, h, l[i], l[j])
    <2>1. i \in DOMAIN list
      BY <1>3, <1>7 DEF n
    <2>2. CASE j \in DOMAIN list
      BY <1>2, <1>3, <1>5, <1>7, <2>1, <2>2
    <2>3. CASE j = n
      <3>1. \A m \in DOMAIN s : ~IsOf(s[m], h, new)
        BY <1>1, <1>5
      <3>2. l[i] \in Flow /\ l[i] = list[i] /\ l[j] = new
        BY <1>3, <1>4, <2>1, <2>3
      <3>3. PICK m \in DOMAIN s : IsOf(s[m], h, l[i])
        BY <1>5, <2>1, <3>2
      <3>4. /\ m \in DOMAIN t /\ t[m] = s[m]
            /\ \A k \in 1 .. m : k \in DOMAIN s /\ t[k] = s[k]
        BY <1>2
      <3> QED BY <3>1, <3>2, <3>3, <3>4 DEF SeenBefore
    <2> QED BY <1>4, <2>2, <2>3
  <1>8. Lists(l, h, t)
    BY <1>6, <1>7 DEF Lists
  <1> QED BY <1>8 DEF l, h, t, new

LEMMA FaithfulCapture ==
    ASSUME Shape, TableIsFaithful, Capture PROVE TableIsFaithful'
  <1>1. PICK p \in Packet :
          /\ seen' = Append(seen, p)
          /\ capture' = [capture EXCEPT
                !.table = Recorded(@, p),
                !.pc = IF Full(capture.numPkt) THEN "send" ELSE "read",
                !.numPkt = IF Full(@) THEN @ ELSE @ + 1]
    BY DEF Capture
  <1> DEFINE new == [src |-> p.src, dst |-> p.dst]
             old == capture.table
  <1>2. /\ capture \in CaptureType /\ old \in [Hash -> Seq(Flow)]
        /\ seen \in Seq(Packet) /\ new \in Flow /\ p.hash \in Hash
    BY DEF Shape, CaptureType, Packet, Flow
  <1>3. capture'.table = Recorded(old, p)
    BY <1>1, <1>2 DEF CaptureType
  <1>4. ASSUME NEW h \in Hash PROVE Lists(Recorded(old, p)[h], h, Append(seen, p))
    <2>1. old[h] \in Seq(Flow) /\ Lists(old[h], h, seen)
      BY <1>2 DEF TableIsFaithful
    <2>2. \A i \in DOMAIN old[h] : old[h][i] = new <=> old[h][i].src = p.src /\ old[h][i].dst = p.dst
      <3>1. \A i \in DOMAIN old[h] : old[h][i] \in Flow
        BY <2>1
      <3>2. \A f \in Flow : f = new <=> f.src = p.src /\ f.dst = p.dst
        BY DEF Flow
      <3> HIDE DEF old, new
      <3> QED BY <3>1, <3>2
    <2>3. CASE h # p.hash
      <3>1. Recorded(old, p)[h] = old[h]
        BY <1>2, <2>3 DEF Recorded
      <3> QED BY <1>2, <2>1, <2>3, <3>1, ListKept
    <2>4. CASE h = p.hash /\ \E i \in DOMAIN old[h] : old[h][i] = new
      <3>1. Recorded(old, p)[h] = old[h]
        <4>1. \E i \in DOMAIN old[h] : old[h][i].src = p.src /\ old[h][i].dst = p.dst
          BY <2>2, <2>4
        <4> QED BY <1>2, <2>4, <4>1 DEF Recorded
      <3> QED BY <1>2, <2>1, <2>4, <3>1, ListKept
    <2>5. CASE h = p.hash /\ ~\E i \in DOMAIN old[h] : old[h][i] = new
      <3>1. Recorded(old, p)[h] = Append(old[h], new)
        <4>1. ~\E i \in DOMAIN old[h] : old[h][i].src = p.src /\ old[h][i].dst = p.dst
          BY <2>2, <2>5
        <4> QED BY <1>2, <2>5, <4>1 DEF Recorded
      <3> QED BY <1>2, <2>1, <2>5, <3>1, ListExtended
    <2> QED BY <2>3, <2>4, <2>5
  <1> QED BY <1>1, <1>3, <1>4 DEF TableIsFaithful

LEMMA FaithfulNext ==
    ASSUME Shape, TableIsFaithful, [Next]_vars PROVE TableIsFaithful'
  <1> USE DEF channels, ghosts
  <1>0. capture \in CaptureType
    BY DEF Shape
  <1>1. CASE capture'.table = capture.table /\ UNCHANGED seen
    BY <1>1 DEF TableIsFaithful
  <1>2. CASE SendTable
    <2>1. seen' = <<>> /\ \A h \in Hash : capture'.table[h] = <<>>
      BY <1>2 DEF SendTable, Empty
    <2>2. \A h : Lists(<<>>, h, <<>>)
      BY DEF Lists
    <2> QED BY <2>1, <2>2 DEF TableIsFaithful
  <1>3. ASSUME \/ CaptureEnds \/ SelectTable \/ Forward \/ NewSniffer \/ HandlerSend
        PROVE  capture'.table = capture.table /\ UNCHANGED seen
    BY <1>0, <1>3 DEF CaptureEnds, SelectTable, Forward, NewSniffer, HandlerSend, ReceiveQuit,
       CaptureType
  <1>4. ASSUME \/ MakeChannel \/ SourceEnds \/ HandlerReceive \/ Signal \/ HandlerLock \/ HandlerExit
               \/ UNCHANGED vars \/ \E w \in Worker : publish(w)
        PROVE  UNCHANGED <<capture, seen>>
    BY <1>4 DEF MakeChannel, SourceEnds, HandlerReceive, Signal, HandlerLock, HandlerExit, vars,
       publish, NewRestClient, Take, Store, PublishDone, Again
  <1> QED BY <1>1, <1>2, <1>3, <1>4, FaithfulCapture DEF Next, startCapture, signalHandler

-----------------------------------------------------------------------------
(* Tables through the channels                                             *)

LEMMA OrderNext ==
    ASSUME Shape, Loop, Starting, TablesInOrder, [Next]_vars PROVE TablesInOrder'
  <1> USE DEF channels, ghosts
  <1>0. /\ capture \in CaptureType /\ MaxTables \in Nat /\ Len(made) \in Nat
        /\ made \in Seq(SUBSET Hash) /\ DOMAIN made = 1 .. Len(made)
        /\ captureReady \in Seq(Table) /\ buffer \in Seq(Table) /\ taken \in Seq(Table)
    BY SnifferAssumption, LenProperties DEF Shape, CaptureType
  <1>1. /\ capture.hand = 0 => InProgress = <<>>
        /\ capture.hand # 0 => InProgress = <<capture.hand>> /\ capture.hand \in Table
    <2>1. capture.hand \in 0 .. MaxTables
      BY <1>0 DEF CaptureType
    <2>2. capture.hand # 0 => capture.hand \in Table
      BY <1>0, <2>1 DEF Table
    <2> QED BY <2>2 DEF InProgress
  <1>2. InProgress \in Seq(Table)
    <2>1. CASE capture.hand = 0
      BY <1>1, <2>1
    <2>2. CASE capture.hand # 0
      <3>1. \A n \in Table : <<n>> \in Seq(Table)
        OBVIOUS
      <3>2. InProgress = <<capture.hand>> /\ capture.hand \in Table
        BY <1>1, <2>2
      <3> QED BY <3>1, <3>2
    <2> QED BY <2>1, <2>2
  <1> DEFINE a == taken \o captureReady
  <1>3. a \in Seq(Table) /\ a \o InProgress \in Seq(Table)
    <2>1. a \in Seq(Table)
      BY <1>0, ConcatProperties
    <2> HIDE DEF a
    <2> QED BY <1>2, <2>1, ConcatProperties
  <1>4. (a \o InProgress) \o buffer = [i \in DOMAIN made |-> i]
    BY DEF TablesInOrder
  <1>5. CASE SendTable
    <2> DEFINE n == Len(made) + 1
               all == (a \o InProgress) \o buffer
    <2>1. /\ made' = Append(made, Keys(capture.table)) /\ buffer' = Append(buffer, Len(made'))
          /\ capture'.hand = 0 /\ UNCHANGED <<captureReady, taken>>
          /\ capture.pc = "send"
      BY <1>5 DEF SendTable
    <2>2. made' \in Seq(SUBSET Hash) /\ Len(made') = n /\ DOMAIN made' = 1 .. n
      <3>1. Keys(capture.table) \in SUBSET Hash
        BY DEF Keys
      <3> QED BY <1>0, <2>1, <3>1, AppendProperties, LenProperties
    <2>3. n \in Table
      BY <1>0, <2>1 DEF Loop, Table
    <2>4. InProgress = <<>> /\ InProgress' = <<>>
      BY <2>1 DEF Loop, InProgress
    <2>5. all \in Seq(Table)
      <3> DEFINE x == a \o InProgress
      <3>1. x \in Seq(Table)
        BY <1>3
      <3> HIDE DEF x
      <3>2. x \o buffer \in Seq(Table)
        BY <1>0, <3>1, ConcatProperties
      <3> QED BY <3>2 DEF x
    <2>6. (a \o InProgress) \o Append(buffer, n) = Append(all, n)
      <3> DEFINE x == a \o InProgress
      <3>1. x \in Seq(Table) /\ <<n>> \in Seq(Table) /\ x \o buffer \in Seq(Table)
        BY <1>3, <2>3, <2>5
      <3> HIDE DEF x
      <3>2. Append(buffer, n) = buffer \o <<n>>
        BY <1>0, <2>3, AppendIsConcat
      <3>3. x \o (buffer \o <<n>>) = (x \o buffer) \o <<n>>
        BY <1>0, <3>1, ConcatAssociative
      <3>4. Append(x \o buffer, n) = (x \o buffer) \o <<n>>
        BY <2>3, <3>1, AppendIsConcat
      <3>5. x \o Append(buffer, n) = Append(x \o buffer, n)
        BY <3>2, <3>3, <3>4
      <3> QED BY <3>5 DEF x
    <2>7. Append(all, n) = [i \in 1 .. n |-> i]
      <3>1. all = [i \in 1 .. Len(made) |-> i]
        BY <1>0, <1>4
      <3> HIDE DEF all
      <3>2. Len(all) = Len(made)
        BY <1>0, <2>5, <3>1, LenProperties
      <3>3. /\ Append(all, n) \in Seq(Table) /\ Len(Append(all, n)) = n
            /\ \A i \in 1 .. Len(made) : Append(all, n)[i] = all[i]
            /\ Append(all, n)[n] = n
        BY <2>3, <2>5, <3>2, AppendProperties
      <3>4. Append(all, n) \in [1 .. n -> Table]
        BY <3>3, LenProperties
      <3>5. ASSUME NEW i \in 1 .. n PROVE Append(all, n)[i] = i
        <4>1. CASE i = n
          BY <3>3, <4>1
        <4>2. CASE i # n
          <5>1. i \in 1 .. Len(made)
            BY <1>0, <4>2
          <5> QED BY <3>1, <3>3, <5>1
        <4> QED BY <4>1, <4>2
      <3> QED BY <3>4, <3>5
    <2>8. (a \o InProgress)' \o buffer' = (a \o InProgress) \o Append(buffer, n)
      BY <2>1, <2>2, <2>4
    <2> QED BY <2>2, <2>6, <2>7, <2>8 DEF TablesInOrder
  <1>6. CASE SelectTable
    <2>1. /\ buffer # <<>> /\ buffer' = Tail(buffer) /\ capture'.hand = Head(buffer)
          /\ UNCHANGED <<captureReady, taken, made>> /\ capture.pc = "select"
      BY <1>0, <1>6 DEF SelectTable, CaptureType
    <2>2. Head(buffer) \in Table /\ Head(buffer) # 0
      <3>1. Head(buffer) \in Table
        BY <1>0, <2>1, HeadTailProperties
      <3> QED BY <1>0, <3>1 DEF Table
    <2>3. InProgress = <<>> /\ InProgress' = <<Head(buffer)>>
      BY <2>1, <2>2 DEF Loop, InProgress
    <2> HIDE DEF a
    <2>4. a \o InProgress = a
      BY <1>3, <2>3, ConcatEmptySeq
    <2>5. a \o <<Head(buffer)>> = Append(a, Head(buffer))
      BY <1>3, <2>2, AppendIsConcat
    <2>6. Append(a, Head(buffer)) \o Tail(buffer) = a \o buffer
      BY <1>0, <1>3, <2>1, Moved
    <2>7. (a' \o InProgress') \o buffer' = [i \in DOMAIN made |-> i]
      <3>1. a' = a
        BY <2>1 DEF a
      <3> QED BY <1>4, <2>1, <2>3, <2>4, <2>5, <2>6, <3>1
    <2> QED BY <2>1, <2>7 DEF a, TablesInOrder
  <1>7. CASE Forward
    <2>1. /\ captureReady' = Append(captureReady, capture.hand) /\ capture'.hand = 0
          /\ UNCHANGED <<buffer, taken, made>> /\ capture.pc = "forward"
      BY <1>0, <1>7 DEF Forward, CaptureType
    <2>2. InProgress = <<capture.hand>> /\ capture.hand \in Table /\ InProgress' = <<>>
      BY <1>1, <2>1 DEF Loop, InProgress
    <2>3. a' = a \o InProgress
      <3>1. Append(captureReady, capture.hand) = captureReady \o <<capture.hand>>
        BY <1>0, <2>2, AppendIsConcat
      <3>2. taken \o (captureReady \o InProgress) = (taken \o captureReady) \o InProgress
        <4>1. taken \in Seq(Table) /\ captureReady \in Seq(Table) /\ InProgress \in Seq(Table)
          BY <1>0, <1>2
        <4> QED BY <4>1, ConcatAssociative
      <3> QED BY <2>1, <2>2, <3>1, <3>2
    <2> HIDE DEF a
    <2>4. a' \o InProgress' = a \o InProgress
      <3> DEFINE x == a \o InProgress
      <3>1. x \in Seq(Table) /\ a' = x
        BY <1>3, <2>3
      <3> HIDE DEF x
      <3>2. x \o <<>> = x
        BY <3>1, ConcatEmptySeq
      <3>3. a' \o InProgress' = x
        BY <2>2, <3>1, <3>2
      <3> QED BY <3>3 DEF x
    <2>5. (a' \o InProgress') \o buffer' = [i \in DOMAIN made |-> i]
      BY <1>4, <2>1, <2>4
    <2> QED BY <2>1, <2>5 DEF a, TablesInOrder
  <1>8. CASE \E w \in Worker : Take(w)
    <2>1. /\ captureReady # <<>> /\ captureReady' = Tail(captureReady)
          /\ taken' = Append(taken, Head(captureReady)) /\ UNCHANGED <<capture, buffer, made>>
      BY <1>8 DEF Take
    <2>2. a' = a
      <3>1. Append(taken, Head(captureReady)) \o Tail(captureReady) = taken \o captureReady
        BY <1>0, <2>1, Moved
      <3> QED BY <2>1, <3>1
    <2>3. InProgress' = InProgress
      BY <2>1 DEF InProgress
    <2> HIDE DEF a
    <2>4. (a' \o InProgress') \o buffer' = [i \in DOMAIN made |-> i]
      BY <1>4, <2>1, <2>2, <2>3
    <2> QED BY <2>1, <2>4 DEF a, TablesInOrder
  <1>9. CASE capture'.hand = capture.hand /\ UNCHANGED <<buffer, captureReady, taken, made>>
    BY <1>9 DEF TablesInOrder, InProgress
  <1>10. ASSUME NEW w \in Worker, publish(w), ~Take(w)
         PROVE  capture'.hand = capture.hand /\ UNCHANGED <<buffer, captureReady, taken, made>>
    BY <1>10 DEF publish, NewRestClient, Store, PublishDone, Again
  <1>11. ASSUME \/ MakeChannel \/ SourceEnds \/ HandlerReceive \/ Signal \/ HandlerLock \/ HandlerExit
                \/ UNCHANGED vars
         PROVE  capture'.hand = capture.hand /\ UNCHANGED <<buffer, captureReady, taken, made>>
    BY <1>11 DEF MakeChannel, SourceEnds, HandlerReceive, Signal, HandlerLock, HandlerExit, vars
  <1>12. ASSUME Capture \/ CaptureEnds
         PROVE  capture'.hand = capture.hand /\ UNCHANGED <<buffer, captureReady, taken, made>>
    BY <1>0, <1>12 DEF Capture, CaptureEnds, CaptureType
  <1>13. ASSUME NewSniffer \/ HandlerSend
         PROVE  capture'.hand = capture.hand /\ UNCHANGED <<buffer, captureReady, taken, made>>
    BY <1>0, <1>13 DEF NewSniffer, HandlerSend, ReceiveQuit, CaptureType
  <1> QED
    BY <1>5, <1>6, <1>7, <1>8, <1>9, <1>10, <1>11, <1>12, <1>13
       DEF Next, startCapture, signalHandler

-----------------------------------------------------------------------------
(* Tokens                                                                  *)

Waiting == {w \in Worker : worker[w].pc = "wait"}

(* One publisher more or less that waits.                                  *)
LEMMA CountWait ==
    ASSUME Shape, NEW w \in Worker, NEW pc, NEW table, NEW left,
           SetWorker(w, pc, table, left)
    PROVE  /\ worker[w].pc # "wait" /\ pc = "wait" => Count("wait")' = Count("wait") + 1
           /\ worker[w].pc = "wait" /\ pc # "wait" => Count("wait")' = Count("wait") - 1
           /\ worker[w].pc # "wait" /\ pc # "wait" => Count("wait")' = Count("wait")
  <1>1. Waiting \subseteq Worker /\ IsFiniteSet(Waiting) /\ IsFiniteSet(Worker)
    BY SnifferAssumption, FS_Subset DEF Waiting
  <1>2. Count("wait") = Cardinality(Waiting) /\ Count("wait")' = Cardinality(Waiting')
    BY DEF Count, Waiting
  <1>3. /\ worker'[w].pc = pc /\ \A v \in Worker \ {w} : worker'[v] = worker[v]
    BY DEF Shape, SetWorker
  <1>4. CASE worker[w].pc # "wait" /\ pc = "wait"
    <2>1. Waiting' = Waiting \cup {w} /\ w \notin Waiting
      BY <1>3, <1>4 DEF Waiting
    <2> QED BY <1>1, <1>2, <1>4, <2>1, FS_AddElement
  <1>5. CASE worker[w].pc = "wait" /\ pc # "wait"
    <2>1. Waiting' = Waiting \ {w} /\ w \in Waiting
      BY <1>3, <1>5 DEF Waiting
    <2> QED BY <1>1, <1>2, <1>5, <2>1, FS_RemoveElement
  <1>6. CASE worker[w].pc # "wait" /\ pc # "wait"
    <2>1. Waiting' = Waiting
      BY <1>3, <1>6 DEF Waiting
    <2> QED BY <1>2, <1>6, <2>1
  <1> QED BY <1>4, <1>5, <1>6

LEMMA TokensNext ==
    ASSUME Shape, Starting, TokenBalance, [Next]_vars PROVE TokenBalance'
  <1> USE DEF channels, ghosts
  <1>0. publishReady \in Nat /\ quits \in Nat /\ Count("wait") = publishReady + quits
    BY DEF Shape, TokenBalance
  <1>1. CASE UNCHANGED <<worker, publishReady, quits>>
    BY <1>1 DEF TokenBalance, Count
  <1>2. CASE NewSniffer
    <2>1. CASE worker' = [w \in Worker |-> [pc |-> "new", table |-> 0, left |-> {}]]
      <3>1. {w \in Worker : worker[w].pc = "wait"} = {}
        BY <1>2 DEF NewSniffer, Starting
      <3>2. {w \in Worker : worker'[w].pc = "wait"} = {}
        BY <2>1
      <3>3. Count("wait")' = Count("wait")
        BY <3>1, <3>2 DEF Count
      <3> QED BY <1>2, <1>0, <3>3 DEF NewSniffer, TokenBalance
    <2>2. CASE UNCHANGED worker
      BY <1>1, <1>2, <2>2 DEF NewSniffer
    <2> QED BY <1>2, <2>1, <2>2 DEF NewSniffer
  <1>3. ASSUME NEW w \in Worker, publish(w) PROVE TokenBalance'
    <2>1. CASE NewRestClient(w)
      <3>1. CASE SetWorker(w, "publish", 0, {})
        <4>1. Count("wait")' = Count("wait")
          BY <2>1, <3>1, CountWait DEF NewRestClient
        <4> QED BY <1>0, <2>1, <4>1 DEF NewRestClient, TokenBalance
      <3>2. CASE UNCHANGED worker
        BY <1>1, <2>1, <3>2 DEF NewRestClient
      <3> QED BY <2>1, <3>1, <3>2 DEF NewRestClient
    <2>2. CASE Take(w)
      <3>1. Count("wait")' = Count("wait")
        BY <2>2, CountWait DEF Take
      <3> QED BY <1>0, <2>2, <3>1 DEF Take, TokenBalance
    <2>3. CASE Store(w)
      <3>1. Count("wait")' = Count("wait")
        <4>1. worker[w].pc = "store" /\ \E left : SetWorker(w, "store", worker[w].table, left)
          BY <2>3 DEF Store
        <4> QED BY <4>1, CountWait
      <3> QED BY <1>0, <2>3, <3>1 DEF Store, TokenBalance
    <2>4. CASE PublishDone(w)
      <3>1. Count("wait")' = Count("wait") + 1
        BY <2>4, CountWait DEF PublishDone
      <3> QED BY <1>0, <2>4, <3>1 DEF PublishDone, TokenBalance
    <2>5. CASE Again(w)
      <3>1. Count("wait")' = Count("wait") - 1
        BY <2>5, CountWait DEF Again
      <3> QED BY <1>0, <2>5, <3>1 DEF Again, TokenBalance
    <2> QED BY <1>3, <2>1, <2>2, <2>3, <2>4, <2>5 DEF publish
  <1>4. CASE HandlerSend
    <2>1. CASE UNCHANGED <<worker, quits>>
      BY <1>1, <1>4, <2>1 DEF HandlerSend
    <2>2. CASE /\ \E w \in Worker : worker[w].pc = "publish" /\ SetWorker(w, "wait", 0, {})
               /\ quits' = quits + 1
      <3>1. Count("wait")' = Count("wait") + 1
        BY <2>2, CountWait
      <3> QED BY <1>0, <1>4, <2>2, <3>1 DEF HandlerSend, TokenBalance
    <2> QED BY <1>4, <2>1, <2>2 DEF HandlerSend, ReceiveQuit
  <1>5. ASSUME startCapture PROVE UNCHANGED <<worker, publishReady, quits>>
    BY <1>5 DEF startCapture, Capture, CaptureEnds, SendTable, SelectTable, Forward
  <1>6. ASSUME \/ MakeChannel \/ SourceEnds \/ HandlerReceive \/ Signal \/ HandlerLock \/ HandlerExit
               \/ UNCHANGED vars
        PROVE  UNCHANGED <<worker, publishReady, quits>>
    BY <1>6 DEF MakeChannel, SourceEnds, HandlerReceive, Signal, HandlerLock, HandlerExit, vars
  <1> QED BY <1>1, <1>2, <1>3, <1>4, <1>5, <1>6 DEF Next, signalHandler

-----------------------------------------------------------------------------
(* What the publishers have before them                                    *)

LEMMA HandsNext ==
    ASSUME Shape, Hands, [Next]_vars PROVE Hands'
  <1> USE DEF channels, ghosts
  <1>1. CASE UNCHANGED worker
    BY <1>1 DEF Hands
  <1>2. ASSUME NEW w \in Worker, NEW pc, NEW table, NEW left,
               SetWorker(w, pc, table, left), pc = "store" \/ left = {}
        PROVE  Hands'
    BY <1>2 DEF Shape, SetWorker, Hands
  <1>3. CASE NewSniffer
    BY <1>3 DEF NewSniffer, Hands
  <1>4. ASSUME NEW w \in Worker, publish(w) PROVE Hands'
    <2>1. CASE Store(w)
      <3>1. \E left : SetWorker(w, "store", worker[w].table, left)
        BY <2>1 DEF Store
      <3> QED BY <1>2, <3>1
    <2>2. CASE Take(w)
      BY <1>2, <2>2 DEF Take
    <2>3. CASE NewRestClient(w)
      BY <1>1, <1>2, <2>3 DEF NewRestClient
    <2>4. CASE PublishDone(w) \/ Again(w)
      BY <1>2, <2>4 DEF PublishDone, Again
    <2> QED BY <1>4, <2>1, <2>2, <2>3, <2>4 DEF publish
  <1>5. CASE HandlerSend
    BY <1>1, <1>2, <1>5 DEF HandlerSend, ReceiveQuit
  <1>6. ASSUME \/ startCapture \/ MakeChannel \/ SourceEnds \/ HandlerReceive \/ Signal \/ HandlerLock
               \/ HandlerExit \/ UNCHANGED vars
        PROVE  UNCHANGED worker
    BY <1>6 DEF startCapture, Capture, CaptureEnds, SendTable, SelectTable, Forward,
                MakeChannel, SourceEnds, HandlerReceive, Signal, HandlerLock, HandlerExit, vars
  <1> QED BY <1>1, <1>3, <1>4, <1>5, <1>6 DEF Next, signalHandler

(* Every table that was taken has a number that was given out.             *)
LEMMA TakenIsMade ==
    ASSUME Shape, TablesInOrder
    PROVE  \A i \in DOMAIN taken : taken[i] \in DOMAIN made
  <1>1. /\ captureReady \in Seq(Table) /\ taken \in Seq(Table) /\ buffer \in Seq(Table)
        /\ InProgress \in Seq(Table)
    <2>1. capture.hand \in 0 .. MaxTables
      BY DEF Shape, CaptureType
    <2>2. capture.hand # 0 => capture.hand \in Table
      BY <2>1, SnifferAssumption DEF Table
    <2> QED BY <2>2 DEF Shape, InProgress
  <1>2. ASSUME NEW s \in Seq(Table), NEW t \in Seq(Table)
        PROVE  /\ s \o t \in Seq(Table) /\ DOMAIN s \subseteq DOMAIN (s \o t)
               /\ \A i \in DOMAIN s : (s \o t)[i] = s[i]
    <2>1. /\ s \o t \in Seq(Table) /\ Len(s \o t) = Len(s) + Len(t)
          /\ \A i \in 1 .. Len(s) + Len(t) :
                (s \o t)[i] = IF i <= Len(s) THEN s[i] ELSE t[i - Len(s)]
      BY ConcatProperties
    <2>2. /\ Len(s) \in Nat /\ Len(t) \in Nat /\ DOMAIN s = 1 .. Len(s)
          /\ DOMAIN (s \o t) = 1 .. Len(s) + Len(t)
      BY <2>1, LenProperties
    <2> QED BY <2>1, <2>2
  <1> DEFINE a == taken \o captureReady
             b == a \o InProgress
             all == b \o buffer
  <1>3. a \in Seq(Table) /\ DOMAIN taken \subseteq DOMAIN a /\ \A i \in DOMAIN taken : a[i] = taken[i]
    BY <1>1, <1>2
  <1> HIDE DEF a
  <1>4. b \in Seq(Table) /\ DOMAIN a \subseteq DOMAIN b /\ \A i \in DOMAIN a : b[i] = a[i]
    BY <1>1, <1>2, <1>3
  <1> HIDE DEF b
  <1>5. DOMAIN b \subseteq DOMAIN all /\ \A i \in DOMAIN b : all[i] = b[i]
    BY <1>1, <1>2, <1>4
  <1>6. all = [i \in DOMAIN made |-> i]
    BY DEF TablesInOrder, a, b
  <1> HIDE DEF all
  <1>7. ASSUME NEW i \in DOMAIN taken PROVE taken[i] \in DOMAIN made
    <2>1. i \in DOMAIN all /\ all[i] = taken[i]
      BY <1>3, <1>4, <1>5
    <2> QED BY <1>6, <2>1
  <1> QED BY <1>7

(* Flows stay before the publishers when one with none of them moves on.   *)
LEMMA FlowsKept ==
    ASSUME Shape, NEW w \in Worker, NEW pc, NEW table, NEW left,
           SetWorker(w, pc, table, left), worker[w].left = {}
    PROVE  \A n : FlowsLeft(n) \subseteq FlowsLeft(n)' /\ left \subseteq FlowsLeft(table)'
  <1>1. /\ worker'[w].table = table /\ worker'[w].left = left
        /\ \A v \in Worker \ {w} : worker'[v] = worker[v]
    BY DEF Shape, SetWorker
  <1>2. ASSUME NEW n, NEW h \in FlowsLeft(n) PROVE h \in FlowsLeft(n)'
    <2>1. PICK v \in Worker : worker[v].table = n /\ h \in worker[v].left
      BY <1>2 DEF FlowsLeft
    <2>2. worker'[v] = worker[v]
      BY <1>1, <2>1
    <2> QED BY <2>1, <2>2 DEF FlowsLeft
  <1>3. left \subseteq FlowsLeft(table)'
    BY <1>1 DEF FlowsLeft
  <1> QED BY <1>2, <1>3

LEMMA DroppedNext ==
    ASSUME Shape, Starting, Hands, TablesInOrder, NoFlowDropped, [Next]_vars
    PROVE  NoFlowDropped'
  <1> USE DEF channels, ghosts
  <1>0. /\ made \in Seq(SUBSET Hash) /\ taken \in Seq(Table) /\ captureReady \in Seq(Table)
        /\ \A i \in DOMAIN taken : taken[i] \in DOMAIN made
    BY TakenIsMade DEF Shape
  <1>1. ASSUME UNCHANGED <<made, taken, stored, failed>>, \A n : FlowsLeft(n) \subseteq FlowsLeft(n)'
        PROVE  NoFlowDropped'
    BY <1>1 DEF NoFlowDropped
  <1>2. CASE UNCHANGED <<worker, made, taken, stored, failed>>
    BY <1>1, <1>2 DEF FlowsLeft
  <1>3. CASE SendTable
    <2>1. /\ made' = Append(made, Keys(capture.table)) /\ UNCHANGED <<worker, taken, stored, failed>>
          /\ Keys(capture.table) \in SUBSET Hash
      BY <1>3 DEF SendTable, Keys
    <2>2. \A n \in DOMAIN made : made'[n] = made[n]
      BY <1>0, <2>1, AppendProperties, LenProperties
    <2>3. \A n : FlowsLeft(n)' = FlowsLeft(n)
      BY <2>1 DEF FlowsLeft
    <2> QED BY <1>0, <2>1, <2>2, <2>3 DEF NoFlowDropped
  <1>4. CASE NewSniffer
    <2>1. \A w \in Worker : worker[w].left = {}
      BY <1>4 DEF NewSniffer, Starting, Hands
    <2>2. \A n : FlowsLeft(n) = {}
      BY <2>1 DEF FlowsLeft
    <2> QED BY <1>1, <1>4, <2>2 DEF NewSniffer
  <1>5. ASSUME NEW w \in Worker, Take(w) PROVE NoFlowDropped'
    <2>0. PICK n \in Table : n = Head(captureReady) /\ n \in DOMAIN made
      BY <1>5, ReadyIsMade DEF Take
    <2>1. /\ taken' = Append(taken, n) /\ SetWorker(w, "store", n, made[n])
          /\ UNCHANGED <<made, stored, failed>> /\ worker[w].left = {}
      BY <1>5, <2>0 DEF Take, Hands
    <2>2. (\A m : FlowsLeft(m) \subseteq FlowsLeft(m)') /\ made[n] \subseteq FlowsLeft(n)'
      BY <2>1, FlowsKept
    <2>3. ASSUME NEW i \in DOMAIN taken' PROVE taken'[i] = n \/ (i \in DOMAIN taken /\ taken'[i] = taken[i])
      <3>1. /\ taken' \in Seq(Table) /\ Len(taken') = Len(taken) + 1 /\ taken'[Len(taken) + 1] = n
            /\ \A k \in 1 .. Len(taken) : taken'[k] = taken[k]
        BY <1>0, <2>1, AppendProperties
      <3>2. Len(taken) \in Nat /\ DOMAIN taken = 1 .. Len(taken) /\ DOMAIN taken' = 1 .. Len(taken) + 1
        BY <1>0, <3>1, LenProperties
      <3> QED BY <3>1, <3>2
    <2>4. ASSUME NEW i \in DOMAIN taken', NEW m, m = taken'[i]
          PROVE  \/ m \in failed
                 \/ \A h \in made[m] : <<m, h>> \in stored \/ h \in FlowsLeft(m)'
      <3>1. CASE m = n
        BY <2>2, <3>1
      <3>2. CASE i \in DOMAIN taken /\ m = taken[i]
        BY <2>2, <3>2 DEF NoFlowDropped
      <3> QED BY <2>3, <2>4, <3>1, <3>2
    <2> QED BY <2>1, <2>4 DEF NoFlowDropped
  <1>6. ASSUME NEW w \in Worker, Store(w) PROVE NoFlowDropped'
    <2> DEFINE n == worker[w].table
    <2>1. PICK k \in worker[w].left, ok \in BOOLEAN :
            /\ SetWorker(w, "store", n, LeftAfter(worker[w].left, k, ok))
            /\ stored' = IF ok THEN stored \cup {<<n, k>>} ELSE stored
            /\ failed' = IF ok THEN failed ELSE failed \cup {n}
      BY <1>6 DEF Store
    <2>2. UNCHANGED <<made, taken>>
      BY <1>6 DEF Store
    <2>3. /\ worker'[w].table = n /\ worker'[w].left = LeftAfter(worker[w].left, k, ok)
          /\ \A v \in Worker \ {w} : worker'[v] = worker[v]
      BY <2>1 DEF Shape, SetWorker
    <2>4. ASSUME NEW m, NEW h \in FlowsLeft(m), m \notin failed'
          PROVE  h \in FlowsLeft(m)' \/ <<m, h>> \in stored'
      <3>1. PICK v \in Worker : worker[v].table = m /\ h \in worker[v].left
        BY <2>4 DEF FlowsLeft
      <3>2. CASE v # w
        BY <2>3, <3>1, <3>2 DEF FlowsLeft
      <3>3. CASE v = w
        <4>1. ok /\ m = n
          BY <2>1, <2>4, <3>1, <3>3
        <4>2. h = k \/ h \in worker'[w].left
          BY <2>3, <3>1, <3>3, <4>1 DEF LeftAfter
        <4>3. h \in worker'[w].left => h \in FlowsLeft(m)'
          BY <2>3, <4>1 DEF FlowsLeft
        <4> QED BY <2>1, <4>1, <4>2, <4>3
      <3> QED BY <3>2, <3>3
    <2>5. stored \subseteq stored' /\ failed \subseteq failed'
      BY <2>1
    <2> QED BY <2>2, <2>4, <2>5 DEF NoFlowDropped
  <1>7. ASSUME NEW w \in Worker, NewRestClient(w) \/ PublishDone(w) \/ Again(w) PROVE NoFlowDropped'
    <2>1. /\ UNCHANGED <<made, taken, stored, failed>> /\ worker[w].left = {}
          /\ UNCHANGED worker \/ SetWorker(w, "publish", 0, {}) \/ SetWorker(w, "wait", 0, {})
      BY <1>7 DEF NewRestClient, PublishDone, Again, Hands
    <2>2. CASE UNCHANGED worker
      BY <1>2, <2>1, <2>2
    <2>3. CASE SetWorker(w, "publish", 0, {}) \/ SetWorker(w, "wait", 0, {})
      BY <1>1, <2>1, <2>3, FlowsKept
    <2> QED BY <2>1, <2>2, <2>3
  <1>8. CASE HandlerSend
    <2>1. CASE UNCHANGED worker
      BY <1>2, <1>8, <2>1 DEF HandlerSend
    <2>2. CASE \E w \in Worker : worker[w].pc = "publish" /\ SetWorker(w, "wait", 0, {})
      <3>1. \A n : FlowsLeft(n) \subseteq FlowsLeft(n)'
        BY <2>2, FlowsKept DEF Hands
      <3> QED BY <1>1, <1>8, <3>1 DEF HandlerSend
    <2> QED BY <1>8, <2>1, <2>2 DEF HandlerSend, ReceiveQuit
  <1>9. ASSUME \/ Capture \/ CaptureEnds \/ SelectTable \/ Forward \/ MakeChannel
               \/ SourceEnds \/ HandlerReceive \/ Signal \/ HandlerLock \/ HandlerExit \/ UNCHANGED vars
        PROVE  UNCHANGED <<worker, made, taken, stored, failed>>
    BY <1>9 DEF Capture, CaptureEnds, SelectTable, Forward, MakeChannel, SourceEnds, Signal,
                HandlerReceive, HandlerLock, HandlerExit, vars
  <1> QED
    BY <1>2, <1>3, <1>4, <1>5, <1>6, <1>7, <1>8, <1>9
       DEF Next, startCapture, publish, signalHandler

-----------------------------------------------------------------------------
(* The end                                                                 *)

LEMMA HandlingNext ==
    ASSUME Shape, Handling, [Next]_vars PROVE Handling'
  <1> USE DEF channels, ghosts
  <1>1. CASE UNCHANGED vars
    BY <1>1 DEF vars, Handling, Running
  <1>2. CASE Next
    <2>0. Running /\ main # "end"
      BY <1>2 DEF Next, Handling
    <2>1. ASSUME UNCHANGED <<main, handler, locked>> PROVE Handling'
      BY <2>0, <2>1 DEF Handling
    <2>2. CASE MakeChannel
      BY <2>0, <2>2 DEF MakeChannel, Handling
    <2>3. CASE NewSniffer
      BY <2>3 DEF NewSniffer, Exit, Running, Handling
    <2>4. CASE HandlerReceive \/ Signal
      BY <2>0, <2>4 DEF HandlerReceive, Signal, Handling
    <2>5. CASE HandlerLock
      BY <2>0, <2>5 DEF HandlerLock, Handling
    <2>6. CASE HandlerSend
      BY <2>0, <2>6 DEF HandlerSend, ReceiveQuit, Handling
    <2>7. ASSUME startCapture \/ SourceEnds \/ HandlerExit \/ \E w \in Worker : publish(w)
          PROVE  UNCHANGED <<main, handler, locked>>
      BY <2>7 DEF startCapture, Capture, CaptureEnds, SendTable, SelectTable, Forward, SourceEnds,
                  HandlerExit, publish, NewRestClient, Take, Store, PublishDone, Again
    <2> QED BY <1>2, <2>1, <2>2, <2>3, <2>4, <2>5, <2>6, <2>7 DEF Next, signalHandler
  <1> QED BY <1>1, <1>2

-----------------------------------------------------------------------------
(* The theorems                                                            *)

LEMMA SnifferAlways == Spec => []SnifferInv
  <1>1. ASSUME SnifferInv, [Next]_vars PROVE SnifferInv'
    <2>1. Shape'
      BY <1>1, ShapeCapture, ShapePublish, ShapeOthers DEF SnifferInv, Next
    <2>2. Loop' /\ Starting' /\ TablesInOrder' /\ TokenBalance'
      BY <1>1, LoopNext, StartingNext, OrderNext, TokensNext DEF SnifferInv
    <2>3. Hands' /\ Handling' /\ TableIsFaithful' /\ NoFlowDropped'
      BY <1>1, HandsNext, HandlingNext, FaithfulNext, DroppedNext DEF SnifferInv
    <2> QED BY <2>1, <2>2, <2>3 DEF SnifferInv
  <1>2. SnifferInv /\ [Next]_vars => SnifferInv'
    BY <1>1
  <1>3. Init => SnifferInv
    BY InitSniffer
  <1> QED BY <1>2, <1>3, PTL DEF Spec

(* Every variable keeps its type; above all, a table never grows past      *)
(* numPktBuffer + 1 packets, and publishReady, a channel of as many places *)
(* as there are publishers, never blocks the publisher that sends to it.   *)
THEOREM SnifferTypeCorrect == Spec => []TypeOK
  <1>1. ASSUME SnifferInv PROVE TypeOK
    <2>1. Shape /\ Loop /\ TokenBalance
      BY <1>1 DEF SnifferInv
    <2>2. publishReady \in 0 .. Cardinality(Worker)
      <3>1. Waiting \in SUBSET Worker /\ IsFiniteSet(Worker) /\ Count("wait") = Cardinality(Waiting)
        BY SnifferAssumption DEF Waiting, Count
      <3>2. /\ Cardinality(Waiting) <= Cardinality(Worker)
            /\ Cardinality(Worker) \in Nat /\ Cardinality(Waiting) \in Nat
        BY <3>1, FS_Subset, FS_CardinalityType
      <3>3. publishReady \in Nat /\ quits \in Nat /\ Cardinality(Waiting) = publishReady + quits
        BY <2>1, <3>1 DEF Shape, TokenBalance
      <3> QED BY <3>2, <3>3
    <2>3. /\ capture.pc \in {"off", "read", "send", "select", "forward"}
          /\ capture.numPkt \in 0 .. NumPktBuffer
          /\ capture.table \in [Hash -> Seq(Flow)] /\ capture.hand \in 0 .. MaxTables
      BY <2>1 DEF Shape, CaptureType
    <2>4. \A h \in Hash : capture.table[h] \in Seq(Flow)
      BY <2>3
    <2> QED BY <2>1, <2>2, <2>3, <2>4 DEF Shape, Loop, TypeOK, WorkerType
  <1> QED BY <1>1, SnifferAlways, PTL

(* No table is lost, taken twice or overtaken on its way through the two   *)
(* channels, whoever receives the quit token, for any number of publishers *)
(* and any capacity of captureReady.                                       *)
THEOREM TablesAlwaysInOrder == Spec => []TablesInOrder
  <1>1. SnifferInv => TablesInOrder
    BY DEF SnifferInv
  <1> QED BY <1>1, SnifferAlways, PTL

(* However publishers take each other's tokens, as many wait as there are  *)
(* tokens, and one more for each quit token that a publisher received.     *)
THEOREM TokensAlwaysBalance == Spec => []TokenBalance
  <1>1. SnifferInv => TokenBalance
    BY DEF SnifferInv
  <1> QED BY <1>1, SnifferAlways, PTL

(* The table of a capture lists the flows of exactly the packets it was    *)
(* given, each once and in the order they were first seen, for any packets *)
(* and any size of a table, through every branch of the capture loop.      *)
THEOREM TablesAlwaysFaithful == Spec => []TableIsFaithful
  <1>1. SnifferInv => TableIsFaithful
    BY DEF SnifferInv
  <1> QED BY <1>1, SnifferAlways, PTL

(* A flow of a table that was taken is stored, or still before its         *)
(* publisher, or a Store of its table failed: no number of publishers that *)
(* take each other's tokens, or a quit token, drops one.                   *)
THEOREM FlowsNeverDropped == Spec => []NoFlowDropped
  <1>1. SnifferInv => NoFlowDropped
    BY DEF SnifferInv
  <1> QED BY <1>1, SnifferAlways, PTL

(* The signal handler never waits for a lock that is kept, and never sends *)
(* its token when RunE has no receive ahead of it.                         *)
THEOREM SignalsAlwaysHeard == Spec => []SignalIsHeard
  <1>1. ASSUME SnifferInv PROVE SignalIsHeard
    <2>1. /\ main \in {"config", "open", "start", "run", "end"}
          /\ Handling
      BY <1>1 DEF SnifferInv, Shape
    <2> QED BY <2>1 DEF SignalIsHeard, Handling
  <1> QED BY <1>1, SnifferAlways, PTL
==============================================================================
