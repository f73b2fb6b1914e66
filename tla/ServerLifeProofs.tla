-------------------------- MODULE ServerLifeProofs --------------------------
(***************************************************************************)
(* For any set of peers and any number of signals and calls: Serve returns *)
(* last, and a server that runs is connected to every peer unless calls    *)
(* that connect and disconnect overlapped.                                 *)
(***************************************************************************)
EXTENDS ServerLife, TLAPS

-----------------------------------------------------------------------------
(* The inductive invariant                                                 *)

(* Types TypeOK leaves out, and the order of Serve: nothing of what it     *)
(* starts is there before the gRPC server.                                 *)
Order ==
    /\ signals \in Nat /\ calls \in Nat
    /\ starter = "none" =>
          /\ serve \in {"enter", "listen", "locking", "returned"}
          /\ restWait = "none" /\ listen = "off" /\ grpcStop = "none"
    /\ serve \in {"enter", "listen", "locking"} => starter = "none"

(* Who holds s.lock over several steps.                                    *)
Locks == lock = "shutdown" <=> handler = "port"

(* What is over once Shutdown has closed the channel main waits for.       *)
Closing ==
    /\ quit = "closed" => handler \in {"listener", "returned"}
    /\ serve = "wait" => quit = "closed"
    /\ serve = "returned" /\ starter # "none" =>
          starter = "done" /\ rpcThread = "done" /\ quit = "closed"

(* While nothing overlapped: a server that disconnects is shut down and    *)
(* connects nowhere, and whoever connects has yet to dial the peers that   *)
(* are missing.                                                            *)
Mesh ==
    ~overlapped =>
        /\ Disconnecting => ~Connecting /\ serverState = "Shutdown"
        /\ serverState = "Running" \/ starter = "run" =>
              \A p \in Peer : p \in peerClient \/ dial[p] \in {"check", "dialing"}
        /\ reconnect # Idle => \A p \in Peer : p \in peerClient \/ p \in reconnect

LifeInv == TypeOK /\ Order /\ Locks /\ Closing /\ Mesh

-----------------------------------------------------------------------------
(* Types and the order of Serve                                            *)

LEMMA NextOrder == ASSUME TypeOK, Order, [Next]_vars PROVE TypeOK' /\ Order'
  <1> USE LifeAssumption DEF TypeOK, Order, Alive, connVars, serveVars, restVars, stopVars, envVars
  <1>1. CASE Serve
    <2>1. CASE ServeEnter \/ createListener \/ StartRest
      BY <2>1 DEF ServeEnter, createListener, StartRest
    <2>2. CASE NewRpc
      BY <2>2 DEF NewRpc
    <2>3. CASE ServeQuit \/ ServeReturn \/ MainReturn
      BY <2>3 DEF ServeQuit, ServeReturn, MainReturn
    <2> QED BY <1>1, <2>1, <2>2, <2>3 DEF Serve
  <1>2. CASE Starter
    BY <1>2 DEF Starter, StarterDial, StarterRun
  <1>3. CASE Rpc
    BY <1>3 DEF Rpc, RpcServe, RpcDone
  <1>4. CASE Rest \/ RestListen
    BY <1>4 DEF Rest, RestServe, RestReady, RestNotify, WaitShutdown, RestListen
  <1>5. CASE Shutdown
    <2>1. CASE HandlerReceive \/ ShutdownBegin \/ ShutdownPort \/ ShutdownRaft
      BY <2>1 DEF HandlerReceive, ShutdownBegin, ShutdownPort, ShutdownRaft
    <2>2. CASE ShutdownPeers \/ ShutdownRpc
      BY <2>2 DEF ShutdownPeers, ShutdownRpc
    <2>3. CASE ShutdownQuit \/ ShutdownEnd \/ HandlerExit
      BY <2>3 DEF ShutdownQuit, ShutdownEnd, HandlerExit
    <2> QED BY <1>5, <2>1, <2>2, <2>3 DEF Shutdown
  <1>6. CASE ShutdownGrpc
    BY <1>6 DEF ShutdownGrpc, GrpcBegin, GrpcPeers, GrpcStop
  <1>7. ASSUME NEW p \in Peer, DialCheck(p) \/ DialPeer(p) PROVE TypeOK' /\ Order'
    BY <1>7 DEF DialCheck, DialPeer
  <1>8. CASE Signal
    BY <1>8 DEF Signal
  <1>9. CASE MapRace \/ Disconnect \/ Start
    <2>1. CASE MapRace
      BY <2>1 DEF MapRace
    <2>2. CASE Disconnect
      BY <2>2 DEF Disconnect
    <2>3. CASE Start
      BY <2>3 DEF Start
    <2> QED BY <1>9, <2>1, <2>2, <2>3
  <1>10. CASE Reconnect
    BY <1>10 DEF Reconnect, ReconnectBegin, ReconnectEnd, ReconnectDial, Idle
  <1>11. CASE UNCHANGED vars
    BY <1>11 DEF vars
  <1> QED BY <1>1, <1>2, <1>3, <1>4, <1>5, <1>6, <1>7, <1>8, <1>9, <1>10, <1>11 DEF Next

-----------------------------------------------------------------------------
(* The end of Serve                                                        *)

LEMMA NextClosing ==
    ASSUME TypeOK, Order, Locks, Closing, [Next]_vars PROVE Locks' /\ Closing'
  <1> USE DEF Order, Locks, Closing, Alive, connVars, serveVars, restVars, stopVars, envVars
  <1>1. CASE Serve
    BY <1>1 DEF Serve, ServeEnter, createListener, NewRpc, StartRest, ServeQuit, ServeReturn,
                MainReturn
  <1>2. CASE Starter
    BY <1>2 DEF Starter, StarterDial, StarterRun
  <1>3. CASE Rpc
    BY <1>3 DEF Rpc, RpcServe, RpcDone
  <1>4. CASE Rest \/ RestListen
    BY <1>4 DEF Rest, RestServe, RestReady, RestNotify, WaitShutdown, RestListen
  <1>5. CASE Shutdown
    BY <1>5 DEF Shutdown, HandlerReceive, ShutdownBegin, ShutdownPort, ShutdownRaft,
                ShutdownPeers, ShutdownRpc, ShutdownQuit, ShutdownEnd, HandlerExit
  <1>6. CASE ShutdownGrpc
    BY <1>6 DEF ShutdownGrpc, GrpcBegin, GrpcPeers, GrpcStop
  <1>7. CASE Signal \/ MapRace \/ Disconnect \/ \E p \in Peer : DialCheck(p) \/ DialPeer(p)
    BY <1>7 DEF Signal, MapRace, Disconnect, DialCheck, DialPeer
  <1>8. CASE Start
    BY <1>8 DEF Start
  <1>9. CASE Reconnect
    BY <1>9 DEF Reconnect, ReconnectBegin, ReconnectEnd, ReconnectDial
  <1>10. CASE UNCHANGED vars
    BY <1>10 DEF vars
  <1> QED BY <1>1, <1>2, <1>3, <1>4, <1>5, <1>6, <1>7, <1>8, <1>9, <1>10 DEF Next

-----------------------------------------------------------------------------
(* Connections                                                             *)

(* The ghost never forgets, and remembers every overlap.                   *)
LEMMA NotOverlapped ==
    ASSUME ~overlapped'
    PROVE  /\ UNCHANGED overlapped => ~overlapped
           /\ NewRpc \/ ReconnectBegin => ~overlapped /\ ~Disconnecting
           /\ Disconnect => ~overlapped /\ ~Connecting
           /\ (ShutdownBegin \/ GrpcBegin) /\ serverState # "Shutdown" =>
                 ~overlapped /\ ~Connecting
           /\ (ShutdownBegin \/ GrpcBegin) /\ serverState = "Shutdown" => ~overlapped
  <1>1. overlapped' = overlapped => ~overlapped
    OBVIOUS
  <1>2. overlapped' = (overlapped \/ Disconnecting) => ~overlapped /\ ~Disconnecting
    BY Zenon
  <1>3. overlapped' = (overlapped \/ Connecting) => ~overlapped /\ ~Connecting
    BY Zenon
  <1>4. NewRpc \/ ReconnectBegin => overlapped' = (overlapped \/ Disconnecting)
    BY Zenon DEF NewRpc, ReconnectBegin
  <1>5. Disconnect => overlapped' = (overlapped \/ Connecting)
    BY Zenon DEF Disconnect
  <1>6. ShutdownBegin /\ serverState # "Shutdown" => overlapped' = (overlapped \/ Connecting)
    BY Zenon DEF ShutdownBegin
  <1>7. GrpcBegin /\ serverState # "Shutdown" => overlapped' = (overlapped \/ Connecting)
    BY Zenon DEF GrpcBegin
  <1>8. (ShutdownBegin \/ GrpcBegin) /\ serverState = "Shutdown" => overlapped' = overlapped
    BY DEF ShutdownBegin, GrpcBegin
  <1> QED BY <1>1, <1>2, <1>3, <1>4, <1>5, <1>6, <1>7, <1>8

LEMMA NextMesh == ASSUME TypeOK, Mesh, [Next]_vars PROVE Mesh'
  <1> SUFFICES ASSUME ~overlapped' PROVE Mesh'
    BY DEF Mesh
  <1> USE LifeAssumption, NotOverlapped
      DEF Mesh, Connecting, Disconnecting, Alive, connVars, serveVars, restVars, stopVars, envVars
  <1>1. CASE Serve
    <2>1. CASE NewRpc
      BY <2>1 DEF NewRpc, TypeOK
    <2>2. CASE Serve /\ ~NewRpc
      BY <2>2 DEF Serve, ServeEnter, createListener, StartRest, ServeQuit, ServeReturn,
                  MainReturn
    <2> QED BY <1>1, <2>1, <2>2
  <1>2. CASE Starter
    <2>1. CASE StarterDial
      BY <2>1 DEF StarterDial
    <2>2. CASE StarterRun
      BY <2>2 DEF StarterRun
    <2> QED BY <1>2, <2>1, <2>2 DEF Starter
  <1>3. CASE Rpc
    BY <1>3 DEF Rpc, RpcServe, RpcDone
  <1>4. CASE Rest \/ RestListen
    BY <1>4 DEF Rest, RestServe, RestReady, RestNotify, WaitShutdown, RestListen
  <1>5. CASE Shutdown
    <2>1. CASE ShutdownBegin
      BY <2>1 DEF ShutdownBegin
    <2>2. CASE ShutdownPeers
      BY <2>2 DEF ShutdownPeers
    <2>3. CASE Shutdown /\ ~ShutdownBegin /\ ~ShutdownPeers
      BY <2>3 DEF Shutdown, HandlerReceive, ShutdownPort, ShutdownRaft, ShutdownRpc,
                  ShutdownQuit, ShutdownEnd, HandlerExit
    <2> QED BY <1>5, <2>1, <2>2, <2>3
  <1>6. CASE ShutdownGrpc
    <2>1. CASE GrpcBegin
      BY <2>1 DEF GrpcBegin
    <2>2. CASE GrpcPeers \/ GrpcStop
      BY <2>2 DEF GrpcPeers, GrpcStop
    <2> QED BY <1>6, <2>1, <2>2 DEF ShutdownGrpc
  <1>7. ASSUME NEW p \in Peer, DialCheck(p) \/ DialPeer(p) PROVE Mesh'
    BY <1>7 DEF DialCheck, DialPeer, TypeOK
  <1>8. CASE Signal \/ MapRace
    BY <1>8 DEF Signal, MapRace
  <1>9. CASE Disconnect
    BY <1>9 DEF Disconnect
  <1>10. CASE Start
    BY <1>10 DEF Start
  <1>11. CASE Reconnect
    <2>1. CASE ReconnectBegin
      BY <2>1 DEF ReconnectBegin
    <2>2. CASE ReconnectEnd
      BY <2>2 DEF ReconnectEnd, Idle
    <2>3. ASSUME NEW p \in Peer, ReconnectDial(p) PROVE Mesh'
      <3>1. reconnect # Idle
        BY <2>3 DEF ReconnectDial, Idle
      <3> QED BY <2>3, <3>1 DEF ReconnectDial
    <2> QED BY <1>11, <2>1, <2>2, <2>3 DEF Reconnect
  <1>12. CASE UNCHANGED vars
    BY <1>12 DEF vars
  <1> QED BY <1>1, <1>2, <1>3, <1>4, <1>5, <1>6, <1>7, <1>8, <1>9, <1>10, <1>11, <1>12 DEF Next

-----------------------------------------------------------------------------
LEMMA InitLife == ASSUME Init PROVE LifeInv
  <1>1. TypeOK /\ Order /\ Locks /\ Closing
    BY LifeAssumption DEF Init, TypeOK, Order, Locks, Closing
  <1>2. Mesh
    BY DEF Init, Mesh, Disconnecting
  <1> QED BY <1>1, <1>2 DEF LifeInv

LEMMA LifeAlways == Spec => []LifeInv
  <1>1. LifeInv /\ [Next]_vars => LifeInv'
    BY NextOrder, NextClosing, NextMesh DEF LifeInv
  <1> QED BY <1>1, InitLife, PTL DEF Spec

(* Every variable keeps its type, and no goroutine of Serve is there       *)
(* before the gRPC server it uses.                                         *)
THEOREM LifeTypeCorrect == Spec => []TypeOK
  <1>1. LifeInv => TypeOK
    BY DEF LifeInv
  <1> QED BY <1>1, LifeAlways, PTL

(* When Serve returns after it has served, rpc.Serve has returned and      *)
(* Shutdown has only the listener left to close.                           *)
THEOREM ServeAlwaysReturnsLast == Spec => []ServeReturnsLast
  <1>1. LifeInv => ServeReturnsLast
    BY DEF LifeInv, Closing, ServeReturnsLast
  <1> QED BY <1>1, LifeAlways, PTL

(* A server that runs is connected to every peer it does not dial still,   *)
(* unless calls that connect and disconnect overlapped.                    *)
THEOREM MeshAlwaysWhole == Spec => []MeshIsWhole
  <1>1. LifeInv => MeshIsWhole
    BY DEF LifeInv, Mesh, TypeOK, MeshIsWhole
  <1> QED BY <1>1, LifeAlways, PTL
=============================================================================
