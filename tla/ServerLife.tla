----------------------------- MODULE ServerLife -----------------------------
(***************************************************************************)
(* The life of one process: main of pkg/main/main.go, and Serve, Shutdown, *)
(* ShutdownGrpc, Disconnect, Reconnect and Start of                        *)
(* pkg/server/main_server.go with the goroutines they start, and the REST  *)
(* server's own start and stop.                                            *)
(*                                                                         *)
(* s.lock is held over several steps by Shutdown, and for good by Start;   *)
(* every other critical section is one step, enabled while it is free.     *)
(***************************************************************************)
EXTENDS Naturals

CONSTANTS
    Peer,         \* the other members
    MaxSignals,   \* bound: SIGINT and SIGTERM
    MaxCalls      \* bound: calls of Disconnect, Reconnect and Start

ASSUME LifeAssumption ==
    /\ MaxSignals \in Nat /\ MaxCalls \in Nat
    /\ "idle" \notin Peer   \* a name kept for reconnect

VARIABLES
    serverState,   \* s.serverState
    lock,          \* who holds s.lock between steps
    peerClient,    \* the peers with an entry in s.peerClient
    quit,          \* s.quit; "replaced" when main waits for the one before
    serve,         \* main, in Serve
    starter,       \* the goroutine of Serve that opens connections
    dial,          \* per peer: its goroutine started by the starter
    rpc,           \* s.rpc
    rpcThread,     \* the goroutine in rpc.Serve
    listen,        \* the goroutine in ListenAndServe of the REST server
    restWait,      \* the goroutine in Restful.Serve and WaitShutdown
    handler,       \* main's signal goroutine, in Shutdown
    grpcStop,      \* a REST handler in ShutdownGrpc
    reconnect,     \* a caller in Reconnect: the peers it still dials
    signals, calls,
    overlapped,    \* ghost: something connected while something disconnected
    process        \* "alive", "exited" or the reason it died of

connVars  == <<peerClient, dial, reconnect, overlapped>>
serveVars == <<serve, starter, rpcThread, quit>>
restVars  == <<listen, restWait>>
stopVars  == <<lock, handler, grpcStop>>
envVars   == <<signals, calls>>
vars == <<serverState, rpc, process, connVars, serveVars, restVars, stopVars, envVars>>

-----------------------------------------------------------------------------
Idle == {"idle"}
Alive == process = "alive"

(* NewServer, and main up to the start of the signal goroutine.            *)
Init ==
    /\ serverState = "Init" /\ lock = "free" /\ peerClient = {}
    /\ quit = "open"
    /\ serve = "enter" /\ starter = "none"
    /\ dial = [p \in Peer |-> "none"]
    /\ rpc = "nil" /\ rpcThread = "none"
    /\ listen = "off" /\ restWait = "none"
    /\ handler = "new" /\ grpcStop = "none" /\ reconnect = Idle
    /\ signals = 0 /\ calls = 0 /\ overlapped = FALSE /\ process = "alive"

Connecting == starter \in {"dial", "run"} \/ reconnect # Idle
Disconnecting == handler \in {"port", "raft", "peers"} \/ grpcStop = "peers"

-----------------------------------------------------------------------------
(* Serve                                                                   *)

ServeEnter ==
    /\ Alive /\ serve = "enter"
    /\ serve' = IF serverState = "Init" THEN "listen" ELSE "returned"
    /\ UNCHANGED <<serverState, rpc, process, connVars, starter, rpcThread, quit,
                   restVars, stopVars, envVars>>

(* createListener looks at serverState before it takes the lock.           *)
createListener ==
    /\ Alive /\ serve = "listen"
    /\ IF serverState \in {"Shutdown", "Disconnected"}
       THEN process' = "no listener" /\ UNCHANGED serve
       ELSE serve' = "locking" /\ UNCHANGED process
    /\ UNCHANGED <<serverState, rpc, connVars, starter, rpcThread, quit, restVars,
                   stopVars, envVars>>

(* The rest of createListener; Serve then starts its first goroutine.      *)
NewRpc ==
    /\ Alive /\ serve = "locking" /\ lock = "free"
    /\ rpc' = "made"
    /\ serve' = "startRest" /\ starter' = "dial"
    /\ overlapped' = (overlapped \/ Disconnecting)
    /\ UNCHANGED <<serverState, process, peerClient, dial, reconnect, rpcThread,
                   quit, restVars, stopVars, envVars>>

(* One goroutine per peer, which is nobody's to wait for.                  *)
StarterDial ==
    /\ Alive /\ starter = "dial"
    /\ starter' = "run"
    /\ dial' = [p \in Peer |-> "check"]
    /\ UNCHANGED <<serverState, rpc, process, peerClient, reconnect, overlapped,
                   serve, rpcThread, quit, restVars, stopVars, envVars>>

(* A dialer looks for an old connection to close, without the lock.        *)
DialCheck(p) ==
    /\ Alive /\ dial[p] = "check"
    /\ dial' = [dial EXCEPT ![p] = "dialing"]
    /\ UNCHANGED <<serverState, rpc, process, peerClient, reconnect, overlapped,
                   serveVars, restVars, stopVars, envVars>>

(* grpc.Dial blocks until the peer is there.                               *)
DialPeer(p) ==
    /\ Alive /\ dial[p] = "dialing" /\ lock = "free"
    /\ dial' = [dial EXCEPT ![p] = "done"]
    /\ peerClient' = peerClient \cup {p}
    /\ UNCHANGED <<serverState, rpc, process, reconnect, overlapped, serveVars,
                   restVars, stopVars, envVars>>

(* Running, whatever the state was.                                        *)
StarterRun ==
    /\ Alive /\ starter = "run" /\ lock = "free"
    /\ serverState' = "Running"
    /\ starter' = "done" /\ rpcThread' = "serve"
    /\ UNCHANGED <<rpc, process, connVars, serve, quit, restVars, stopVars, envVars>>

(* rpc.Serve of a server that was stopped before fails, and that is fatal. *)
RpcServe ==
    /\ Alive /\ rpcThread = "serve"
    /\ \/ rpc = "made" /\ rpcThread' = "serving" /\ UNCHANGED process
       \/ rpc = "stopped" /\ process' = "failed serve" /\ UNCHANGED rpcThread
    /\ UNCHANGED <<serverState, rpc, connVars, serve, starter, quit, restVars,
                   stopVars, envVars>>

RpcDone ==
    /\ Alive /\ rpcThread = "serving" /\ rpc = "stopped" /\ lock = "free"
    /\ rpcThread' = "done"
    /\ UNCHANGED <<serverState, rpc, process, connVars, serve, starter, quit,
                   restVars, stopVars, envVars>>

StartRest ==
    /\ Alive /\ serve = "startRest"
    /\ serve' = "restReady" /\ restWait' = "serve"
    /\ UNCHANGED <<serverState, rpc, process, connVars, starter, rpcThread, quit,
                   listen, stopVars, envVars>>

ServeQuit ==
    /\ Alive /\ serve = "quit" /\ quit = "closed"
    /\ serve' = "wait"
    /\ UNCHANGED <<serverState, rpc, process, connVars, starter, rpcThread, quit,
                   restVars, stopVars, envVars>>

(* Mutant of ServeReturn: s.wait is not waited for.                        *)
ServeReturnAtOnce ==
    /\ Alive /\ serve = "wait"
    /\ serve' = "returned"
    /\ UNCHANGED <<serverState, rpc, process, connVars, starter, rpcThread, quit,
                   restVars, stopVars, envVars>>

(* The wait group counts the starter and the goroutine in rpc.Serve.       *)
ServeReturn ==
    /\ Alive /\ serve = "wait" /\ starter = "done" /\ rpcThread = "done"
    /\ serve' = "returned"
    /\ UNCHANGED <<serverState, rpc, process, connVars, starter, rpcThread, quit,
                   restVars, stopVars, envVars>>

(* The end of main.                                                        *)
MainReturn ==
    /\ Alive /\ serve = "returned"
    /\ process' = "exited"
    /\ UNCHANGED <<serverState, rpc, connVars, serveVars, restVars, stopVars, envVars>>

-----------------------------------------------------------------------------
(* The REST server                                                         *)

RestServe ==
    /\ Alive /\ restWait = "serve"
    /\ restWait' = "ready" /\ listen' = "starting"
    /\ UNCHANGED <<serverState, rpc, process, connVars, serveVars, stopVars, envVars>>

(* The unbuffered ready channel: both sides go on together.                *)
RestReady ==
    /\ Alive /\ restWait = "ready" /\ serve = "restReady"
    /\ restWait' = "notify" /\ serve' = "quit"
    /\ UNCHANGED <<serverState, rpc, process, connVars, starter, rpcThread, quit,
                   listen, stopVars, envVars>>

(* ListenAndServe of a server shut down before it listens does nothing.    *)
RestListen ==
    /\ Alive /\ listen = "starting"
    /\ listen' = IF restWait = "closed" THEN "closed" ELSE "bound"
    /\ UNCHANGED <<serverState, rpc, process, connVars, serveVars, restWait,
                   stopVars, envVars>>

(* signal.Notify; a signal that came before is not seen here.              *)
RestNotify ==
    /\ Alive /\ restWait = "notify"
    /\ restWait' = "waiting"
    /\ UNCHANGED <<serverState, rpc, process, connVars, serveVars, listen,
                   stopVars, envVars>>

(* Nobody makes the channel shutdownRequest: shutdownRest has no effect,   *)
(* and WaitShutdown hears of signals alone.                                *)
WaitShutdown ==
    /\ Alive /\ restWait = "caught"
    /\ restWait' = "closed"
    /\ listen' = IF listen = "bound" THEN "closed" ELSE listen
    /\ UNCHANGED <<serverState, rpc, process, connVars, serveVars, stopVars, envVars>>

-----------------------------------------------------------------------------
(* The signal goroutine of main, and Shutdown                              *)

HandlerReceive ==
    /\ Alive /\ handler = "new"
    /\ handler' = "receiving"
    /\ UNCHANGED <<serverState, rpc, process, connVars, serveVars, restVars, lock,
                   grpcStop, envVars>>

(* A signal goes to every channel registered; one that is not received     *)
(* from is passed over.                                                    *)
Signal ==
    /\ Alive /\ signals < MaxSignals
    /\ signals' = signals + 1
    /\ handler' = IF handler = "receiving" THEN "caught" ELSE handler
    /\ restWait' = IF restWait = "waiting" THEN "caught" ELSE restWait
    /\ UNCHANGED <<serverState, rpc, process, connVars, serveVars, listen, lock,
                   grpcStop, calls>>

ShutdownBegin ==
    /\ Alive /\ handler = "caught" /\ lock = "free"
    /\ IF serverState = "Shutdown"
       THEN handler' = "returned" /\ UNCHANGED <<serverState, lock, overlapped>>
       ELSE /\ handler' = "port" /\ serverState' = "Shutdown" /\ lock' = "shutdown"
            /\ overlapped' = (overlapped \/ Connecting)
    /\ UNCHANGED <<rpc, process, peerClient, dial, reconnect, serveVars, restVars,
                   grpcStop, envVars>>

CheckSocket == listen # "bound"

(* Mutant of ShutdownPort: the lock is kept to the end.                    *)
ShutdownPortLocked ==
    /\ Alive /\ handler = "port" /\ CheckSocket
    /\ handler' = "raft"
    /\ UNCHANGED <<serverState, lock, rpc, process, connVars, serveVars, restVars,
                   grpcStop, envVars>>

(* The loop that waits, with the lock, until the REST port is free.        *)
ShutdownPort ==
    /\ Alive /\ handler = "port" /\ CheckSocket
    /\ handler' = "raft" /\ lock' = "free"
    /\ UNCHANGED <<serverState, rpc, process, connVars, serveVars, restVars, grpcStop, envVars>>

(* The protocol's own Shutdown, which waits for nothing.  Whether the      *)
(* protocol stays Dead is the matter of Raft and ElectionTimer: timers and *)
(* handlers may revive it, and nothing here depends on its state.          *)
ShutdownRaft ==
    /\ Alive /\ handler = "raft"
    /\ handler' = "peers"
    /\ UNCHANGED <<serverState, rpc, process, connVars, serveVars, restVars, lock,
                   grpcStop, envVars>>

ShutdownPeers ==
    /\ Alive /\ handler = "peers"
    /\ handler' = "rpc" /\ peerClient' = {}
    /\ UNCHANGED <<serverState, rpc, process, dial, reconnect, overlapped,
                   serveVars, restVars, lock, grpcStop, envVars>>

(* GracefulStop of a nil server panics.                                    *)
ShutdownRpc ==
    /\ Alive /\ handler = "rpc"
    /\ \/ rpc = "nil" /\ process' = "nil rpc" /\ UNCHANGED <<rpc, handler>>
       \/ rpc # "nil" /\ rpc' = "stopped" /\ handler' = "quit" /\ UNCHANGED process
    /\ UNCHANGED <<serverState, connVars, serveVars, restVars, lock, grpcStop,
                   envVars>>

ShutdownQuit ==
    /\ Alive /\ handler = "quit"
    /\ handler' = "listener"
    /\ quit' = IF quit = "replaced" THEN quit ELSE "closed"
    /\ UNCHANGED <<serverState, rpc, process, connVars, serve, starter, rpcThread,
                   restVars, lock, grpcStop, envVars>>

ShutdownEnd ==
    /\ Alive /\ handler = "listener" /\ lock = "free"
    /\ handler' = "returned"
    /\ UNCHANGED <<serverState, rpc, process, connVars, serveVars, restVars, lock,
                   grpcStop, envVars>>

(* os.Exit                                                                 *)
HandlerExit ==
    /\ Alive /\ handler = "returned"
    /\ process' = "exited"
    /\ UNCHANGED <<serverState, rpc, connVars, serveVars, restVars, stopVars, envVars>>

-----------------------------------------------------------------------------
(* ShutdownGrpc, from a REST handler                                       *)

GrpcBegin ==
    /\ Alive /\ grpcStop = "none" /\ listen = "bound" /\ lock = "free"
    /\ IF serverState = "Shutdown"
       THEN grpcStop' = "returned" /\ UNCHANGED <<serverState, overlapped>>
       ELSE /\ grpcStop' = "peers" /\ serverState' = "Shutdown"
            /\ overlapped' = (overlapped \/ Connecting)
    /\ UNCHANGED <<rpc, process, peerClient, dial, reconnect, serveVars, restVars,
                   lock, handler, envVars>>

GrpcPeers ==
    /\ Alive /\ grpcStop = "peers"
    /\ grpcStop' = "rpc" /\ peerClient' = {}
    /\ UNCHANGED <<serverState, rpc, process, dial, reconnect, overlapped,
                   serveVars, restVars, lock, handler, envVars>>

GrpcStop ==
    /\ Alive /\ grpcStop = "rpc"
    /\ grpcStop' = "returned" /\ rpc' = "stopped"
    /\ UNCHANGED <<serverState, process, connVars, serveVars, restVars, lock, handler, envVars>>

(* peerClient is read without the lock by both shutdowns, by the handler   *)
(* of a REST request for the peers, and by a dialer at its start.  A       *)
(* goroutine that adds a connection at that time may bring the process     *)
(* down.                                                                   *)
Walking == \/ "peers" \in {handler, grpcStop} \/ listen = "bound"
           \/ \E p \in Peer : dial[p] = "check"
Adding == (\E p \in Peer : dial[p] = "dialing") \/ reconnect \notin {Idle, {}}

MapRace ==
    /\ Alive /\ Walking /\ Adding /\ lock = "free"
    /\ process' = "map race"
    /\ UNCHANGED <<serverState, rpc, connVars, serveVars, restVars, stopVars, envVars>>

-----------------------------------------------------------------------------
(* Disconnect and Reconnect, for callers of the package                    *)

(* Mutant of Disconnect: the state is not set.                             *)
DisconnectQuietly ==
    /\ Alive /\ calls < MaxCalls /\ lock = "free"
    /\ calls' = calls + 1
    /\ serverState = "Running"
    /\ peerClient' = {} /\ overlapped' = (overlapped \/ Connecting)
    /\ UNCHANGED <<serverState, rpc, process, dial, reconnect, serveVars, restVars,
                   stopVars, signals>>

Disconnect ==
    /\ Alive /\ calls < MaxCalls /\ lock = "free"
    /\ calls' = calls + 1
    /\ serverState = "Running"
    /\ serverState' = "Disconnected"
    /\ peerClient' = {} /\ overlapped' = (overlapped \/ Connecting)
    /\ UNCHANGED <<rpc, process, dial, reconnect, serveVars, restVars, stopVars,
                   signals>>

ReconnectBegin ==
    /\ Alive /\ calls < MaxCalls /\ reconnect = Idle
    /\ calls' = calls + 1
    /\ reconnect' = Peer /\ overlapped' = (overlapped \/ Disconnecting)
    /\ UNCHANGED <<serverState, rpc, process, peerClient, dial, serveVars, restVars,
                   stopVars, signals>>

ReconnectDial(p) ==
    /\ Alive /\ p \in reconnect /\ lock = "free"
    /\ reconnect' = reconnect \ {p}
    /\ peerClient' = peerClient \cup {p}
    /\ UNCHANGED <<serverState, rpc, process, dial, overlapped, serveVars, restVars,
                   stopVars, envVars>>

(* Running, without the lock and whatever the state was.                   *)
ReconnectEnd ==
    /\ Alive /\ reconnect = {}
    /\ reconnect' = Idle /\ serverState' = "Running"
    /\ UNCHANGED <<rpc, process, peerClient, dial, overlapped, serveVars, restVars,
                   stopVars, envVars>>

(* Start of a server that does not run makes a new protocol and a new quit *)
(* channel, which main does not know if it waits already and waits for if  *)
(* it comes later, and then ranges over a channel nobody closes, with the  *)
(* lock.                                                                   *)
Start ==
    /\ Alive /\ calls < MaxCalls /\ lock = "free"
    /\ calls' = calls + 1
    /\ serverState # "Running"
    /\ lock' = "start"
    /\ quit' = IF serve \in {"wait", "returned"} THEN quit
               ELSE IF serve # "quit" THEN "open"
               ELSE IF quit = "open" THEN "replaced" ELSE quit
    /\ UNCHANGED <<serverState, rpc, process, connVars, serve, starter, rpcThread,
                   restVars, handler, grpcStop, signals>>

-----------------------------------------------------------------------------
Serve == ServeEnter \/ createListener \/ NewRpc \/ StartRest \/ ServeQuit
         \/ ServeReturn \/ MainReturn
Starter == StarterDial \/ StarterRun
Rpc == RpcServe \/ RpcDone
Rest == RestServe \/ RestReady \/ RestNotify \/ WaitShutdown
Shutdown == HandlerReceive \/ ShutdownBegin \/ ShutdownPort \/ ShutdownRaft
            \/ ShutdownPeers \/ ShutdownRpc \/ ShutdownQuit \/ ShutdownEnd \/ HandlerExit
ShutdownGrpc == GrpcBegin \/ GrpcPeers \/ GrpcStop
Reconnect == ReconnectBegin \/ ReconnectEnd \/ \E p \in Peer : ReconnectDial(p)

Next ==
    \/ Serve \/ Starter \/ Rpc \/ Rest \/ RestListen \/ Shutdown \/ ShutdownGrpc
    \/ \E p \in Peer : DialCheck(p) \/ DialPeer(p)
    \/ Signal \/ MapRace \/ Disconnect \/ Reconnect \/ Start

(* Goroutines run.  Nothing is assumed of signals, of requests, or of the  *)
(* peers a dialer waits for.                                               *)
Fairness ==
    /\ WF_vars(Serve)
    /\ WF_vars(Starter)
    /\ WF_vars(Rpc)
    /\ WF_vars(Rest)
    /\ WF_vars(RestListen)
    /\ WF_vars(Shutdown)
    /\ WF_vars(GrpcPeers \/ GrpcStop)

Spec == Init /\ [][Next]_vars /\ Fairness

-----------------------------------------------------------------------------
(* Properties                                                              *)

(* Every variable has its type, and the gRPC server exists before the      *)
(* goroutines of Serve, which use it.                                      *)
TypeOK ==
    /\ serverState \in {"Init", "Running", "Disconnected", "Shutdown"}
    /\ peerClient \subseteq Peer
    /\ dial \in [Peer -> {"none", "check", "dialing", "done"}]
    /\ reconnect = Idle \/ reconnect \subseteq Peer
    /\ lock \in {"free", "shutdown", "start"}
    /\ rpc \in IF starter = "none" THEN {"nil"} ELSE {"made", "stopped"}
    /\ signals <= MaxSignals /\ calls <= MaxCalls

(* When Serve returns to main after it has served, rpc.Serve has returned, *)
(* and Shutdown has stopped the protocol, the connections and the gRPC     *)
(* server and has only the listener to close: main, which ends the process *)
(* then, cuts off neither.  That the protocol is Dead is not claimed:      *)
(* goroutines that nobody waits for may have revived it.                   *)
ServeReturnsLast ==
    serve = "returned" /\ starter # "none" =>
        /\ rpcThread = "done" /\ quit = "closed"
        /\ handler \in {"listener", "returned"}

(* A server that runs, with no dialer of Serve at work, is connected to    *)
(* every peer - unless a call that connects overlapped one that            *)
(* disconnects, at any time before.                                        *)
MeshIsWhole ==
    /\ serverState = "Running" /\ ~overlapped
    /\ starter # "dial" /\ \A p \in Peer : dial[p] \notin {"check", "dialing"}
    => peerClient = Peer

(* A signal that both main and the REST server wait for ends the process,  *)
(* whatever else runs and whether or not the peers can be reached.  Start  *)
(* prevents it: it keeps the lock that Shutdown begins and ends with.      *)
SignalEnds ==
    (handler = "caught" /\ restWait = "caught") ~> ~Alive \/ lock = "start"
=============================================================================
