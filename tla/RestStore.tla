------------------------------ MODULE RestStore ------------------------------
(***************************************************************************)
(* The REST client of pkg/client and the handlers of                       *)
(* pkg/server/rest_server.go it calls: how a client finds the leader, and  *)
(* what the answer to a Store or a Get tells it.                           *)
(*                                                                         *)
(* The cluster behind the REST servers is the environment: servers begin   *)
(* and cease to lead, two may lead at once, their AppendEntries tell the   *)
(* others of them, perhaps late, and accepted commands reach the stores in *)
(* the end.  A Store call has a key of its own.                            *)
(***************************************************************************)
EXTENDS Naturals, FiniteSets

CONSTANTS
    Server,      \* the members of the cluster, by their REST addresses
    Call,        \* the Store calls of the client, each with its key
    MaxChanges   \* bound: how often servers begin or cease to lead

ASSUME RestAssumption == MaxChanges \in Nat

VARIABLES
    leading,      \* raft.state = Leader
    everLed,      \* servers that have led at some time
    changes,      \* environment: changes of leading so far
    serverState,  \* s.serverState
    lastLeader,   \* s.LastLeaderId, None before the first AppendEntries
    db,           \* the keys in s.db
    client,       \* the RestClient, and the locals of its discovery
    query,        \* the /leader request in progress
    store,        \* per Store call: the caller's side and the handler's side
    accepted,     \* per Store call: how often raft.Submit accepted it
    get,          \* the Get call in progress
    seen          \* ghost: keys a Get has found

clusterVars == <<leading, everLed, changes, serverState, lastLeader, db>>
clientVars  == <<client, query>>
storeVars   == <<store, accepted>>
getVars     == <<get, seen>>
vars == <<clusterVars, clientVars, storeVars, getVars>>

-----------------------------------------------------------------------------
None == "none"
Answer == [who : Server, success : BOOLEAN]   \* LeaderRespond
NoAnswer == [who |-> None, success |-> FALSE] \* a nil respond
NoQuery == [pc |-> "idle", at |-> None, answer |-> NoAnswer]
NoGet   == [pc |-> "idle", key |-> None]

(* A client built by NewRestClient is given the endpoints; one built by    *)
(* NewRestClientFromUrl has one and asks it for the others.                *)
NewClient(kind, E) ==
    [pc |-> IF kind = "url" THEN "new" ELSE "discover", kind |-> kind,
     endpoint |-> E, todo |-> IF kind = "url" THEN {} ELSE E,
     respond |-> NoAnswer, leader |-> None]

Init ==
    /\ leading = [n \in Server |-> FALSE] /\ everLed = {} /\ changes = 0
    /\ serverState = [n \in Server |-> "Running"]
    /\ lastLeader = [n \in Server |-> None]
    /\ db = [n \in Server |-> {}]
    /\ \/ \E n \in Server : client = NewClient("url", {n})
       \/ \E E \in SUBSET Server : E # {} /\ client = NewClient("list", E)
    /\ query = NoQuery
    /\ store = [k \in Call |-> [caller |-> "idle", handler |-> "none"]]
    /\ accepted = [k \in Call |-> 0]
    /\ get = NoGet /\ seen = {}

-----------------------------------------------------------------------------
(* The cluster                                                             *)

ChangeRole(n) ==
    /\ changes < MaxChanges
    /\ changes' = changes + 1
    /\ leading' = [leading EXCEPT ![n] = ~@]
    /\ everLed' = everLed \cup {n}
    /\ UNCHANGED <<serverState, lastLeader, db, clientVars, storeVars, getVars>>

(* AppendEntriesCall of m at n records the sender whatever the outcome.    *)
(* The goroutines of a leader send after it has ceased to lead.            *)
AppendEntriesCall(m, n) ==
    /\ m \in everLed /\ m # n
    /\ serverState[n] = "Running"
    /\ lastLeader' = [lastLeader EXCEPT ![n] = m]
    /\ UNCHANGED <<leading, everLed, changes, serverState, db, clientVars,
                   storeVars, getVars>>

(* ReadCommits of n stores an accepted command.                            *)
StoreCommitted(n, k) ==
    /\ accepted[k] > 0
    /\ db' = [db EXCEPT ![n] = @ \cup {k}]
    /\ UNCHANGED <<leading, everLed, changes, serverState, lastLeader,
                   clientVars, storeVars, getVars>>

(* The /shutdownGrpc and /shutdownNode handlers: the REST server stays.    *)
shutdownGrpc(n) ==
    /\ serverState[n] = "Running"
    /\ serverState' = [serverState EXCEPT ![n] = "Shutdown"]
    /\ UNCHANGED <<leading, everLed, changes, lastLeader, db, clientVars,
                   storeVars, getVars>>

-----------------------------------------------------------------------------
(* Discovery                                                               *)

(* PeerStatus lists the server and the peers it is connected to.           *)
PeerStatus(n) ==
    {S \in SUBSET Server : n \in S /\ (serverState[n] = "Shutdown" => S = {n})}

(* A request that fails leaves the client with the endpoint it was given.  *)
GetPeerList ==
    /\ client.pc = "new"
    /\ \E n \in client.endpoint : \E S \in PeerStatus(n) \cup {{}} :
           client' = [client EXCEPT !.pc = "discover",
                                    !.endpoint = @ \cup S,
                                    !.todo = client.endpoint \cup S]
    /\ UNCHANGED <<clusterVars, query, storeVars, getVars>>

(* GetLeader asks the endpoints one after the other, in any order.         *)
AskLeader(n) ==
    /\ client.pc = "discover" /\ query.pc = "idle" /\ n \in client.todo
    /\ client' = [client EXCEPT !.todo = @ \ {n}]
    /\ query' = [pc |-> "status", at |-> n, answer |-> NoAnswer]
    /\ UNCHANGED <<clusterVars, storeVars, getVars>>

(* The handler asks the protocol first, ...                                *)
LeaderStatus ==
    /\ query.pc = "status"
    /\ query' = IF leading[query.at]
                THEN [query EXCEPT !.pc = "answered",
                          !.answer = [who |-> query.at, success |-> TRUE]]
                ELSE [query EXCEPT !.pc = "hint"]
    /\ UNCHANGED <<clusterVars, client, storeVars, getVars>>

(* Mutant of LastLeader: a server that heard of none names itself.         *)
LastLeaderOrSelf(n) == IF lastLeader[n] = None THEN n ELSE lastLeader[n]
LastLeader(n) == lastLeader[n]

(* ... and then names the last leader seen, or answers with an empty body, *)
(* which the client cannot decode.                                         *)
LeaderHint ==
    /\ query.pc = "hint"
    /\ query' = IF LastLeader(query.at) = None THEN NoQuery
                ELSE [query EXCEPT !.pc = "answered",
                          !.answer = [who |-> LastLeader(query.at), success |-> FALSE]]
    /\ UNCHANGED <<clusterVars, client, storeVars, getVars>>

(* The answer replaces an earlier one; a leader's own ends the loop.       *)
GetLeader ==
    /\ query.pc = "answered"
    /\ query' = NoQuery
    /\ client' = [client EXCEPT !.respond = query.answer,
                      !.todo = IF query.answer.success THEN {} ELSE @]
    /\ UNCHANGED <<clusterVars, storeVars, getVars>>

LeaderTimeout ==
    /\ query.pc # "idle"
    /\ query' = NoQuery
    /\ UNCHANGED <<clusterVars, client, storeVars, getVars>>

(* Without an answer there is no client.  DiscoverLeader, which            *)
(* NewRestClient uses, also fails when no leader answered for itself.  The *)
(* address is never empty from here on, so it is never asked for again.    *)
EndDiscovery ==
    /\ client.pc = "discover" /\ query.pc = "idle" /\ client.todo = {}
    /\ client' =
           IF client.respond = NoAnswer \/ (client.kind = "list" /\ ~client.respond.success)
           THEN [client EXCEPT !.pc = "failed"]
           ELSE [client EXCEPT !.pc = "ready", !.leader = client.respond.who]
    /\ UNCHANGED <<clusterVars, query, storeVars, getVars>>

-----------------------------------------------------------------------------
(* Storing                                                                 *)

(* Store sends one request, to the address found at the beginning.         *)
Store(k) ==
    /\ client.pc = "ready" /\ store[k].caller = "idle"
    /\ store' = [store EXCEPT ![k] = [caller |-> "waiting", handler |-> "queued"]]
    /\ UNCHANGED <<clusterVars, clientVars, accepted, getVars>>

(* SubmitCall looks at serverState, without a lock, before it submits.     *)
RefusesSubmit(n) == serverState[n] # "Running"

(* SubmitKeyValue takes rest.lock for the whole request.                   *)
SubmitCall(k) ==
    /\ store[k].handler = "queued"
    /\ \A j \in Call : store[j].handler # "checked"
    /\ store' = [store EXCEPT ![k].handler =
           IF RefusesSubmit(client.leader) THEN "refused" ELSE "checked"]
    /\ UNCHANGED <<clusterVars, clientVars, accepted, getVars>>

(* raft.Submit.  When the server does not lead, SubmitCall returns neither *)
(* a reply nor an error, and the handler answers Created all the same.     *)
Submit(k) ==
    /\ store[k].handler = "checked"
    /\ accepted' = [accepted EXCEPT ![k] = IF leading[client.leader] THEN @ + 1 ELSE @]
    /\ store' = [store EXCEPT ![k].handler = "created"]
    /\ UNCHANGED <<clusterVars, clientVars, getVars>>

(* What Store returns: true for Created, an error for any other status.    *)
StoreResult(handler) == IF handler = "created" THEN "true" ELSE "error"

StoreAnswer(k) ==
    /\ store[k].caller = "waiting" /\ store[k].handler \in {"created", "refused"}
    /\ store' = [store EXCEPT ![k].caller = StoreResult(store[k].handler)]
    /\ UNCHANGED <<clusterVars, clientVars, accepted, getVars>>

(* Mutant of StoreTimeout: a caller that reports a time-out as an error.   *)
StoreTimeoutIsError(k) ==
    /\ store[k].caller = "waiting"
    /\ store' = [store EXCEPT ![k].caller = "error"]
    /\ UNCHANGED <<clusterVars, clientVars, accepted, getVars>>

(* After 250 ms, or when the connection fails, Store returns false and no  *)
(* error; the handler goes on.                                             *)
StoreTimeout(k) ==
    /\ store[k].caller = "waiting"
    /\ store' = [store EXCEPT ![k].caller = "false"]
    /\ UNCHANGED <<clusterVars, clientVars, accepted, getVars>>

-----------------------------------------------------------------------------
(* Reading                                                                 *)

Get(k) ==
    /\ client.pc = "ready" /\ get.pc = "idle"
    /\ get' = [pc |-> "sent", key |-> k]
    /\ UNCHANGED <<clusterVars, clientVars, storeVars, seen>>

(* Where a Get goes.  The mutant follows the cluster's leaders.            *)
ReadFromLeading == CHOOSE n \in Server : leading[n] \/ \A m \in Server : ~leading[m]
ReadFrom == client.leader

(* The handler looks at neither the state of the server nor its role.      *)
getValue ==
    /\ get.pc = "sent"
    /\ get' = [get EXCEPT !.pc = IF get.key \in db[ReadFrom] THEN "found" ELSE "missing"]
    /\ UNCHANGED <<clusterVars, clientVars, storeVars, seen>>

GetAnswer ==
    /\ get.pc \in {"found", "missing"}
    /\ get' = NoGet
    /\ seen' = IF get.pc = "found" THEN seen \cup {get.key} ELSE seen
    /\ UNCHANGED <<clusterVars, clientVars, storeVars>>

GetTimeout ==
    /\ get.pc # "idle"
    /\ get' = NoGet
    /\ UNCHANGED <<clusterVars, clientVars, storeVars, seen>>

-----------------------------------------------------------------------------
Cluster ==
    \/ \E n \in Server : ChangeRole(n) \/ shutdownGrpc(n)
    \/ \E m, n \in Server : AppendEntriesCall(m, n)
    \/ \E n \in Server, k \in Call : StoreCommitted(n, k)

Discovery ==
    \/ GetPeerList \/ LeaderStatus \/ LeaderHint \/ GetLeader
    \/ LeaderTimeout \/ EndDiscovery
    \/ \E n \in Server : AskLeader(n)

Next ==
    \/ Cluster \/ Discovery
    \/ \E k \in Call : \/ Store(k) \/ SubmitCall(k) \/ Submit(k)
                       \/ StoreAnswer(k) \/ StoreTimeout(k)
                       \/ Get(k)
    \/ getValue \/ GetAnswer \/ GetTimeout

Spec == Init /\ [][Next]_vars

-----------------------------------------------------------------------------
(* Properties                                                              *)

(* Every variable has its type; a client that is built has an address.     *)
TypeOK ==
    /\ leading \in [Server -> BOOLEAN] /\ everLed \subseteq Server
    /\ serverState \in [Server -> {"Running", "Shutdown"}]
    /\ lastLeader \in [Server -> Server \cup {None}]
    /\ db \in [Server -> SUBSET Call]
    /\ client.endpoint \subseteq Server /\ client.todo \subseteq client.endpoint
    /\ client.respond \in Answer \cup {NoAnswer}
    /\ client.leader \in IF client.pc = "ready" THEN Server ELSE {None}
    /\ query.answer \in IF query.pc = "answered" THEN Answer ELSE {NoAnswer}
    /\ accepted \in [Call -> Nat] /\ seen \subseteq Call

(* The address a client ends up with is that of a server that has led, in  *)
(* whatever order endpoints were asked, answers got lost and leaders       *)
(* changed: hints come from AppendEntries alone.                           *)
LeaderHasLed == client.leader \in everLed \cup {None}

(* A Store that returns an error has no effect, neither before nor after,  *)
(* and no Store is accepted twice.  The time-out is not an error.          *)
ErrorMeansNotStored ==
    \A k \in Call : /\ accepted[k] <= 1
                    /\ store[k].caller = "error" => accepted[k] = 0

(* A client that has found a key never misses it later, through every      *)
(* change of leader: it reads from one server, whose store only grows.     *)
ReadsAreMonotonic == get.pc = "missing" => get.key \notin seen

(* "It will discover a cluster only server will reject a request if the    *)
(* target server not a leader of a cluster" (README.md:363): a Store that  *)
(* returned true was accepted by a leader.  The server does not reject the *)
(* request when it does not lead; it answers Created.                      *)
TrueMeansAccepted ==
    \A k \in Call : store[k].caller = "true" => accepted[k] = 1
=============================================================================
