--------------------------- MODULE RestStoreProofs ---------------------------
(***************************************************************************)
(* For any cluster, any number of Store calls and any changes of leader:   *)
(* the client's address is that of a server that has led, an error means   *)
(* that nothing was stored, and reads are monotonic.                       *)
(***************************************************************************)
EXTENDS RestStore, TLAPS

-----------------------------------------------------------------------------
(* The inductive invariant                                                 *)

Shape ==
    /\ client \in [pc : {"new", "discover", "ready", "failed"}, kind : {"url", "list"},
                   endpoint : SUBSET Server, todo : SUBSET Server,
                   respond : Answer \cup {NoAnswer}, leader : Server \cup {None}]
    /\ query \in [pc : {"idle", "status", "hint", "answered"}, at : Server \cup {None},
                  answer : Answer \cup {NoAnswer}]
    /\ query.pc # "idle" => query.at \in Server
    /\ store \in [Call -> [caller : {"idle", "waiting", "true", "false", "error"},
                           handler : {"none", "queued", "checked", "created", "refused"}]]
    /\ get \in [pc : {"idle", "sent", "found", "missing"}, key : Call \cup {None}]
    /\ get.pc # "idle" => get.key \in Call /\ client.pc = "ready"

(* Whoever is named as leader has led.                                     *)
Named ==
    /\ \A n \in Server : leading[n] => n \in everLed
    /\ \A n \in Server : lastLeader[n] \in everLed \cup {None}
    /\ query.answer.who \in everLed \cup {None}
    /\ client.respond.who \in everLed \cup {None}
    /\ client.leader \in everLed \cup {None}

(* What a handler that has not submitted has done, and whose error it is.  *)
Submitted ==
    \A k \in Call :
        /\ accepted[k] <= 1
        /\ store[k].handler # "created" => accepted[k] = 0
        /\ store[k].caller = "error" => store[k].handler = "refused"
        /\ store[k].caller = "idle" => store[k].handler = "none"

(* The server the client reads from has every key it has found.            *)
Found ==
    /\ client.pc # "ready" => seen = {}
    /\ client.pc = "ready" => seen \subseteq db[client.leader]
    /\ get.pc = "found" => get.key \in db[client.leader]
    /\ get.pc = "missing" => get.key \notin seen

RestInv == TypeOK /\ Shape /\ Named /\ Submitted /\ Found

-----------------------------------------------------------------------------
(* Types                                                                   *)

LEMMA ClusterTyped == ASSUME TypeOK, Shape, Cluster PROVE TypeOK' /\ Shape'
  <1> USE DEF clientVars, storeVars, getVars
  <1>1. ASSUME NEW n \in Server, ChangeRole(n) PROVE TypeOK' /\ Shape'
    <2>1. leading' \in [Server -> BOOLEAN]
      BY <1>1 DEF ChangeRole, TypeOK
    <2> QED BY <1>1, <2>1 DEF ChangeRole, TypeOK, Shape
  <1>2. ASSUME NEW n \in Server, shutdownGrpc(n) PROVE TypeOK' /\ Shape'
    BY <1>2 DEF shutdownGrpc, TypeOK, Shape
  <1>3. ASSUME NEW m \in Server, NEW n \in Server, AppendEntriesCall(m, n)
        PROVE  TypeOK' /\ Shape'
    BY <1>3 DEF AppendEntriesCall, TypeOK, Shape
  <1>4. ASSUME NEW n \in Server, NEW k \in Call, StoreCommitted(n, k)
        PROVE  TypeOK' /\ Shape'
    BY <1>4 DEF StoreCommitted, TypeOK, Shape
  <1> QED BY <1>1, <1>2, <1>3, <1>4 DEF Cluster

LEMMA DiscoveryTyped == ASSUME TypeOK, Shape, Discovery PROVE TypeOK' /\ Shape'
  <1> USE DEF clusterVars, storeVars, getVars
  <1>0. NoQuery \in [pc : {"idle", "status", "hint", "answered"}, at : Server \cup {None},
                     answer : Answer \cup {NoAnswer}]
        /\ NoQuery.pc = "idle" /\ NoQuery.answer = NoAnswer
    BY DEF NoQuery
  <1>1. CASE GetPeerList
    <2>1. PICK n \in client.endpoint : \E S \in PeerStatus(n) \cup {{}} :
            client' = [client EXCEPT !.pc = "discover", !.endpoint = @ \cup S,
                                     !.todo = client.endpoint \cup S]
      BY <1>1 DEF GetPeerList
    <2>2. PICK S \in SUBSET Server :
            client' = [client EXCEPT !.pc = "discover", !.endpoint = @ \cup S,
                                     !.todo = client.endpoint \cup S]
      BY <2>1 DEF PeerStatus
    <2> QED BY <1>1, <2>2 DEF GetPeerList, TypeOK, Shape
  <1>2. CASE LeaderStatus
    <2>1. CASE leading[query.at]
      <3>1. [who |-> query.at, success |-> TRUE] \in Answer
        BY <1>2 DEF LeaderStatus, Shape, Answer
      <3> QED BY <1>2, <2>1, <3>1 DEF LeaderStatus, TypeOK, Shape
    <2>2. CASE ~leading[query.at]
      BY <1>2, <2>2 DEF LeaderStatus, TypeOK, Shape
    <2> QED BY <2>1, <2>2
  <1>3. CASE LeaderHint
    <2>1. CASE lastLeader[query.at] = None
      BY <1>0, <1>3, <2>1 DEF LeaderHint, LastLeader, TypeOK, Shape
    <2>2. CASE lastLeader[query.at] # None
      <3>1. [who |-> lastLeader[query.at], success |-> FALSE] \in Answer
        BY <1>3, <2>2 DEF LeaderHint, Shape, TypeOK, Answer
      <3> QED BY <1>3, <2>2, <3>1 DEF LeaderHint, LastLeader, TypeOK, Shape
    <2> QED BY <2>1, <2>2
  <1>4. CASE GetLeader
    BY <1>0, <1>4 DEF GetLeader, TypeOK, Shape
  <1>5. CASE LeaderTimeout
    BY <1>0, <1>5 DEF LeaderTimeout, TypeOK, Shape
  <1>6. CASE EndDiscovery
    <2>1. client.respond # NoAnswer => client.respond.who \in Server
      BY DEF TypeOK, Answer
    <2> QED BY <1>6, <2>1 DEF EndDiscovery, TypeOK, Shape
  <1>7. ASSUME NEW n \in Server, AskLeader(n) PROVE TypeOK' /\ Shape'
    BY <1>7 DEF AskLeader, TypeOK, Shape
  <1> QED BY <1>1, <1>2, <1>3, <1>4, <1>5, <1>6, <1>7 DEF Discovery

LEMMA CallTyped ==
    ASSUME TypeOK, Shape, NEW k \in Call,
           Store(k) \/ SubmitCall(k) \/ Submit(k) \/ StoreAnswer(k) \/ StoreTimeout(k)
    PROVE  TypeOK' /\ Shape'
  <1> USE DEF clusterVars, clientVars, getVars
  <1>1. CASE Store(k)
    BY <1>1 DEF Store, TypeOK, Shape
  <1>2. CASE SubmitCall(k)
    BY <1>2 DEF SubmitCall, TypeOK, Shape
  <1>3. CASE Submit(k)
    BY <1>3 DEF Submit, TypeOK, Shape
  <1>4. CASE StoreAnswer(k)
    BY <1>4 DEF StoreAnswer, StoreResult, TypeOK, Shape
  <1>5. CASE StoreTimeout(k)
    BY <1>5 DEF StoreTimeout, TypeOK, Shape
  <1> QED BY <1>1, <1>2, <1>3, <1>4, <1>5

LEMMA GetTyped ==
    ASSUME TypeOK, Shape,
           getValue \/ GetAnswer \/ GetTimeout \/ \E k \in Call : Get(k)
    PROVE  TypeOK' /\ Shape'
  <1> USE DEF clusterVars, clientVars, storeVars, TypeOK, Shape
  <1>1. CASE \E k \in Call : Get(k)
    BY <1>1 DEF Get
  <1>2. CASE getValue
    BY <1>2 DEF getValue
  <1>3. CASE GetAnswer
    BY <1>3 DEF GetAnswer, NoGet
  <1>4. CASE GetTimeout
    BY <1>4 DEF GetTimeout, NoGet
  <1> QED BY <1>1, <1>2, <1>3, <1>4

LEMMA NextTyped == ASSUME TypeOK, Shape, [Next]_vars PROVE TypeOK' /\ Shape'
  <1>1. CASE UNCHANGED vars
    BY <1>1 DEF vars, clusterVars, clientVars, storeVars, getVars, TypeOK, Shape
  <1> QED BY <1>1, ClusterTyped, DiscoveryTyped, CallTyped, GetTyped DEF Next

-----------------------------------------------------------------------------
(* The address                                                             *)

LEMMA NextNamed == ASSUME TypeOK, Shape, Named, [Next]_vars PROVE Named'
  <1> USE DEF clusterVars, clientVars, storeVars, getVars
  <1>1. CASE Cluster
    <2>1. ASSUME NEW n \in Server, ChangeRole(n) PROVE Named'
      BY <2>1 DEF ChangeRole, TypeOK, Named
    <2>2. ASSUME NEW m \in Server, NEW n \in Server, AppendEntriesCall(m, n) PROVE Named'
      BY <2>2 DEF AppendEntriesCall, TypeOK, Named
    <2>3. CASE \E n \in Server : shutdownGrpc(n) \/ \E k \in Call : StoreCommitted(n, k)
      BY <2>3 DEF shutdownGrpc, StoreCommitted, Named
    <2> QED BY <1>1, <2>1, <2>2, <2>3 DEF Cluster
  <1>2. CASE Discovery
    <2>0. NoQuery.answer.who = None
      BY DEF NoQuery, NoAnswer
    <2>1. CASE GetPeerList
      <3>1. /\ client'.respond = client.respond /\ client'.leader = client.leader
            /\ UNCHANGED <<leading, lastLeader, everLed, query>>
        BY <2>1 DEF GetPeerList, Shape
      <3> QED BY <3>1 DEF Named
    <2>6. CASE \E n \in Server : AskLeader(n)
      BY <2>6 DEF AskLeader, NoAnswer, Named, Shape
    <2>2. CASE LeaderStatus
      BY <2>2 DEF LeaderStatus, Named, Shape
    <2>3. CASE LeaderHint
      BY <2>0, <2>3 DEF LeaderHint, LastLeader, Named, Shape
    <2>4. CASE GetLeader \/ LeaderTimeout
      BY <2>0, <2>4 DEF GetLeader, LeaderTimeout, Named, Shape
    <2>5. CASE EndDiscovery
      BY <2>5 DEF EndDiscovery, Named, Shape
    <2> QED BY <1>2, <2>1, <2>2, <2>3, <2>4, <2>5, <2>6 DEF Discovery
  <1>3. CASE \E k \in Call : \/ Store(k) \/ SubmitCall(k) \/ Submit(k)
                             \/ StoreAnswer(k) \/ StoreTimeout(k) \/ Get(k)
    BY <1>3 DEF Store, SubmitCall, Submit, StoreAnswer, StoreTimeout, Get, Named
  <1>4. CASE getValue \/ GetAnswer \/ GetTimeout \/ UNCHANGED vars
    BY <1>4 DEF getValue, GetAnswer, GetTimeout, vars, Named
  <1> QED BY <1>1, <1>2, <1>3, <1>4 DEF Next

-----------------------------------------------------------------------------
(* Storing                                                                 *)

LEMMA NextSubmitted == ASSUME TypeOK, Shape, Submitted, [Next]_vars PROVE Submitted'
  <1> USE DEF clusterVars, clientVars, storeVars, getVars
  <1>1. ASSUME NEW k \in Call, Store(k) PROVE Submitted'
    BY <1>1 DEF Store, Submitted, Shape
  <1>2. ASSUME NEW k \in Call, SubmitCall(k) PROVE Submitted'
    BY <1>2 DEF SubmitCall, Submitted, Shape
  <1>3. ASSUME NEW k \in Call, Submit(k) PROVE Submitted'
    BY <1>3 DEF Submit, Submitted, Shape, TypeOK
  <1>4. ASSUME NEW k \in Call, StoreAnswer(k) PROVE Submitted'
    BY <1>4 DEF StoreAnswer, StoreResult, Submitted, Shape
  <1>5. ASSUME NEW k \in Call, StoreTimeout(k) PROVE Submitted'
    BY <1>5 DEF StoreTimeout, Submitted, Shape
  <1>6. CASE UNCHANGED storeVars
    BY <1>6 DEF Submitted
  <1>7. Cluster \/ Discovery => UNCHANGED storeVars
    BY DEF Cluster, Discovery, ChangeRole, shutdownGrpc, AppendEntriesCall, StoreCommitted,
           GetPeerList, AskLeader, LeaderStatus, LeaderHint, GetLeader, LeaderTimeout, EndDiscovery
  <1>8. (\E k \in Call : Get(k)) \/ getValue \/ GetAnswer \/ GetTimeout => UNCHANGED storeVars
    BY DEF Get, getValue, GetAnswer, GetTimeout
  <1> QED BY <1>1, <1>2, <1>3, <1>4, <1>5, <1>6, <1>7, <1>8 DEF Next, vars

-----------------------------------------------------------------------------
(* Reading                                                                 *)

(* The address is fixed once there is one, and stores only grow.           *)
LEMMA AddressStays ==
    ASSUME TypeOK, Shape, [Next]_vars
    PROVE  /\ client.pc = "ready" => client'.pc = "ready" /\ client'.leader = client.leader
           /\ \A n \in Server : db[n] \subseteq db'[n]
  <1> USE DEF clusterVars, clientVars, storeVars, getVars
  <1>1. client.pc = "ready" => client'.pc = "ready" /\ client'.leader = client.leader
    <2>1. CASE Discovery
      BY <2>1 DEF Discovery, GetPeerList, AskLeader, LeaderStatus, LeaderHint, GetLeader,
                  LeaderTimeout, EndDiscovery, Shape
    <2>2. CASE ~Discovery
      BY <2>2 DEF Next, vars, Cluster, ChangeRole, shutdownGrpc, AppendEntriesCall,
                  StoreCommitted, Store, SubmitCall, Submit, StoreAnswer, StoreTimeout,
                  Get, getValue, GetAnswer, GetTimeout
    <2> QED BY <2>1, <2>2
  <1>2. \A n \in Server : db[n] \subseteq db'[n]
    <2>1. ASSUME NEW n \in Server, NEW k \in Call, StoreCommitted(n, k)
          PROVE  \A m \in Server : db[m] \subseteq db'[m]
      BY <2>1 DEF StoreCommitted, TypeOK
    <2>2. CASE ~ \E n \in Server, k \in Call : StoreCommitted(n, k)
      <3>1. UNCHANGED db
        BY <2>2 DEF Next, vars, Cluster, ChangeRole, shutdownGrpc, AppendEntriesCall,
                  Store, SubmitCall, Submit, StoreAnswer, StoreTimeout,
                  Get, getValue, GetAnswer, GetTimeout,
                  Discovery, GetPeerList, AskLeader, LeaderStatus, LeaderHint, GetLeader,
                  LeaderTimeout, EndDiscovery
      <3> QED BY <3>1
    <2> QED BY <2>1, <2>2
  <1> QED BY <1>1, <1>2

LEMMA NextFound == ASSUME TypeOK, Shape, Found, [Next]_vars PROVE Found'
  <1> USE DEF clusterVars, clientVars, storeVars, getVars
  <1>0. client.pc = "ready" => client.leader \in Server
    BY DEF TypeOK
  <1>1. ASSUME NEW k \in Call, Get(k) PROVE Found'
    BY <1>1 DEF Get, Found
  <1>2. CASE getValue
    <2>1. client.pc = "ready"
      BY <1>2 DEF getValue, Shape
    <2> QED BY <1>2, <2>1 DEF getValue, ReadFrom, Found, Shape
  <1>3. CASE GetAnswer
    <2>1. client.pc = "ready"
      BY <1>3 DEF GetAnswer, Shape
    <2> QED BY <1>3, <2>1 DEF GetAnswer, NoGet, Found
  <1>4. CASE GetTimeout
    BY <1>4 DEF GetTimeout, NoGet, Found
  <1>5. CASE UNCHANGED getVars
    <2>1. CASE client.pc = "ready"
      BY <1>0, <1>5, <2>1, AddressStays DEF Found
    <2>2. CASE client.pc # "ready"
      BY <1>5, <2>2 DEF Found, Shape
    <2> QED BY <2>1, <2>2
  <1>6. Cluster \/ Discovery => UNCHANGED getVars
    BY DEF Cluster, Discovery, ChangeRole, shutdownGrpc, AppendEntriesCall, StoreCommitted,
           GetPeerList, AskLeader, LeaderStatus, LeaderHint, GetLeader, LeaderTimeout, EndDiscovery
  <1>7. (\E k \in Call : \/ Store(k) \/ SubmitCall(k) \/ Submit(k) \/ StoreAnswer(k)
                         \/ StoreTimeout(k))
        => UNCHANGED getVars
    BY DEF Store, SubmitCall, Submit, StoreAnswer, StoreTimeout
  <1> QED BY <1>1, <1>2, <1>3, <1>4, <1>5, <1>6, <1>7 DEF Next, vars

-----------------------------------------------------------------------------
LEMMA InitRest == ASSUME Init PROVE RestInv
  <1>0. NoAnswer \in Answer \cup {NoAnswer} /\ NoAnswer.who = None
    BY DEF NoAnswer
  <1>1. PICK E \in SUBSET Server, kind \in {"url", "list"} : client = NewClient(kind, E)
    BY DEF Init
  <1>2. /\ client \in [pc : {"new", "discover", "ready", "failed"}, kind : {"url", "list"},
                   endpoint : SUBSET Server, todo : SUBSET Server,
                   respond : Answer \cup {NoAnswer}, leader : Server \cup {None}]
        /\ client.pc # "ready" /\ client.leader = None /\ client.respond = NoAnswer
        /\ client.todo \subseteq client.endpoint
    BY <1>0, <1>1 DEF NewClient
  <1>3. TypeOK
    BY <1>2 DEF Init, TypeOK, NoQuery
  <1>4. Shape
    BY <1>2 DEF Init, Shape, NoQuery, NoGet
  <1>5. Named
    BY <1>0, <1>2 DEF Init, Named, NoQuery
  <1>6. Submitted /\ Found
    BY <1>2 DEF Init, Submitted, Found, NoGet
  <1> QED BY <1>3, <1>4, <1>5, <1>6 DEF RestInv

LEMMA RestAlways == Spec => []RestInv
  <1>1. RestInv /\ [Next]_vars => RestInv'
    BY NextTyped, NextNamed, NextSubmitted, NextFound DEF RestInv
  <1> QED BY <1>1, InitRest, PTL DEF Spec

(* Every variable keeps its type, and a client that is built has the       *)
(* address of a member.                                                    *)
THEOREM RestTypeCorrect == Spec => []TypeOK
  <1>1. RestInv => TypeOK
    BY DEF RestInv
  <1> QED BY <1>1, RestAlways, PTL

(* GetLeader and DiscoverLeader settle on a server that has led.           *)
THEOREM LeaderAlwaysHasLed == Spec => []LeaderHasLed
  <1>1. RestInv => LeaderHasLed
    BY DEF RestInv, Named, LeaderHasLed
  <1> QED BY <1>1, RestAlways, PTL

(* A Store that returns an error is never accepted, and none is twice.     *)
THEOREM ErrorsStoreNothing == Spec => []ErrorMeansNotStored
  <1>1. RestInv => ErrorMeansNotStored
    BY DEF RestInv, Submitted, ErrorMeansNotStored
  <1> QED BY <1>1, RestAlways, PTL

(* A Get never misses a key that an earlier one found.                     *)
THEOREM ReadsAlwaysMonotonic == Spec => []ReadsAreMonotonic
  <1>1. RestInv => ReadsAreMonotonic
    BY DEF RestInv, Found, ReadsAreMonotonic
  <1> QED BY <1>1, RestAlways, PTL
=============================================================================
