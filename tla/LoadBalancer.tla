---------------------------- MODULE LoadBalancer ----------------------------
(***************************************************************************)
(* pkg/loadbalancer: one goroutine per HTTP request, which selects a       *)
(* member of the server pool, proxies to it, retries, and marks it dead;   *)
(* a health check that probes every member with the pool's lock held; and  *)
(* the choice saved in the cluster for other balancers.                    *)
(*                                                                         *)
(* The pool's lock is held by the health check from its first probe to its *)
(* last, and by the other users for one step.  Selection does not take it. *)
(***************************************************************************)
EXTENDS Naturals, FiniteSets

CONSTANTS
    PoolSize,    \* number of members, numbered from 0 as in the slice
    Request,     \* the HTTP requests
    Client,      \* the remote addresses they come from
    MaxHash,     \* hash values range over 0 .. MaxHash
    MaxRetry,    \* lb.maxRetry, 3 in the program
    MaxChanges   \* bound: how often a back end changes

ASSUME BalancerAssumption ==
    /\ PoolSize \in Nat \ {0} /\ MaxHash \in Nat
    /\ MaxRetry \in Nat /\ MaxChanges \in Nat

VARIABLES
    method,   \* lb.method
    url,      \* for each member, the first one in the slice with the same URL
    hash,     \* HashAddrPort of each client, if its address can be parsed
    backend,  \* environment: the back end at the URL of a first member
    changes,  \* environment: changes of backend so far
    wasDown,  \* ghost: back ends that have ever been down
    alive,    \* ServerFarm.Alive of each member
    current,  \* serverPool.current modulo the pool size, all that is read of it
    health,   \* the health check: where it is, which member, what the probe said
    req,      \* the goroutine of each request
    saved     \* the cluster's entry for each client

envVars  == <<method, url, hash, backend, changes, wasDown>>
poolVars == <<alive, current, health>>
vars == <<envVars, poolVars, req, saved>>

-----------------------------------------------------------------------------
None == "none"
Member == 0 .. PoolSize - 1
NoMember == PoolSize
Unparsed == MaxHash + 1     \* net.ParseIP takes no address with a zone
MaxAttempts == 3

(* "up" answers every call.  "silent" accepts connections and does not     *)
(* answer; there is no time-out for that.  "down" does not accept any.     *)
Condition == {"up", "silent", "down"}

(* A request record: attempts and retries are the values in the request's  *)
(* context, i, next and count the locals of the selection, tries a ghost   *)
(* that counts calls of a back end, gone says that the client has left.    *)
(* All calls share the Body of the request; it is spent once the transport *)
(* has closed it.                                                          *)
Fresh == [pc |-> "new", client |-> None, attempts |-> 1, retries |-> 0, i |-> 0,
          next |-> 0, count |-> 0, target |-> 0, tries |-> 0, gone |-> FALSE,
          body |-> FALSE, spent |-> FALSE]
Over == {"served", "refused", "aborted"}

Idle == [pc |-> "idle", i |-> 0, answer |-> FALSE]
Unlocked == health.pc = "idle"

Init ==
    /\ method \in {"RoundRobin", "SourceHash"}
    /\ url \in {f \in [Member -> Member] : \A m \in Member : f[m] <= m /\ f[f[m]] = f[m]}
    /\ hash \in [Client -> 0 .. Unparsed]
    /\ backend = [m \in Member |-> "up"] /\ changes = 0 /\ wasDown = {}
    /\ alive = [m \in Member |-> TRUE]
    /\ current = 0
    /\ health = Idle
    /\ req = [r \in Request |-> Fresh]
    /\ saved = [c \in Client |-> NoMember]

-----------------------------------------------------------------------------
(* The environment                                                         *)

Arrive(r, c) ==
    /\ req[r].pc = "new"
    /\ \E body \in BOOLEAN :
          req' = [req EXCEPT ![r].pc = "handle", ![r].client = c, ![r].body = body]
    /\ UNCHANGED <<envVars, poolVars, saved>>

(* The client closes its connection: the proxy's call is cancelled.        *)
Leave(r) ==
    /\ req[r].pc \notin {"new"} \cup Over /\ ~req[r].gone
    /\ req' = [req EXCEPT ![r].gone = TRUE]
    /\ UNCHANGED <<envVars, poolVars, saved>>

ChangeBackend(m) ==
    /\ changes < MaxChanges /\ url[m] = m
    /\ changes' = changes + 1
    /\ \E c \in Condition \ {backend[m]} :
          /\ backend' = [backend EXCEPT ![m] = c]
          /\ wasDown' = IF c = "down" THEN wasDown \cup {m} ELSE wasDown
    /\ UNCHANGED <<method, url, hash, poolVars, req, saved>>

-----------------------------------------------------------------------------
(* Selecting a member                                                      *)

(* The handler's next position, with its locals reset, and its end, which  *)
(* keeps what ghosts ask about.                                            *)
Goto(r, pc) == [req[r] EXCEPT !.pc = pc, !.i = 0, !.next = 0, !.count = 0]
End(r, pc)  == [Fresh EXCEPT !.pc = pc, !.gone = req[r].gone, !.spent = req[r].spent]

(* The handler gives up after the third attempt.                           *)
OutOfAttemptsNever(n) == FALSE
OutOfAttempts(n) == n > MaxAttempts

(* sourceHashHandler goes on after a failed getAddress and Atoi, to a nil  *)
(* address: net/http recovers the panic and drops the connection.          *)
httpHandler(r) ==
    /\ req[r].pc = "handle"
    /\ \/ /\ OutOfAttempts(req[r].attempts)
          /\ req' = [req EXCEPT ![r] = End(r, "refused")]
       \/ /\ ~OutOfAttempts(req[r].attempts) /\ method = "SourceHash"
          /\ req' = [req EXCEPT ![r] = IF hash[req[r].client] = Unparsed
                                       THEN End(r, "aborted") ELSE Goto(r, "count")]
       \/ /\ ~OutOfAttempts(req[r].attempts) /\ method = "RoundRobin"
          /\ req' = [req EXCEPT ![r] = Goto(r, "next")]
    /\ UNCHANGED <<envVars, poolVars, saved>>

(* HashSelection first counts the members that are alive, one by one.      *)
CountAlive(r) ==
    /\ req[r].pc = "count" /\ req[r].i < PoolSize
    /\ req' = [req EXCEPT ![r].i = @ + 1,
                          ![r].count = IF alive[req[r].i] THEN @ + 1 ELSE @]
    /\ UNCHANGED <<envVars, poolVars, saved>>

(* The hash modulo that count indexes the whole slice, dead members too.   *)
PickByHashOffByOne(h, n) == h % (n + 1)
PickByHash(h, n) == h % n

HashSelection(r) ==
    /\ req[r].pc = "count" /\ req[r].i = PoolSize
    /\ \/ /\ req[r].count = 0
          /\ req' = [req EXCEPT ![r] = End(r, "refused")]
       \/ /\ req[r].count > 0
          /\ req' = [req EXCEPT ![r] = [Goto(r, "lookup") EXCEPT
                 !.target = PickByHash(hash[req[r].client], req[r].count)]]
    /\ UNCHANGED <<envVars, poolVars, saved>>

(* The rest of sourceHashHandler: what the cluster has for the client is   *)
(* fetched and not used, and a goroutine saves the choice, if its call     *)
(* succeeds.  Nothing of the balancer depends on when.                     *)
Lookup(r) ==
    /\ req[r].pc = "lookup"
    /\ req' = [req EXCEPT ![r].pc = "proxy"]
    /\ saved' \in {saved, [saved EXCEPT ![req[r].client] = req[r].target]}
    /\ UNCHANGED <<envVars, poolVars>>

(* ServerPool.Next, under the lock.                                        *)
NextMember(r) ==
    LET n == (current + 1) % PoolSize IN
    /\ req[r].pc = "next" /\ Unlocked
    /\ current' = n
    /\ req' = [req EXCEPT ![r].pc = "scan", ![r].next = n, ![r].i = n]
    /\ UNCHANGED <<envVars, alive, health, saved>>

(* One turn of the loop of RoundRobin.                                     *)
RoundRobin(r) ==
    LET q == req[r]
        m == q.i % PoolSize
    IN
    /\ q.pc = "scan"
    /\ \/ /\ q.i < PoolSize + q.next /\ alive[m]
          /\ current' = IF q.i # q.next THEN m ELSE current
          /\ req' = [req EXCEPT ![r] = [Goto(r, "proxy") EXCEPT !.target = m]]
       \/ /\ q.i < PoolSize + q.next /\ ~alive[m]
          /\ req' = [req EXCEPT ![r].i = @ + 1]
          /\ UNCHANGED current
       \/ /\ q.i = PoolSize + q.next
          /\ req' = [req EXCEPT ![r] = End(r, "refused")]
          /\ UNCHANGED current
    /\ UNCHANGED <<envVars, alive, health, saved>>

-----------------------------------------------------------------------------
(* Proxying                                                                *)

(* A call fails when no connection is made or kept, when the client has    *)
(* left, and when its body cannot be read; in the last case the answer of  *)
(* a back end that is up may come first.                                   *)
Fails(r) == backend[url[req[r].target]] = "down" \/ req[r].gone \/ req[r].spent
Answers(r) == backend[url[req[r].target]] = "up" /\ ~req[r].gone

(* The proxy's call has no time-out: with neither, it waits.  The          *)
(* transport closes the body of a call that failed.                        *)
ServeHTTP(r) ==
    /\ req[r].pc = "proxy"
    /\ \/ /\ Answers(r)
          /\ req' = [req EXCEPT ![r] = End(r, "served")]
       \/ /\ Fails(r)
          /\ req' = [req EXCEPT ![r] = [req[r] EXCEPT !.pc = "failed", !.tries = @ + 1,
                                                      !.spent = @ \/ req[r].body]]
    /\ UNCHANGED <<envVars, poolVars, saved>>

(* The error handler tries the same member again while the request has     *)
(* retries left.  The counter stays in the request's context: after the    *)
(* first member no other gets a retry.                                     *)
ErrorHandler(r) ==
    /\ req[r].pc = "failed"
    /\ req' = [req EXCEPT ![r] =
           IF req[r].retries < MaxRetry
           THEN [req[r] EXCEPT !.pc = "proxy", !.retries = @ + 1]
           ELSE [req[r] EXCEPT !.pc = "mark"]]
    /\ UNCHANGED <<envVars, poolVars, saved>>

(* UpdateMemberStatus, under the lock, and the handler from the top.  It   *)
(* marks the first member with the URL.  The mutant marks the next one.    *)
MarkedNext(m) == (url[m] + 1) % PoolSize
Marked(m) == url[m]

UpdateMemberStatus(r) ==
    /\ req[r].pc = "mark" /\ Unlocked
    /\ alive' = [alive EXCEPT ![Marked(req[r].target)] = FALSE]
    /\ req' = [req EXCEPT ![r].pc = "handle", ![r].attempts = @ + 1]
    /\ UNCHANGED <<envVars, current, health, saved>>

-----------------------------------------------------------------------------
(* The health check                                                        *)

HealthTick ==
    /\ health.pc = "idle"
    /\ health' = [pc |-> "probe", i |-> 0, answer |-> FALSE]
    /\ UNCHANGED <<envVars, alive, current, req, saved>>

Probe ==
    /\ health.pc = "probe"
    /\ health' = [health EXCEPT !.pc = "set", !.answer = backend[url[health.i]] # "down"]
    /\ UNCHANGED <<envVars, alive, current, req, saved>>

(* Mutants of SetAlive: a probe can only take a member out; the lock is    *)
(* not released after the last member.                                     *)
SetDead ==
    /\ health.pc = "set"
    /\ alive' = [alive EXCEPT ![health.i] = @ /\ health.answer]
    /\ health' = IF health.i + 1 = PoolSize THEN Idle
                 ELSE [pc |-> "probe", i |-> health.i + 1, answer |-> FALSE]
    /\ UNCHANGED <<envVars, current, req, saved>>

SetAliveLocked ==
    /\ health.pc = "set"
    /\ alive' = [alive EXCEPT ![health.i] = health.answer]
    /\ health' = [pc |-> "probe", i |-> (health.i + 1) % PoolSize, answer |-> FALSE]
    /\ UNCHANGED <<envVars, current, req, saved>>

SetAlive ==
    /\ health.pc = "set"
    /\ alive' = [alive EXCEPT ![health.i] = health.answer]
    /\ health' = IF health.i + 1 = PoolSize THEN Idle
                 ELSE [pc |-> "probe", i |-> health.i + 1, answer |-> FALSE]
    /\ UNCHANGED <<envVars, current, req, saved>>

-----------------------------------------------------------------------------
NeedsLock(r) == NextMember(r) \/ UpdateMemberStatus(r)

Handle(r) ==
    \/ httpHandler(r) \/ CountAlive(r) \/ HashSelection(r) \/ Lookup(r)
    \/ RoundRobin(r) \/ ServeHTTP(r) \/ ErrorHandler(r)

HealthCheck == Probe \/ SetAlive

Next ==
    \/ \E r \in Request, c \in Client : Arrive(r, c)
    \/ \E r \in Request : Leave(r) \/ Handle(r) \/ NeedsLock(r)
    \/ \E m \in Member : ChangeBackend(m)
    \/ HealthTick \/ HealthCheck

(* Goroutines run, a back end that is up answers, the health ticker fires, *)
(* and a Go mutex, which hands itself to a waiter that starves, is granted *)
(* in the end.  A silent back end owes nothing: ServeHTTP is not enabled.  *)
Spec ==
    /\ Init /\ [][Next]_vars
    /\ WF_vars(HealthTick) /\ WF_vars(HealthCheck)
    /\ \A r \in Request : WF_vars(Handle(r)) /\ SF_vars(NeedsLock(r))

-----------------------------------------------------------------------------
(* Properties                                                              *)

(* Every variable has its type; above all, a selected member exists,       *)
(* however the flags change while HashSelection counts them.               *)
TypeOK ==
    /\ backend \in [Member -> Condition] /\ alive \in [Member -> BOOLEAN]
    /\ current \in Member
    /\ health \in [pc : {"idle", "probe", "set"}, i : Member, answer : BOOLEAN]
    /\ \A r \in Request :
          /\ req[r].target \in Member
          /\ req[r].attempts \in 1 .. MaxAttempts + 1
          /\ req[r].retries \in 0 .. MaxRetry
          /\ req[r].i \in 0 .. 2 * PoolSize /\ req[r].count \in 0 .. PoolSize
    /\ saved \in [Client -> Member \cup {NoMember}]

(* The balancer calls back ends at most maxRetry + 3 times for a request:  *)
(* the recursion of the error handler, the proxy and the handler ends.     *)
TriesBounded == \A r \in Request : req[r].tries <= MaxRetry + MaxAttempts

(* A member is taken out of the pool, by a stale probe or by failures of   *)
(* whatever request, only for a cause: its back end has been down, or a    *)
(* client left in the middle of a request, or a request with a body was    *)
(* tried again after a failure.  That takes a back end that was down, but  *)
(* any member: the retry fails with those that have always answered too.   *)
OutOnlyForCause ==
    \A m \in Member :
        \/ alive[m] \/ url[m] \in wasDown
        \/ \E r \in Request : req[r].gone
        \/ wasDown # {} /\ \E r \in Request : req[r].spent

(* Every request ends, although the health check holds the lock through    *)
(* all of its probes - or hangs for good in a call that a silent back end  *)
(* does not answer, and nowhere else.                                      *)
Held(r) == req[r].pc = "proxy" /\ backend[url[req[r].target]] = "silent"
RequestsEnd ==
    \A r \in Request : (req[r].pc = "handle" ~> req[r].pc \in Over) \/ <>[]Held(r)

(* The flags follow the back ends: a member whose back end accepts         *)
(* connections from some time on is alive again in the end, and one whose  *)
(* back end does not is not, although late failures and stale probes write *)
(* the flags too.                                                          *)
FlagsConverge ==
    \A m \in Member :
        /\ <>[](backend[url[m]] # "down") => <>[]alive[m]
        /\ <>[](backend[url[m]] = "down") => <>[]~alive[m]
=============================================================================
