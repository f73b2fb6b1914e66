------------------------- MODULE LoadBalancerProofs -------------------------
(***************************************************************************)
(* For any pool, any requests and clients and any limit of retries: the    *)
(* member selected exists, the calls made for a request are bounded, and a *)
(* member is taken out of the pool only for a cause.                       *)
(***************************************************************************)
EXTENDS LoadBalancer, TLAPS

-----------------------------------------------------------------------------
(* The inductive invariant                                                 *)

Selecting == {"count", "lookup", "next", "scan", "proxy", "failed", "mark"}
Position == {"new", "handle"} \cup Selecting \cup Over

ReqType ==
    [pc : Position, client : Client \cup {None},
     attempts : 1 .. MaxAttempts + 1, retries : 0 .. MaxRetry, i : Nat, next : Member,
     count : Nat, target : Member, tries : Nat, gone : BOOLEAN,
     body : BOOLEAN, spent : BOOLEAN]

(* The locals of a selection, by where the request is: HashSelection has   *)
(* counted at most i members, RoundRobin goes once round the pool.         *)
Locals(q) ==
    /\ q.pc \in {"handle"} \cup Selecting => q.client \in Client
    /\ q.pc \in Selecting => q.attempts <= MaxAttempts
    /\ IF q.pc = "count" THEN q.count <= q.i ELSE q.count = 0
    /\ q.i <= IF q.pc = "count" THEN PoolSize
              ELSE IF q.pc = "scan" THEN PoolSize + q.next ELSE PoolSize + PoolSize

(* Every call of a back end is a retry, the last one of an attempt, or     *)
(* the one whose failure is being handled.                                 *)
Tried(q) ==
    q.tries = q.retries + (q.attempts - 1) + IF q.pc \in {"failed", "mark"} THEN 1 ELSE 0

Shape ==
    /\ method \in {"RoundRobin", "SourceHash"} /\ hash \in [Client -> 0 .. Unparsed]
    /\ url \in [Member -> Member] /\ \A m \in Member : url[url[m]] = url[m]
    /\ req \in [Request -> ReqType]
    /\ backend \in [Member -> Condition] /\ alive \in [Member -> BOOLEAN]
    /\ current \in Member
    /\ health \in [pc : {"idle", "probe", "set"}, i : Member, answer : BOOLEAN]
    /\ saved \in [Client -> Member \cup {NoMember}]

(* Whatever says that a member does not answer, a probe or a failed        *)
(* request, says it of one that has been down, or says it for a client     *)
(* that has left or with a body that is spent; and a body is spent by a    *)
(* client that has left or a back end that has been down.                  *)
Blames(q) == q.gone \/ url[q.target] \in wasDown \/ (q.spent /\ wasDown # {})
Blamed ==
    /\ \A m \in Member : backend[m] # "down" \/ m \in wasDown
    /\ health.pc = "set" => health.answer \/ url[health.i] \in wasDown
    /\ \A r \in Request :
          /\ req[r].pc \in {"failed", "mark"} => Blames(req[r])
          /\ req[r].spent => req[r].gone \/ wasDown # {}

BalancerInv ==
    /\ Shape
    /\ \A r \in Request : Locals(req[r]) /\ Tried(req[r])
    /\ Blamed /\ OutOnlyForCause

-----------------------------------------------------------------------------
(* Lemmas on the operators                                                 *)

LEMMA ModRange ==
    ASSUME NEW n \in Nat, NEW d \in Nat \ {0} PROVE n % d \in 0 .. d - 1
  OBVIOUS

LEMMA ModMember == ASSUME NEW n \in Nat PROVE n % PoolSize \in Member
  BY ModRange, BalancerAssumption DEF Member

LEMMA MemberNat == /\ Member \subseteq Nat /\ 0 \in Member
                   /\ \A m \in Member : m < PoolSize
  BY BalancerAssumption DEF Member

LEMMA Positions ==
    /\ {"new", "handle", "count", "lookup", "next", "scan", "proxy", "failed", "mark"} \subseteq Position
    /\ Selecting \subseteq Position /\ Over \subseteq Position
  BY DEF Position, Selecting, Over

LEMMA FreshType == Fresh \in ReqType /\ Locals(Fresh) /\ Tried(Fresh)
  BY BalancerAssumption, MemberNat, Positions
     DEF Fresh, ReqType, MaxAttempts, Locals, Tried, Selecting, Over

(* A request is over, or at a new position with its locals reset.          *)
LEMMA EndType ==
    ASSUME NEW r \in Request, req[r] \in ReqType, NEW pc \in Over
    PROVE  End(r, pc) \in ReqType /\ Locals(End(r, pc)) /\ Tried(End(r, pc))
  <1> DEFINE e == End(r, pc)
  <1>1. e \in ReqType
    BY FreshType, Positions DEF End, ReqType
  <1>2. /\ e.pc = pc /\ e.client = Fresh.client /\ e.attempts = Fresh.attempts
        /\ e.retries = Fresh.retries /\ e.i = Fresh.i /\ e.next = Fresh.next
        /\ e.count = Fresh.count /\ e.tries = Fresh.tries
    BY FreshType DEF End, ReqType
  <1>3. Fresh.attempts = 1 /\ Fresh.retries = 0 /\ Fresh.tries = 0 /\ Fresh.i = 0 /\ Fresh.count = 0
    BY DEF Fresh
  <1> HIDE DEF e
  <1>4. Locals(e) /\ Tried(e)
    BY <1>2, <1>3, BalancerAssumption DEF Locals, Tried, Selecting, Over
  <1> QED BY <1>1, <1>4 DEF e

LEMMA GotoType ==
    ASSUME NEW r \in Request, req[r] \in ReqType, Locals(req[r]), Tried(req[r]),
           req[r].pc \in {"handle"} \cup (Selecting \ {"failed", "mark"}),
           req[r].attempts <= MaxAttempts,
           NEW pc \in Selecting \ {"failed", "mark"}
    PROVE  Goto(r, pc) \in ReqType /\ Locals(Goto(r, pc)) /\ Tried(Goto(r, pc))
  <1> DEFINE g == Goto(r, pc)
             q == req[r]
  <1>1. g \in ReqType
    BY MemberNat, Positions DEF Goto, ReqType
  <1>2. /\ g.pc = pc /\ g.client = q.client /\ g.attempts = q.attempts
        /\ g.retries = q.retries /\ g.i = 0 /\ g.next = 0 /\ g.count = 0 /\ g.tries = q.tries
    BY DEF Goto, ReqType
  <1> HIDE DEF g
  <1>3. Locals(g)
    BY <1>2, BalancerAssumption DEF Locals
  <1>4. Tried(g)
    BY <1>2 DEF Tried, Selecting
  <1> QED BY <1>1, <1>3, <1>4 DEF g

LEMMA TargetType ==
    ASSUME NEW q \in ReqType, Locals(q), Tried(q), NEW m \in Member
    PROVE  LET t == [q EXCEPT !.target = m] IN t \in ReqType /\ Locals(t) /\ Tried(t)
  BY DEF ReqType, Locals, Tried

LEMMA OneRequest ==
    ASSUME Shape, \A s \in Request : Locals(req[s]) /\ Tried(req[s]),
           NEW r \in Request, NEW q \in ReqType, Locals(q), Tried(q),
           req' = [req EXCEPT ![r] = q]
    PROVE  /\ req' \in [Request -> ReqType]
           /\ \A s \in Request : Locals(req'[s]) /\ Tried(req'[s])
  BY DEF Shape

-----------------------------------------------------------------------------
(* Types, locals and calls                                                 *)

Sound == Shape /\ \A s \in Request : Locals(req[s]) /\ Tried(req[s])

LEMMA HandleSound == ASSUME Sound, NEW r \in Request, Handle(r) PROVE Sound'
  <1> USE DEF Sound, envVars, poolVars
  <1>0. req[r] \in ReqType /\ Locals(req[r]) /\ Tried(req[r])
    BY DEF Shape
  <1>1. CASE httpHandler(r)
    <2>1. ASSUME NEW pc \in Over, req' = [req EXCEPT ![r] = End(r, pc)] PROVE Sound'
      BY <1>0, <1>1, <2>1, EndType, OneRequest DEF httpHandler, Shape
    <2>2. ASSUME NEW pc \in {"count", "next"}, ~OutOfAttempts(req[r].attempts),
                 req' = [req EXCEPT ![r] = Goto(r, pc)]
          PROVE  Sound'
      <3>1. req[r].attempts <= MaxAttempts /\ req[r].pc = "handle"
        BY <1>0, <1>1, <2>2 DEF httpHandler, OutOfAttempts, ReqType, MaxAttempts
      <3>2. Goto(r, pc) \in ReqType /\ Locals(Goto(r, pc)) /\ Tried(Goto(r, pc))
        BY <1>0, <3>1, GotoType DEF Selecting
      <3> QED BY <1>1, <2>2, <3>2, OneRequest DEF httpHandler, Shape
    <2> QED BY <1>1, <2>1, <2>2 DEF httpHandler, Over
  <1>2. CASE CountAlive(r)
    <2> DEFINE i == req[r].i + 1
               c == IF alive[req[r].i] THEN req[r].count + 1 ELSE req[r].count
               q == [req[r] EXCEPT !.i = i, !.count = c]
    <2>1. req' = [req EXCEPT ![r] = q]
      BY <1>2 DEF CountAlive, Shape
    <2>2. /\ req[r].pc = "count" /\ req[r].i < PoolSize /\ req[r].count <= req[r].i
          /\ req[r].i \in Nat /\ req[r].count \in Nat
      BY <1>0, <1>2 DEF CountAlive, ReqType, Locals
    <2>3. i \in Nat /\ i <= PoolSize /\ c \in Nat /\ c <= i
      BY <2>2, BalancerAssumption
    <2> HIDE DEF i, c
    <2>4. q \in ReqType
      BY <1>0, <2>3 DEF ReqType
    <2>5. /\ q.pc = "count" /\ q.i = i /\ q.count = c
          /\ q.client = req[r].client /\ q.attempts = req[r].attempts
          /\ q.retries = req[r].retries /\ q.tries = req[r].tries
      BY <1>0, <2>2 DEF ReqType
    <2> HIDE DEF q
    <2>6. Locals(q) /\ Tried(q)
      BY <1>0, <2>2, <2>3, <2>5 DEF Locals, Tried
    <2> QED BY <1>2, <2>1, <2>4, <2>6, OneRequest DEF CountAlive, Shape
  <1>3. CASE HashSelection(r)
    <2>1. CASE req' = [req EXCEPT ![r] = End(r, "refused")]
      BY <1>0, <1>3, <2>1, EndType, OneRequest DEF HashSelection, Shape, Over
    <2>2. CASE req[r].count > 0 /\ req' = [req EXCEPT ![r] = [Goto(r, "lookup") EXCEPT
                 !.target = PickByHash(hash[req[r].client], req[r].count)]]
      <3> DEFINE g == Goto(r, "lookup")
                 m == PickByHash(hash[req[r].client], req[r].count)
      <3>1. /\ req[r].attempts <= MaxAttempts /\ req[r].pc = "count"
            /\ req[r].client \in Client
            /\ req[r].count \in Nat \ {0} /\ req[r].count <= PoolSize
        BY <1>0, <1>3, <2>2, BalancerAssumption DEF HashSelection, ReqType, Locals, Selecting
      <3>2. g \in ReqType /\ Locals(g) /\ Tried(g)
        BY <1>0, <3>1, GotoType DEF Selecting
      <3>3. hash[req[r].client] \in Nat
        BY <3>1, BalancerAssumption DEF Shape, Unparsed
      <3>4. m \in 0 .. req[r].count - 1
        BY <3>1, <3>3, ModRange DEF PickByHash
      <3>5. m \in Member
        BY <3>1, <3>4, BalancerAssumption DEF Member
      <3> HIDE DEF g, m
      <3> DEFINE q == [g EXCEPT !.target = m]
      <3>6. q \in ReqType /\ Locals(q) /\ Tried(q)
        BY <3>2, <3>5, TargetType
      <3>7. req' = [req EXCEPT ![r] = q]
        BY <2>2 DEF g, m
      <3> HIDE DEF q
      <3> QED BY <1>3, <3>6, <3>7, OneRequest DEF HashSelection, Shape
    <2> QED BY <1>3, <2>1, <2>2 DEF HashSelection
  <1>4. CASE Lookup(r)
    <2> DEFINE q == [req[r] EXCEPT !.pc = "proxy"]
    <2>1. req' = [req EXCEPT ![r] = q]
      BY <1>4 DEF Lookup, Shape
    <2>2. q \in ReqType /\ Locals(q) /\ Tried(q)
      BY <1>0, <1>4, Positions DEF Lookup, ReqType, Locals, Tried, Selecting
    <2>3. saved' \in [Client -> Member \cup {NoMember}]
      BY <1>0, <1>4 DEF Lookup, Shape, ReqType, Locals, Selecting
    <2> HIDE DEF q
    <2> QED BY <1>4, <2>1, <2>2, <2>3, OneRequest DEF Lookup, Shape
  <1>5. CASE RoundRobin(r)
    <2> DEFINE m == req[r].i % PoolSize
    <2>1. /\ req[r].pc = "scan" /\ req[r].i \in Nat /\ req[r].next \in Member
          /\ req[r].attempts <= MaxAttempts
      BY <1>0, <1>5 DEF RoundRobin, ReqType, Locals, Selecting
    <2>2. m \in Member
      BY <2>1, ModMember
    <2>3. current' \in Member
      BY <1>5, <2>2 DEF RoundRobin, Shape
    <2>4. CASE req' = [req EXCEPT ![r] = [Goto(r, "proxy") EXCEPT !.target = m]]
      <3> DEFINE q == [Goto(r, "proxy") EXCEPT !.target = m]
      <3>1. Goto(r, "proxy") \in ReqType /\ Locals(Goto(r, "proxy")) /\ Tried(Goto(r, "proxy"))
        BY <1>0, <2>1, GotoType DEF Selecting
      <3>2. q \in ReqType /\ Locals(q) /\ Tried(q)
        BY <2>2, <3>1, TargetType
      <3> HIDE DEF m
      <3>3. req' = [req EXCEPT ![r] = q]
        BY <2>4
      <3> HIDE DEF q
      <3> QED BY <1>5, <2>3, <3>2, <3>3, OneRequest DEF RoundRobin, Shape
    <2>5. CASE req[r].i < PoolSize + req[r].next /\ req' = [req EXCEPT ![r].i = @ + 1]
      <3> DEFINE q == [req[r] EXCEPT !.i = @ + 1]
      <3>1. req' = [req EXCEPT ![r] = q]
        BY <2>5 DEF Shape
      <3>2. q \in ReqType /\ Locals(q) /\ Tried(q)
        BY <1>0, <2>1, <2>5, BalancerAssumption, MemberNat
           DEF ReqType, Locals, Tried, Selecting
      <3> HIDE DEF q
      <3> QED BY <1>5, <2>3, <3>1, <3>2, OneRequest DEF RoundRobin, Shape
    <2>6. CASE req' = [req EXCEPT ![r] = End(r, "refused")]
      BY <1>0, <1>5, <2>3, <2>6, EndType, OneRequest DEF RoundRobin, Shape, Over
    <2> QED BY <1>5, <2>4, <2>5, <2>6 DEF RoundRobin
  <1>6. CASE ServeHTTP(r)
    <2>1. CASE req' = [req EXCEPT ![r] = End(r, "served")]
      BY <1>0, <1>6, <2>1, EndType, OneRequest DEF ServeHTTP, Shape, Over
    <2>2. CASE req' = [req EXCEPT ![r] = [req[r] EXCEPT !.pc = "failed", !.tries = @ + 1, !.spent = @ \/ req[r].body]]
      <3> DEFINE q == [req[r] EXCEPT !.pc = "failed", !.tries = @ + 1, !.spent = @ \/ req[r].body]
      <3>1. q \in ReqType /\ Locals(q) /\ Tried(q)
        <4>0. req[r].tries + 1 \in Nat
          BY <1>0 DEF ReqType
        <4>1. q \in ReqType
          BY <1>0, <4>0, Positions DEF ReqType
        <4>2. /\ q.pc = "failed" /\ q.i = req[r].i /\ q.next = req[r].next /\ q.count = req[r].count
              /\ q.client = req[r].client /\ q.attempts = req[r].attempts
              /\ q.retries = req[r].retries /\ q.tries = req[r].tries + 1
          BY <1>0 DEF ReqType
        <4>3. /\ req[r].pc = "proxy" /\ req[r].retries \in Nat /\ req[r].attempts \in Nat
              /\ req[r].tries \in Nat
          BY <1>0, <1>6, BalancerAssumption DEF ServeHTTP, ReqType, MaxAttempts
        <4> HIDE DEF q
        <4>4. Locals(q)
          BY <1>0, <4>2, <4>3 DEF Locals, Selecting
        <4>5. Tried(q)
          BY <1>0, <4>2, <4>3 DEF Tried
        <4> QED BY <4>1, <4>4, <4>5
      <3>2. req' = [req EXCEPT ![r] = q]
        BY <2>2 DEF Shape
      <3> HIDE DEF q
      <3> QED BY <1>6, <3>1, <3>2, OneRequest DEF ServeHTTP, Shape
    <2> QED BY <1>6, <2>1, <2>2 DEF ServeHTTP
  <1>7. CASE ErrorHandler(r)
    <2> DEFINE q == IF req[r].retries < MaxRetry
                    THEN [req[r] EXCEPT !.pc = "proxy", !.retries = @ + 1]
                    ELSE [req[r] EXCEPT !.pc = "mark"]
    <2>1. req' = [req EXCEPT ![r] = q]
      BY <1>7 DEF ErrorHandler, Shape
    <2>2. q \in ReqType /\ Locals(q) /\ Tried(q)
      <3>1. /\ req[r].pc = "failed" /\ req[r].retries \in 0 .. MaxRetry
            /\ req[r].attempts \in Nat /\ req[r].tries \in Nat
        BY <1>0, <1>7, BalancerAssumption DEF ErrorHandler, ReqType, MaxAttempts
      <3>a. req[r].retries < MaxRetry => req[r].retries + 1 \in 0 .. MaxRetry
        BY <3>1, BalancerAssumption
      <3>2. q \in ReqType
        BY <1>0, <3>a, Positions DEF ReqType
      <3>3. /\ q.i = req[r].i /\ q.next = req[r].next /\ q.count = req[r].count
            /\ q.client = req[r].client /\ q.attempts = req[r].attempts /\ q.tries = req[r].tries
            /\ \/ q.pc = "proxy" /\ q.retries = req[r].retries + 1
               \/ q.pc = "mark" /\ q.retries = req[r].retries
        BY <1>0 DEF ReqType
      <3> HIDE DEF q
      <3>4. Locals(q)
        BY <1>0, <3>1, <3>3 DEF Locals, Selecting
      <3>5. Tried(q)
        <4>1. req[r].tries = req[r].retries + (req[r].attempts - 1) + 1
          BY <1>0, <3>1 DEF Tried
        <4>2. CASE q.pc = "proxy" /\ q.retries = req[r].retries + 1
          BY <3>1, <3>3, <4>1, <4>2, BalancerAssumption DEF Tried
        <4>3. CASE q.pc = "mark" /\ q.retries = req[r].retries
          BY <3>1, <3>3, <4>1, <4>3 DEF Tried
        <4> QED BY <3>3, <4>2, <4>3
      <3> QED BY <3>2, <3>4, <3>5
    <2> HIDE DEF q
    <2> QED BY <1>7, <2>1, <2>2, OneRequest DEF ErrorHandler, Shape
  <1> QED BY <1>1, <1>2, <1>3, <1>4, <1>5, <1>6, <1>7 DEF Handle

LEMMA LockSound == ASSUME Sound, NEW r \in Request, NeedsLock(r) PROVE Sound'
  <1> USE DEF Sound, envVars, poolVars
  <1>0. req[r] \in ReqType /\ Locals(req[r]) /\ Tried(req[r])
    BY DEF Shape
  <1>1. CASE NextMember(r)
    <2> DEFINE n == (current + 1) % PoolSize
               q == [req[r] EXCEPT !.pc = "scan", !.next = n, !.i = n]
    <2>1. n \in Member
      <3>1. current + 1 \in Nat
        BY MemberNat DEF Shape
      <3> QED BY <3>1, ModMember
    <2>2. req' = [req EXCEPT ![r] = q] /\ current' = n /\ req[r].pc = "next"
      BY <1>1 DEF NextMember, Shape
    <2> HIDE DEF n
    <2>3. n \in Nat /\ n <= PoolSize + n
      BY <2>1, MemberNat, BalancerAssumption
    <2>4. q \in ReqType
      BY <1>0, <2>1, <2>3, Positions DEF ReqType
    <2>5. /\ q.pc = "scan" /\ q.i = n /\ q.next = n /\ q.count = req[r].count
          /\ q.client = req[r].client /\ q.attempts = req[r].attempts
          /\ q.retries = req[r].retries /\ q.tries = req[r].tries
      BY <1>0 DEF ReqType
    <2> HIDE DEF q
    <2>6. Locals(q) /\ Tried(q)
      BY <1>0, <2>2, <2>3, <2>5 DEF Locals, Tried, Selecting
    <2> QED BY <1>1, <2>1, <2>2, <2>4, <2>6, OneRequest DEF NextMember, Shape
  <1>2. CASE UpdateMemberStatus(r)
    <2> DEFINE a == req[r].attempts + 1
               q == [req[r] EXCEPT !.pc = "handle", !.attempts = a]
    <2>1. /\ req' = [req EXCEPT ![r] = q] /\ req[r].pc = "mark"
          /\ alive' \in [Member -> BOOLEAN]
      BY <1>0, <1>2 DEF UpdateMemberStatus, Marked, ReqType, Shape
    <2>2. /\ req[r].attempts \in 1 .. MaxAttempts /\ a \in 1 .. MaxAttempts + 1
          /\ req[r].retries \in Nat /\ req[r].tries \in Nat
      BY <1>0, <2>1, BalancerAssumption DEF ReqType, Locals, Selecting, MaxAttempts
    <2>3. a - 1 = req[r].attempts - 1 + 1
      BY <2>2 DEF MaxAttempts
    <2> HIDE DEF a
    <2>4. q \in ReqType
      BY <1>0, <2>2, Positions DEF ReqType
    <2>5. /\ q.pc = "handle" /\ q.i = req[r].i /\ q.next = req[r].next /\ q.count = req[r].count
          /\ q.client = req[r].client /\ q.attempts = a
          /\ q.retries = req[r].retries /\ q.tries = req[r].tries
      BY <1>0 DEF ReqType
    <2> HIDE DEF q
    <2>6. Locals(q)
      BY <1>0, <2>1, <2>5 DEF Locals, Selecting
    <2>7. Tried(q)
      <3>1. req[r].tries = req[r].retries + (req[r].attempts - 1) + 1
        BY <1>0, <2>1 DEF Tried
      <3> QED BY <2>2, <2>3, <2>5, <3>1 DEF Tried, MaxAttempts
    <2> QED BY <1>2, <2>1, <2>4, <2>6, <2>7, OneRequest DEF UpdateMemberStatus, Shape
  <1> QED BY <1>1, <1>2 DEF NeedsLock

LEMMA OtherSound ==
    ASSUME Sound,
           \/ \E r \in Request, c \in Client : Arrive(r, c)
           \/ \E r \in Request : Leave(r)
           \/ \E m \in Member : ChangeBackend(m)
           \/ HealthTick \/ HealthCheck \/ UNCHANGED vars
    PROVE  Sound'
  <1> USE DEF Sound, envVars, poolVars
  <1>1. ASSUME NEW r \in Request, NEW c \in Client, Arrive(r, c) PROVE Sound'
    <2>b. PICK body \in BOOLEAN : req' = [req EXCEPT ![r].pc = "handle", ![r].client = c,
                                                   ![r].body = body]
      BY <1>1 DEF Arrive
    <2> DEFINE q == [req[r] EXCEPT !.pc = "handle", !.client = c, !.body = body]
    <2>0. req[r] \in ReqType /\ Locals(req[r]) /\ Tried(req[r]) /\ req[r].pc = "new"
      BY <1>1 DEF Shape, Arrive
    <2>1. req' = [req EXCEPT ![r] = q]
      BY <2>b DEF Shape
    <2>2. q \in ReqType
      BY <2>0, Positions DEF ReqType
    <2>3. Locals(q) /\ Tried(q)
      BY <2>0 DEF ReqType, Locals, Tried, Selecting
    <2> HIDE DEF q
    <2> QED BY <1>1, <2>1, <2>2, <2>3, OneRequest DEF Arrive, Shape
  <1>2. ASSUME NEW r \in Request, Leave(r) PROVE Sound'
    <2> DEFINE q == [req[r] EXCEPT !.gone = TRUE]
    <2>0. req[r] \in ReqType /\ Locals(req[r]) /\ Tried(req[r])
      BY DEF Shape
    <2>1. req' = [req EXCEPT ![r] = q]
      BY <1>2 DEF Leave, Shape
    <2>2. q \in ReqType
      BY <2>0 DEF ReqType
    <2>3. Locals(q) /\ Tried(q)
      BY <2>0 DEF ReqType, Locals, Tried
    <2> HIDE DEF q
    <2> QED BY <1>2, <2>1, <2>2, <2>3, OneRequest DEF Leave, Shape
  <1>3. ASSUME NEW m \in Member, ChangeBackend(m) PROVE Sound'
    <2>1. backend' \in [Member -> Condition]
      BY <1>3 DEF ChangeBackend, Shape
    <2> QED BY <1>3, <2>1 DEF ChangeBackend, Shape
  <1>4. CASE HealthTick
    BY <1>4, MemberNat DEF HealthTick, Shape
  <1>5. CASE Probe
    BY <1>5 DEF Probe, Shape
  <1>6. CASE SetAlive
    <2>0. health.i \in Member
      BY DEF Shape
    <2>1. health.i + 1 # PoolSize => health.i + 1 \in Member
      BY <2>0, BalancerAssumption DEF Member
    <2>2. health' \in [pc : {"idle", "probe", "set"}, i : Member, answer : BOOLEAN]
      BY <1>6, <2>1, MemberNat DEF SetAlive, Idle
    <2>3. alive' \in [Member -> BOOLEAN]
      BY <1>6 DEF SetAlive, Shape
    <2> QED BY <1>6, <2>2, <2>3 DEF SetAlive, Shape
  <1>7. CASE UNCHANGED vars
    BY <1>7 DEF vars, Shape
  <1> QED BY <1>1, <1>2, <1>3, <1>4, <1>5, <1>6, <1>7 DEF HealthCheck

LEMMA NextSound == ASSUME Sound, [Next]_vars PROVE Sound'
  BY HandleSound, LockSound, OtherSound DEF Next

-----------------------------------------------------------------------------
(* Who is taken out of the pool                                            *)

RequestStep(r) ==
    (\E c \in Client : Arrive(r, c)) \/ Leave(r) \/ Handle(r) \/ NeedsLock(r)

(* A step of a request touches no other, never forgets that its client has *)
(* left or its body is spent, and fails only for a cause.                  *)
LEMMA RequestEffect ==
    ASSUME Sound, Blamed, NEW r \in Request, RequestStep(r)
    PROVE  /\ \A s \in Request \ {r} : req'[s] = req[s]
           /\ req[r].gone => req'[r].gone
           /\ req[r].spent => req'[r].spent
           /\ req'[r].pc \in {"failed", "mark"} => Blames(req'[r])
           /\ req'[r].spent => req'[r].gone \/ wasDown # {}
           /\ UNCHANGED <<url, backend, wasDown, health>>
  <1> USE DEF Sound, envVars, poolVars
  <1> DEFINE Others == /\ \A s \in Request \ {r} : req'[s] = req[s]
                       /\ UNCHANGED <<url, backend, wasDown, health>>
             Kept == req'[r].gone = req[r].gone /\ req'[r].spent = req[r].spent
             Quiet == Others /\ Kept /\ req'[r].pc \notin {"failed", "mark"}
  <1>0. req \in [Request -> ReqType] /\ req[r] \in ReqType
    BY DEF Shape
  <1>q. SUFFICES \/ Quiet
                 \/ /\ Others
                    /\ req[r].gone => req'[r].gone
                    /\ req[r].spent => req'[r].spent
                    /\ req'[r].pc \in {"failed", "mark"} => Blames(req'[r])
                    /\ req'[r].spent => req'[r].gone \/ wasDown # {}
    BY DEF Blamed
  <1>a. \A pc : End(r, pc).pc = pc /\ End(r, pc).gone = req[r].gone /\ End(r, pc).spent = req[r].spent
    BY DEF End, Fresh
  <1>b. \A pc : /\ Goto(r, pc).pc = pc /\ Goto(r, pc).gone = req[r].gone
                /\ Goto(r, pc).spent = req[r].spent
                /\ \A m : /\ [Goto(r, pc) EXCEPT !.target = m].pc = pc
                          /\ [Goto(r, pc) EXCEPT !.target = m].gone = req[r].gone
                          /\ [Goto(r, pc) EXCEPT !.target = m].spent = req[r].spent
    BY <1>0 DEF Goto, ReqType
  <1>c. \A pc \in Over : pc \notin {"failed", "mark"}
    BY DEF Over
  <1>d. ASSUME NEW pc \in Over, req' = [req EXCEPT ![r] = End(r, pc)],
               UNCHANGED <<url, backend, wasDown, health>>
        PROVE  Quiet
    BY <1>0, <1>a, <1>c, <1>d
  <1>1. CASE \E c \in Client : Arrive(r, c)
    BY <1>0, <1>1 DEF Arrive, ReqType
  <1>l. CASE Leave(r)
    <2>1. /\ Others /\ req'[r].gone /\ req'[r].pc = req[r].pc
          /\ req'[r].spent = req[r].spent
      BY <1>0, <1>l DEF Leave, ReqType
    <2>2. Blames(req'[r])
      BY <2>1 DEF Blames
    <2> QED BY <2>1, <2>2
  <1>2. CASE httpHandler(r)
    <2>0. UNCHANGED <<url, backend, wasDown, health>>
      BY <1>2 DEF httpHandler
    <2>1. ASSUME NEW pc \in {"count", "next"}, req' = [req EXCEPT ![r] = Goto(r, pc)]
          PROVE  Quiet
      BY <1>0, <1>b, <2>0, <2>1
    <2>2. \/ \E pc \in Over : req' = [req EXCEPT ![r] = End(r, pc)]
          \/ \E pc \in {"count", "next"} : req' = [req EXCEPT ![r] = Goto(r, pc)]
      BY <1>2 DEF httpHandler, Over
    <2> QED BY <1>d, <2>0, <2>1, <2>2
  <1>3. CASE CountAlive(r) \/ Lookup(r)
    BY <1>0, <1>3 DEF CountAlive, Lookup, ReqType
  <1>4. CASE HashSelection(r)
    <2> DEFINE m == PickByHash(hash[req[r].client], req[r].count)
    <2>0. UNCHANGED <<url, backend, wasDown, health>>
      BY <1>4 DEF HashSelection
    <2>1. CASE req' = [req EXCEPT ![r] = End(r, "refused")]
      BY <1>d, <2>0, <2>1 DEF Over
    <2>2. CASE req' = [req EXCEPT ![r] = [Goto(r, "lookup") EXCEPT !.target = m]]
      <3> HIDE DEF m
      <3> QED BY <1>0, <1>b, <2>0, <2>2
    <2> QED BY <1>4, <2>1, <2>2 DEF HashSelection
  <1>5. CASE RoundRobin(r)
    <2> DEFINE m == req[r].i % PoolSize
    <2>0. UNCHANGED <<url, backend, wasDown, health>> /\ req[r].pc = "scan"
      BY <1>5 DEF RoundRobin
    <2>1. CASE req' = [req EXCEPT ![r] = [Goto(r, "proxy") EXCEPT !.target = m]]
      <3> HIDE DEF m
      <3> QED BY <1>0, <1>b, <2>0, <2>1
    <2>2. CASE req' = [req EXCEPT ![r].i = @ + 1]
      BY <1>0, <2>0, <2>2 DEF ReqType
    <2>3. CASE req' = [req EXCEPT ![r] = End(r, "refused")]
      BY <1>d, <2>0, <2>3 DEF Over
    <2> QED BY <1>5, <2>1, <2>2, <2>3 DEF RoundRobin
  <1>6. CASE ServeHTTP(r)
    <2>0. UNCHANGED <<url, backend, wasDown, health>>
      BY <1>6 DEF ServeHTTP
    <2>1. CASE req' = [req EXCEPT ![r] = End(r, "served")]
      BY <1>d, <2>0, <2>1 DEF Over
    <2>2. CASE /\ Fails(r)
               /\ req' = [req EXCEPT ![r] = [req[r] EXCEPT !.pc = "failed", !.tries = @ + 1,
                                                           !.spent = @ \/ req[r].body]]
      <3>1. /\ req'[r].gone = req[r].gone /\ req'[r].target = req[r].target
            /\ req[r].spent => req'[r].spent
            /\ \A s \in Request \ {r} : req'[s] = req[s]
        BY <1>0, <2>2 DEF ReqType
      <3>2. req[r].target \in Member /\ url[req[r].target] \in Member
        BY <1>0 DEF ReqType, Shape
      <3>3. \/ req[r].gone \/ url[req[r].target] \in wasDown
            \/ (req[r].spent /\ wasDown # {})
        BY <2>2, <3>2 DEF Fails, Blamed
      <3>4. Blames(req'[r])
        BY <2>0, <3>1, <3>3 DEF Blames
      <3>5. req[r].gone \/ wasDown # {}
        BY <3>3
      <3> QED BY <2>0, <3>1, <3>4, <3>5
    <2> QED BY <1>6, <2>1, <2>2 DEF ServeHTTP
  <1>7. CASE ErrorHandler(r)
    <2>1. /\ Kept /\ req'[r].target = req[r].target
          /\ \A s \in Request \ {r} : req'[s] = req[s]
      BY <1>0, <1>7 DEF ErrorHandler, ReqType
    <2>2. Blames(req[r]) /\ (req[r].spent => req[r].gone \/ wasDown # {})
      BY <1>7 DEF ErrorHandler, Blamed
    <2> QED BY <1>7, <2>1, <2>2 DEF ErrorHandler, Blames
  <1>8. CASE NeedsLock(r)
    BY <1>0, <1>8 DEF NeedsLock, NextMember, UpdateMemberStatus, ReqType
  <1> QED BY <1>1, <1>l, <1>2, <1>3, <1>4, <1>5, <1>6, <1>7, <1>8 DEF RequestStep, Handle

(* Who writes the flags.                                                   *)
LEMMA FlagsWritten ==
    ASSUME [Next]_vars
    PROVE  \/ \E r \in Request : UpdateMemberStatus(r)
           \/ SetAlive
           \/ UNCHANGED alive
  <1> USE DEF envVars, poolVars
  <1>1. CASE \E r \in Request : \/ Leave(r) \/ Handle(r) \/ NextMember(r)
                                \/ \E c \in Client : Arrive(r, c)
    BY <1>1 DEF Leave, Handle, NextMember, Arrive, httpHandler, CountAlive, HashSelection,
                Lookup, RoundRobin, ServeHTTP, ErrorHandler
  <1>2. CASE (\E m \in Member : ChangeBackend(m)) \/ HealthTick \/ Probe \/ UNCHANGED vars
    BY <1>2 DEF ChangeBackend, HealthTick, Probe, vars
  <1> QED BY <1>1, <1>2 DEF Next, NeedsLock, HealthCheck

LEMMA NextBlamed ==
    ASSUME Sound, Blamed, OutOnlyForCause, [Next]_vars
    PROVE  Blamed' /\ OutOnlyForCause'
  <1> USE DEF Sound
  <1> DEFINE Remembered == /\ \A s \in Request : /\ req[s].gone => req'[s].gone
                                                 /\ req[s].spent => req'[s].spent
                           /\ wasDown \subseteq wasDown' /\ url' = url
  <1>0. req \in [Request -> ReqType]
    BY DEF Shape
  <1>1. Blamed' /\ Remembered
    <2>1. ASSUME NEW r \in Request, RequestStep(r) PROVE Blamed' /\ Remembered
      <3>1. \A s \in Request : /\ req[s].gone => req'[s].gone
                               /\ req[s].spent => req'[s].spent
                               /\ req'[s].pc \in {"failed", "mark"} => Blames(req'[s])
                               /\ req'[s].spent => req'[s].gone \/ wasDown # {}
        <4> TAKE s \in Request
        <4>1. CASE s = r
          BY <2>1, <4>1, RequestEffect
        <4>2. CASE s # r
          <5>1. req'[s] = req[s]
            BY <2>1, <4>2, RequestEffect
          <5> QED BY <5>1 DEF Blamed
        <4> QED BY <4>1, <4>2
      <3>2. UNCHANGED <<url, backend, wasDown, health>>
        BY <2>1, RequestEffect
      <3>3. Blamed'
        BY <3>1, <3>2 DEF Blamed, Blames
      <3> QED BY <3>1, <3>2, <3>3
    <2>2. ASSUME NEW m \in Member, ChangeBackend(m) PROVE Blamed' /\ Remembered
      <3>1. UNCHANGED <<req, url, health>> /\ wasDown \subseteq wasDown'
        BY <2>2 DEF ChangeBackend, poolVars
      <3>2. \A n \in Member : backend'[n] # "down" \/ n \in wasDown'
        BY <2>2 DEF ChangeBackend, Blamed, Shape
      <3> QED BY <3>1, <3>2 DEF Blamed, Blames
    <2>3. CASE HealthTick
      BY <2>3 DEF HealthTick, envVars, Blamed, Blames
    <2>4. CASE Probe
      <3>1. UNCHANGED <<req, url, wasDown, backend>>
        BY <2>4 DEF Probe, envVars
      <3>2. url[health.i] \in Member
        BY DEF Shape
      <3>3. health'.i = health.i /\ health'.answer = (backend[url[health.i]] # "down")
        BY <2>4 DEF Probe, Shape
      <3>4. health'.answer \/ url[health'.i] \in wasDown
        BY <3>2, <3>3 DEF Blamed
      <3> QED BY <3>1, <3>4 DEF Blamed, Blames
    <2>5. CASE SetAlive
      <3>1. UNCHANGED <<req, url, wasDown, backend>> /\ health'.pc # "set"
        BY <2>5 DEF SetAlive, Idle, envVars
      <3> QED BY <3>1 DEF Blamed, Blames
    <2>6. CASE UNCHANGED vars
      BY <2>6 DEF vars, envVars, poolVars, Blamed, Blames
    <2> QED BY <2>1, <2>2, <2>3, <2>4, <2>5, <2>6 DEF Next, RequestStep, HealthCheck
  <1>2. OutOnlyForCause'
    <2>1. SUFFICES ASSUME NEW m \in Member, url'[m] \notin wasDown',
                          \A s \in Request : ~req'[s].gone,
                          ~(wasDown' # {} /\ \E s \in Request : req'[s].spent)
                   PROVE  alive'[m]
      BY DEF OutOnlyForCause
    <2>2. /\ url[m] \notin wasDown /\ \A s \in Request : ~req[s].gone
          /\ \A s \in Request : ~(req[s].spent /\ wasDown # {})
      <3>1. url' = url /\ wasDown \subseteq wasDown'
        BY <1>1
      <3>2. \A s \in Request : (req[s].gone => req'[s].gone) /\ (req[s].spent => req'[s].spent)
        BY <1>1
      <3> QED BY <2>1, <3>1, <3>2
    <2>3. alive[m]
      BY <2>2 DEF OutOnlyForCause
    <2>4. CASE SetAlive
      <3>1. health.answer \/ health.i # m
        BY <2>2, <2>4 DEF SetAlive, Blamed
      <3> QED BY <2>3, <2>4, <3>1 DEF SetAlive, Shape
    <2>5. ASSUME NEW r \in Request, UpdateMemberStatus(r) PROVE alive'[m]
      <3>1. url[req[r].target] \in wasDown
        BY <2>2, <2>5 DEF UpdateMemberStatus, Blamed, Blames
      <3>2. url[req[r].target] \in Member /\ url[m] \in Member
        BY <1>0 DEF ReqType, Shape
      <3>3. url[url[req[r].target]] = url[req[r].target]
        BY <1>0 DEF ReqType, Shape
      <3>4. m # url[req[r].target]
        BY <2>2, <3>1, <3>3
      <3> QED BY <2>3, <2>5, <3>2, <3>4 DEF UpdateMemberStatus, Marked, Shape
    <2>6. CASE UNCHANGED alive
      BY <2>3, <2>6
    <2> QED BY <2>4, <2>5, <2>6, FlagsWritten
  <1> QED BY <1>1, <1>2

-----------------------------------------------------------------------------
LEMMA InitBalancer == ASSUME Init PROVE BalancerInv
  <1>1. Shape
    <2>1. url \in [Member -> Member] /\ \A m \in Member : url[url[m]] = url[m]
      BY DEF Init
    <2>2. req \in [Request -> ReqType]
      BY FreshType DEF Init
    <2>3. backend \in [Member -> Condition] /\ alive \in [Member -> BOOLEAN]
      BY DEF Init, Condition
    <2>4. health \in [pc : {"idle", "probe", "set"}, i : Member, answer : BOOLEAN]
      BY MemberNat DEF Init, Idle
    <2> QED BY <2>1, <2>2, <2>3, <2>4, MemberNat DEF Init, Shape
  <1>2. \A r \in Request : Locals(req[r]) /\ Tried(req[r])
    BY FreshType DEF Init
  <1>3. \A r \in Request : req[r].pc = "new"
    BY DEF Init, Fresh
  <1>4. Blamed
    BY <1>3 DEF Init, Blamed, Idle, Fresh
  <1>5. OutOnlyForCause
    BY DEF Init, OutOnlyForCause
  <1> QED BY <1>1, <1>2, <1>4, <1>5 DEF BalancerInv

LEMMA BalancerAlways == Spec => []BalancerInv
  <1>1. BalancerInv /\ [Next]_vars => BalancerInv'
    BY NextSound, NextBlamed DEF BalancerInv, Sound
  <1> QED BY <1>1, InitBalancer, PTL DEF Spec

(* Every variable keeps its type; above all, HashSelection and RoundRobin  *)
(* select a member that exists.                                            *)
THEOREM BalancerTypeCorrect == Spec => []TypeOK
  <1>1. ASSUME BalancerInv PROVE TypeOK
    <2> SUFFICES ASSUME NEW r \in Request
                 PROVE  /\ req[r].target \in Member
                        /\ req[r].attempts \in 1 .. MaxAttempts + 1
                        /\ req[r].retries \in 0 .. MaxRetry
                        /\ req[r].i \in 0 .. 2 * PoolSize /\ req[r].count \in 0 .. PoolSize
      BY <1>1 DEF BalancerInv, Shape, TypeOK
    <2>1. req[r] \in ReqType /\ Locals(req[r])
      BY <1>1 DEF BalancerInv, Shape
    <2>2. /\ req[r].i \in Nat /\ req[r].next \in Member /\ req[r].count \in Nat
          /\ req[r].target \in Member
          /\ req[r].attempts \in 1 .. MaxAttempts + 1 /\ req[r].retries \in 0 .. MaxRetry
      BY <2>1 DEF ReqType
    <2>3. req[r].i <= PoolSize + PoolSize
      <3>1. PoolSize \in Nat /\ req[r].next \in Nat /\ req[r].next < PoolSize
        BY <2>2, MemberNat, BalancerAssumption
      <3>2. \/ req[r].i <= PoolSize \/ req[r].i <= PoolSize + req[r].next
            \/ req[r].i <= PoolSize + PoolSize
        BY <2>1 DEF Locals
      <3> QED BY <2>2, <3>1, <3>2
    <2>4. req[r].count <= PoolSize
      BY <2>1, <2>2, BalancerAssumption DEF Locals
    <2> QED BY <2>2, <2>3, <2>4, BalancerAssumption
  <1> QED BY <1>1, BalancerAlways, PTL

(* The error handler, the proxy and the handler call back ends at most     *)
(* maxRetry + 3 times for a request.                                       *)
THEOREM TriesAlwaysBounded == Spec => []TriesBounded
  <1>1. ASSUME BalancerInv PROVE TriesBounded
    <2> SUFFICES ASSUME NEW r \in Request PROVE req[r].tries <= MaxRetry + MaxAttempts
      BY DEF TriesBounded
    <2>1. req[r] \in ReqType /\ Locals(req[r]) /\ Tried(req[r])
      BY <1>1 DEF BalancerInv, Shape
    <2>2. req[r].attempts \in 1 .. 4 /\ req[r].retries \in 0 .. MaxRetry
      BY <2>1 DEF ReqType, MaxAttempts
    <2>3. CASE req[r].pc \in {"failed", "mark"}
      <3>1. req[r].attempts <= 3
        BY <2>1, <2>3 DEF Locals, Selecting, MaxAttempts
      <3>2. req[r].tries = req[r].retries + (req[r].attempts - 1) + 1
        BY <2>1, <2>3 DEF Tried
      <3> QED BY <2>2, <3>1, <3>2, BalancerAssumption DEF MaxAttempts
    <2>4. CASE req[r].pc \notin {"failed", "mark"}
      <3>1. req[r].tries = req[r].retries + (req[r].attempts - 1) + 0
        BY <2>1, <2>4 DEF Tried
      <3> QED BY <2>2, <3>1, BalancerAssumption DEF MaxAttempts
    <2> QED BY <2>3, <2>4
  <1> QED BY <1>1, BalancerAlways, PTL

(* Neither a stale probe nor a failed request takes a member out of the    *)
(* pool without a cause: a back end that was down, its own unless a body   *)
(* was sent again, or a client that left.                                  *)
THEOREM OutAlwaysForCause == Spec => []OutOnlyForCause
  <1>1. BalancerInv => OutOnlyForCause
    BY DEF BalancerInv
  <1> QED BY <1>1, BalancerAlways, PTL
=============================================================================
