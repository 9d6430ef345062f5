--------------------------- MODULE ApiServer_proofs ---------------------------
(***************************************************************************)
(* A request past the middleware had the right to be there: OnlyAuthorized *)
(* for any clients, requests, connections and configurations.  The network *)
(* guard and the token check are separate stages of a connection, and the  *)
(* rule about remote clients is checked a third time, when the server is   *)
(* started: what each contributes is kept until the answer is written.     *)
(*                                                                         *)
(* The rate limiter lets through what it should, RateIsBounded, and turns  *)
(* away no one it should not, RefusedOnlyWhenSpent: both follow from what  *)
(* requests, late ones too, can do to the level of a client's bucket.      *)
(***************************************************************************)
EXTENDS ApiServer, FiniteSetTheorems, TLAPS

Fields == {"stage", "req", "stamp", "answer"}

\* The statuses only a handler gives; the middleware answers 401, 403, 429.
Past(x) ==
    \/ x.stage \in {"handle", "scanning"}
    \/ x.stage = "answering" /\ x.answer \in {200, 400, 405, 500}

BehindGuard == {"limit", "locking", "auth"}

\* What a connection has shown by the stage it is in.
Shown(x, c, s) ==
    /\ DOMAIN x = Fields
    /\ x.stage # "free" => s = "up"
    /\ x.stage \in BehindGuard \/ Past(x) =>
          (c.loopback => x.req.from \in LocalClients)
    /\ Past(x) => (c.token => x.req.token)

Permitted(x) == Shown(x, config, server)

IInv ==
    /\ DOMAIN handler = Handlers
    /\ server = "up" => MayListen(config)
    /\ \A h \in Handlers : Shown(handler[h], config, server)

\* A free connection has shown nothing.
LEMMA FreeIsPermitted == Permitted(Free)
  BY DEF Permitted, Shown, Free, Fields, Past, BehindGuard

LEMMA InitIInv == Init => IInv
<1> SUFFICES ASSUME Init PROVE IInv
  OBVIOUS
<1>1. server = "down" /\ handler = [h \in Handlers |-> Free]
  BY DEF Init
<1> QED BY <1>1, FreeIsPermitted DEF IInv, Permitted

\* A step of one connection needs to show what its new record says.
LEMMA OneConnection ==
  ASSUME IInv, NEW h \in Handlers, NEW x, handler' = [handler EXCEPT ![h] = x],
         UNCHANGED <<config, server>>, Permitted(x)
  PROVE  IInv'
<1>1. \A g \in Handlers : Shown(handler'[g], config', server')
  BY DEF IInv, Permitted
<1>2. DOMAIN handler' = Handlers /\ (server' = "up" => MayListen(config'))
  BY DEF IInv
<1> QED BY <1>1, <1>2 DEF IInv

\* The stage of a connection changes and nothing else.
LEMMA StageOf ==
  ASSUME IInv, NEW h \in Handlers, NEW s
  PROVE  LET x == [handler[h] EXCEPT !.stage = s]
         IN  /\ DOMAIN x = Fields /\ x.stage = s
             /\ x.req = handler[h].req /\ x.answer = handler[h].answer
  BY DEF IInv, Permitted, Shown, Fields

\* The middleware and the handlers answer with a status.
LEMMA AnswerOf ==
  ASSUME IInv, NEW h \in Handlers, NEW status
  PROVE  LET x == Answer(h, status)
         IN  /\ DOMAIN x = Fields /\ x.stage = "answering"
             /\ x.req = handler[h].req /\ x.answer = status
  BY DEF IInv, Permitted, Shown, Fields, Answer

\* An answer needs to show what the connection had shown before.
LEMMA AnswerKeeps ==
  ASSUME IInv, NEW h \in Handlers, NEW status, Answered(h, status),
         UNCHANGED <<config, server>>, Permitted(Answer(h, status))
  PROVE  IInv'
  BY OneConnection DEF Answered

\* A connection that is answered by the middleware.
LEMMA TurnedAway ==
  ASSUME IInv, NEW h \in Handlers, handler[h].stage # "free",
         NEW status \in {401, 403, 429}, Answered(h, status), UNCHANGED <<config, server>>
  PROVE  IInv'
<1>1. Permitted(Answer(h, status))
  BY AnswerOf DEF Permitted, Shown, Past, BehindGuard, IInv
<1> QED BY <1>1, AnswerKeeps

\* A connection past the middleware that is answered by its handler.
LEMMA HandlerAnswers ==
  ASSUME IInv, NEW h \in Handlers, Past(handler[h]), NEW status, Answered(h, status),
         UNCHANGED <<config, server>>
  PROVE  IInv'
<1>1. Permitted(Answer(h, status))
  BY AnswerOf DEF Permitted, Shown, Past, BehindGuard, IInv
<1> QED BY <1>1, AnswerKeeps

\* A connection that goes on to another stage it has the right to be in.
LEMMA GoesOn ==
  ASSUME IInv, NEW h \in Handlers, NEW s \in BehindGuard \cup {"handle"}, To(h, s),
         UNCHANGED <<config, server>>, handler[h].stage # "free",
         config.loopback => handler[h].req.from \in LocalClients,
         s = "handle" => (config.token => handler[h].req.token)
  PROVE  IInv'
<1> DEFINE x == [handler[h] EXCEPT !.stage = s]
<1>1. handler' = [handler EXCEPT ![h] = x]
  BY DEF To
<1>2. Permitted(x)
  BY StageOf DEF Permitted, Shown, Past, BehindGuard, IInv
<1> QED BY <1>1, <1>2, OneConnection

\* The middleware, stage by stage (server.go wrap, localhostOnly, rateLimit,
\* tokenAuth).
LEMMA MiddlewareKeeps ==
  ASSUME IInv, NEW h \in Handlers,
         LocalhostOnly(h) \/ ReadClock(h) \/ Allow(h) \/ TokenAuth(h)
  PROVE  IInv'
<1>1. CASE LocalhostOnly(h)
  <2>1. handler[h].stage = "guard" /\ UNCHANGED <<config, server>>
    BY <1>1 DEF LocalhostOnly
  <2>2. CASE ~AllowNonLoopback /\ handler[h].req.from \notin LocalClients
    BY <1>1, <2>1, <2>2, TurnedAway DEF LocalhostOnly
  <2>3. CASE AllowNonLoopback \/ handler[h].req.from \in LocalClients
    <3>1. To(h, "limit")
      BY <1>1, <2>3 DEF LocalhostOnly
    <3> QED BY <2>1, <2>3, <3>1, GoesOn DEF AllowNonLoopback, BehindGuard
  <2> QED BY <2>2, <2>3
<1>2. CASE ReadClock(h)
  <2> DEFINE x == [[handler[h] EXCEPT !.stage = "locking"] EXCEPT !.stamp = clock]
  <2>1. handler' = [handler EXCEPT ![h] = x] /\ UNCHANGED <<config, server>>
    BY <1>2 DEF ReadClock
  <2>2. handler[h].stage = "limit" /\ Permitted(handler[h])
    BY <1>2 DEF ReadClock, IInv, Permitted
  <2>3. x.stage = "locking" /\ x.req = handler[h].req /\ DOMAIN x = Fields
    BY <2>2 DEF Permitted, Shown, Fields
  <2>4. Permitted(x)
    BY <2>2, <2>3 DEF Permitted, Shown, Past, BehindGuard
  <2> QED BY <2>1, <2>4, OneConnection
<1>3. CASE Allow(h)
  <2>1. handler[h].stage = "locking" /\ UNCHANGED <<config, server>>
    BY <1>3 DEF Allow
  <2>2. config.loopback => handler[h].req.from \in LocalClients
    BY <2>1 DEF IInv, Permitted, Shown, BehindGuard
  <2>3. To(h, "auth") \/ Answered(h, 429)
    BY <1>3 DEF Allow
  <2>4. CASE To(h, "auth")
    BY <2>1, <2>2, <2>4, GoesOn DEF BehindGuard
  <2>5. CASE Answered(h, 429)
    BY <2>1, <2>5, TurnedAway
  <2> QED BY <2>3, <2>4, <2>5
<1>4. CASE TokenAuth(h)
  <2>1. handler[h].stage = "auth" /\ UNCHANGED <<config, server>>
    BY <1>4 DEF TokenAuth
  <2>2. config.loopback => handler[h].req.from \in LocalClients
    BY <2>1 DEF IInv, Permitted, Shown, BehindGuard
  <2>3. CASE config.token /\ ~handler[h].req.token
    BY <1>4, <2>1, <2>3, TurnedAway DEF TokenAuth
  <2>4. CASE ~(config.token /\ ~handler[h].req.token)
    <3>1. To(h, "handle")
      BY <1>4, <2>4 DEF TokenAuth
    <3> QED BY <2>1, <2>2, <2>4, <3>1, GoesOn
  <2> QED BY <2>3, <2>4
<1> QED BY <1>1, <1>2, <1>3, <1>4

\* The handlers act on connections the middleware has let through
\* (server.go handleStatus, handleScan, handlePolicyCheck).
LEMMA HandlersKeep ==
  ASSUME IInv, NEW h \in Handlers,
         HandleStatus(h) \/ HandleScan(h) \/ FinishScan(h) \/ HandlePolicy(h)
  PROVE  IInv'
<1>1. Past(handler[h]) /\ UNCHANGED <<config, server>>
  BY DEF HandleStatus, HandleScan, FinishScan, HandlePolicy, Past
<1>2. CASE \E status : Answered(h, status)
  BY <1>1, <1>2, HandlerAnswers
<1>3. CASE HandleScan(h) /\ ~\E status : Answered(h, status)
  <2>1. PICK a : handler' = [handler EXCEPT ![h] =
                               [[handler[h] EXCEPT !.stage = "scanning"] EXCEPT !.answer = a]]
    BY <1>3 DEF HandleScan
  <2> DEFINE x == [[handler[h] EXCEPT !.stage = "scanning"] EXCEPT !.answer = a]
  <2>2. Permitted(handler[h])
    BY DEF IInv, Permitted
  <2>3. x.stage = "scanning" /\ x.req = handler[h].req /\ DOMAIN x = Fields
    BY <2>2 DEF Permitted, Shown, Fields
  <2>4. Permitted(x)
    BY <1>1, <2>2, <2>3 DEF Permitted, Shown, Past, BehindGuard
  <2> QED BY <1>1, <2>1, <2>4, OneConnection
<1> QED BY <1>2, <1>3 DEF HandleStatus, FinishScan, HandlePolicy

\* A connection comes in, or is freed again.
LEMMA ConnectionsKeep ==
  ASSUME IInv, NEW h \in Handlers, Write(h) \/ \E r \in Requests : Connect(h, r)
  PROVE  IInv'
<1>1. CASE Write(h)
  BY <1>1, OneConnection, FreeIsPermitted DEF Write
<1>2. ASSUME NEW r \in Requests, Connect(h, r) PROVE IInv'
  <2> DEFINE x == [[Free EXCEPT !.stage = "guard"] EXCEPT !.req = r]
  <2>1. server = "up" /\ handler' = [handler EXCEPT ![h] = x] /\ UNCHANGED <<config, server>>
    BY <1>2 DEF Connect
  <2>2. x.stage = "guard" /\ DOMAIN x = Fields
    BY DEF Free, Fields
  <2>3. Permitted(x)
    BY <2>1, <2>2 DEF Permitted, Shown, Past, BehindGuard
  <2> QED BY <2>1, <2>3, OneConnection
<1> QED BY <1>1, <1>2

LEMMA NextIInv == IInv /\ [Next]_vars => IInv'
<1> SUFFICES ASSUME IInv, [Next]_vars PROVE IInv'
  OBVIOUS
<1>1. CASE UNCHANGED vars
  BY <1>1 DEF vars, IInv
<1>2. CASE Serve
  <2>1. server = "down" /\ handler' = handler /\ config' = config
    BY <1>2 DEF Serve
  <2>2. server' = "up" => MayListen(config')
    BY <1>2, <2>1 DEF Serve
  <2>3. \A h \in Handlers : Shown(handler'[h], config', server')
    BY <2>1 DEF IInv, Shown
  <2> QED BY <2>1, <2>2, <2>3 DEF IInv
<1>3. CASE Tick
  BY <1>3 DEF Tick, IInv
<1> QED BY <1>1, <1>2, <1>3, MiddlewareKeeps, HandlersKeep, ConnectionsKeep DEF Next

\* A request gets past the middleware only with the token, if there is one,
\* and from elsewhere than loopback only with the token and over TLS.
THEOREM OnlyAuthorizedTheorem == Spec => []OnlyAuthorized
<1>1. IInv => OnlyAuthorized
  <2> SUFFICES ASSUME IInv, NEW h \in Handlers, PastMiddleware(h)
               PROVE  /\ config.token => handler[h].req.token
                      /\ handler[h].req.from \notin LocalClients => config.token /\ config.tls
    BY DEF OnlyAuthorized
  <2>1. Past(handler[h]) /\ Permitted(handler[h])
    BY DEF PastMiddleware, Past, IInv, Permitted
  <2>2. MayListen(config)
    BY <2>1 DEF Permitted, Shown, Past, IInv
  <2> QED BY <2>1, <2>2 DEF Permitted, Shown, MayListen
<1> QED BY <1>1, InitIInv, NextIInv, PTL DEF Spec

-----------------------------------------------------------------------------
(* The rate limiter.  The level of a bucket is its tokens less the time of *)
(* its last use.  No request ever raises it, however old its reading of    *)
(* the clock: what a client may still be given is bounded by the level.    *)

Level(c) == buckets[c].tokens - buckets[c].last

\* The requests that will come to the lock with a reading from before a time.
Late(s) == {h \in Handlers : handler[h].stage = "locking" /\ handler[h].stamp < s}

\* The others: at most so many late ones have been let through since that time.
Delayed(s) == Cardinality(Handlers) - Cardinality(Late(s))

RequestsAreMade ==
    \A h \in Handlers :
        /\ handler[h].stage # "free" => handler[h].req.from \in Clients
        /\ handler[h].stage = "locking" => handler[h].stamp \in 0..clock

CountsAddUp ==
    /\ clock \in 0..MaxTime
    /\ DOMAIN admitted = Clients
    /\ \A c \in Clients : admitted[c] \in [0..MaxTime -> Nat]
    /\ \A c \in Clients : \A t \in 0..MaxTime :
          /\ admitted[c][t] <= admitted[c][clock]
          /\ t >= clock => admitted[c][t] = admitted[c][clock]

BucketIsLegal(c) ==
    buckets[c] # NoBucket => /\ buckets[c].tokens \in Int
                             /\ buckets[c].last \in 0..clock
                             /\ Level(c) >= -clock

\* What has been let through since a time, but for delayed requests, shows in
\* the level.
LevelShows(c) ==
    \A s \in 0..clock :
        IF buckets[c] = NoBucket THEN AdmittedBetween(c, s, clock) = 0
        ELSE \/ AdmittedBetween(c, s, clock) <= Delayed(s)
             \/ AdmittedBetween(c, s, clock) <= Delayed(s) + Capacity - s - Level(c)

\* What the level has lost since some time has been let through.
LevelIsSpent(c) ==
    buckets[c] # NoBucket =>
        \E s \in 0..clock : AdmittedBetween(c, s, clock) >= Capacity - s - Level(c)

RInv ==
    /\ CountsAddUp /\ RequestsAreMade /\ DOMAIN buckets = Clients
    /\ \A c \in Clients : BucketIsLegal(c) /\ LevelShows(c) /\ LevelIsSpent(c)
    /\ RateIsBounded

\* No more connections are late than there are.
LEMMA DelayedIsBounded ==
  ASSUME NEW s
  PROVE  /\ IsFiniteSet(Late(s)) /\ Cardinality(Late(s)) \in Nat
         /\ Cardinality(Handlers) \in Nat
         /\ Delayed(s) \in 0..Cardinality(Handlers)
         /\ Delayed(s)' \in 0..Cardinality(Handlers)
<1>1. \A S \in SUBSET Handlers : /\ IsFiniteSet(S) /\ Cardinality(S) \in Nat
                                 /\ Cardinality(S) <= Cardinality(Handlers)
  BY ConnectionsAreFinite, FS_Subset, FS_CardinalityType
<1>2. Cardinality(Handlers) \in Nat
  BY ConnectionsAreFinite, FS_CardinalityType
<1>3. Late(s) \in SUBSET Handlers /\ Late(s)' \in SUBSET Handlers
  BY DEF Late
<1>4. /\ Cardinality(Late(s)) \in Nat /\ Cardinality(Late(s)) <= Cardinality(Handlers)
      /\ Cardinality(Late(s)') \in Nat /\ Cardinality(Late(s)') <= Cardinality(Handlers)
  BY <1>1, <1>3
<1>5. Delayed(s) \in 0..Cardinality(Handlers) /\ Delayed(s)' \in 0..Cardinality(Handlers)
  BY <1>2, <1>4 DEF Delayed
<1> QED BY <1>1, <1>2, <1>3, <1>5

\* Counts are numbers.
LEMMA CountType ==
  ASSUME CountsAddUp, NEW c \in Clients, NEW t \in 0..MaxTime, NEW s \in 0..MaxTime
  PROVE  AdmittedBetween(c, s, t) \in Int
<1>1. admitted[c] \in [0..MaxTime -> Nat]
  BY DEF CountsAddUp
<1>2. s # 0 => s - 1 \in 0..MaxTime
  BY BoundsAreNatural
<1>3. admitted[c][t] \in Nat
  BY <1>1
<1>4. s # 0 => admitted[c][s - 1] \in Nat
  BY <1>1, <1>2
<1> QED BY <1>3, <1>4 DEF AdmittedBetween

LEMMA InitRInv == Init => RInv
<1> SUFFICES ASSUME Init PROVE RInv
  OBVIOUS
<1>1. /\ clock = 0 /\ buckets = [c \in Clients |-> NoBucket]
      /\ handler = [h \in Handlers |-> Free]
      /\ admitted = [c \in Clients |-> [t \in 0..MaxTime |-> 0]]
  BY DEF Init
<1>2. CountsAddUp /\ RequestsAreMade
  BY <1>1, BoundsAreNatural DEF CountsAddUp, RequestsAreMade, Free
<1>3. \A c \in Clients : \A s, t \in 0..0 : AdmittedBetween(c, s, t) = 0
  BY <1>1, BoundsAreNatural DEF AdmittedBetween
<1>4. \A c \in Clients : BucketIsLegal(c) /\ LevelShows(c) /\ LevelIsSpent(c)
  BY <1>1, <1>3 DEF BucketIsLegal, LevelShows, LevelIsSpent
<1>5. RateIsBounded
  BY <1>1, <1>3, DelayedIsBounded, BoundsAreNatural DEF RateIsBounded
<1> QED BY <1>1, <1>2, <1>4, <1>5 DEF RInv

\* Nothing happens to the limiter, and no late request appears or is decided.
LEMMA LimiterKept ==
  ASSUME RInv, UNCHANGED <<clock, buckets, admitted>>, RequestsAreMade',
         \A s \in 0..clock : Late(s)' = Late(s)
  PROVE  RInv'
<1>1. \A c, s, t : AdmittedBetween(c, s, t)' = AdmittedBetween(c, s, t)
  BY DEF AdmittedBetween
<1>2. \A s \in 0..clock : Delayed(s)' = Delayed(s)
  BY DEF Delayed
<1>3. CountsAddUp' /\ RateIsBounded'
  BY <1>1 DEF RInv, CountsAddUp, RateIsBounded
<1>4. ASSUME NEW c \in Clients PROVE BucketIsLegal(c)' /\ LevelShows(c)' /\ LevelIsSpent(c)'
  <2>1. Level(c)' = Level(c)
    BY DEF Level
  <2> QED BY <1>1, <1>2, <2>1 DEF RInv, BucketIsLegal, LevelShows, LevelIsSpent
<1> QED BY <1>3, <1>4 DEF RInv

\* One connection goes on, and is not at the lock before or after.
LEMMA AwayFromLock ==
  ASSUME RInv, NEW h \in Handlers, NEW x, DOMAIN handler = Handlers,
         handler' = [handler EXCEPT ![h] = x], UNCHANGED <<clock, buckets, admitted>>,
         handler[h].stage # "locking", x.stage # "locking",
         x.stage # "free" => x.req.from \in Clients
  PROVE  RInv'
<1>1. RequestsAreMade'
  BY DEF RInv, RequestsAreMade
<1>2. \A s : Late(s)' = Late(s)
  BY DEF Late
<1> QED BY <1>1, <1>2, LimiterKept

\* What a step does to its own connection, as the limiter sees it.
LEMMA StageGoesOn ==
  ASSUME IInv, RInv, NEW h \in Handlers, NEW s, To(h, s), s \notin {"locking", "free"},
         UNCHANGED <<clock, buckets, admitted>>, handler[h].stage \notin {"locking", "free"}
  PROVE  RInv'
<1> DEFINE x == [handler[h] EXCEPT !.stage = s]
<1>1. handler' = [handler EXCEPT ![h] = x] /\ DOMAIN handler = Handlers
  BY DEF To, IInv
<1>2. x.stage = s /\ x.req = handler[h].req
  BY StageOf
<1>3. handler[h].req.from \in Clients
  BY DEF RInv, RequestsAreMade
<1> HIDE DEF x
<1> QED BY <1>1, <1>2, <1>3, AwayFromLock

LEMMA IsAnswered ==
  ASSUME IInv, RInv, NEW h \in Handlers, NEW status, Answered(h, status),
         UNCHANGED <<clock, buckets, admitted>>, handler[h].stage \notin {"locking", "free"}
  PROVE  RInv'
<1> DEFINE x == Answer(h, status)
<1>1. handler' = [handler EXCEPT ![h] = x] /\ DOMAIN handler = Handlers
  BY DEF Answered, IInv
<1>2. x.stage = "answering" /\ x.req = handler[h].req
  BY AnswerOf
<1>3. handler[h].req.from \in Clients
  BY DEF RInv, RequestsAreMade
<1> HIDE DEF x
<1> QED BY <1>1, <1>2, <1>3, AwayFromLock

\* The steps that have nothing to do with the limiter.
LEMMA OthersKeepRInv ==
  ASSUME IInv, RInv, NEW h \in Handlers,
         \/ \E r \in Requests : Connect(h, r)
         \/ LocalhostOnly(h) \/ TokenAuth(h) \/ Write(h)
         \/ HandleStatus(h) \/ HandleScan(h) \/ FinishScan(h) \/ HandlePolicy(h)
  PROVE  RInv'
<1>1. ASSUME NEW r \in Requests, Connect(h, r) PROVE RInv'
  <2> DEFINE x == [[Free EXCEPT !.stage = "guard"] EXCEPT !.req = r]
  <2>1. /\ handler' = [handler EXCEPT ![h] = x] /\ handler[h].stage = "free"
        /\ UNCHANGED <<clock, buckets, admitted>>
    BY <1>1 DEF Connect
  <2>2. x.stage = "guard" /\ x.req = r
    BY DEF Free
  <2>3. r.from \in Clients /\ DOMAIN handler = Handlers
    BY ClientsAreKnown DEF IInv
  <2> HIDE DEF x
  <2> QED BY <2>1, <2>2, <2>3, AwayFromLock
<1>2. CASE Write(h)
  <2>1. Free.stage = "free" /\ handler' = [handler EXCEPT ![h] = Free]
    BY <1>2 DEF Free, Write
  <2> QED BY <1>2, <2>1, AwayFromLock DEF Write, IInv
<1>3. CASE LocalhostOnly(h)
  <2>1. /\ handler[h].stage = "guard" /\ UNCHANGED <<clock, buckets, admitted>>
        /\ Answered(h, 403) \/ To(h, "limit")
    BY <1>3 DEF LocalhostOnly
  <2> QED BY <2>1, StageGoesOn, IsAnswered
<1>4. CASE TokenAuth(h)
  <2>1. /\ handler[h].stage = "auth" /\ UNCHANGED <<clock, buckets, admitted>>
        /\ Answered(h, 401) \/ To(h, "handle")
    BY <1>4 DEF TokenAuth
  <2> QED BY <2>1, StageGoesOn, IsAnswered
<1>5. CASE \E status : Answered(h, status) /\ (HandleStatus(h) \/ HandleScan(h)
                                               \/ FinishScan(h) \/ HandlePolicy(h))
  <2>1. handler[h].stage \in {"handle", "scanning"} /\ UNCHANGED <<clock, buckets, admitted>>
    BY <1>5 DEF HandleStatus, HandleScan, FinishScan, HandlePolicy
  <2> QED BY <1>5, <2>1, IsAnswered
<1>6. CASE HandleScan(h) /\ ~\E status : Answered(h, status)
  <2>1. PICK a : handler' = [handler EXCEPT ![h] =
                               [[handler[h] EXCEPT !.stage = "scanning"] EXCEPT !.answer = a]]
    BY <1>6 DEF HandleScan
  <2> DEFINE x == [[handler[h] EXCEPT !.stage = "scanning"] EXCEPT !.answer = a]
  <2>2. handler[h].stage = "handle" /\ UNCHANGED <<clock, buckets, admitted>>
    BY <1>6 DEF HandleScan
  <2>3. x.stage = "scanning" /\ x.req = handler[h].req /\ DOMAIN handler = Handlers
    BY DEF IInv, Shown, Fields
  <2>4. handler[h].req.from \in Clients
    BY <2>2 DEF RInv, RequestsAreMade
  <2> HIDE DEF x
  <2> QED BY <2>1, <2>2, <2>3, <2>4, AwayFromLock DEF x
<1>7. HandleStatus(h) \/ FinishScan(h) \/ HandlePolicy(h) => \E status : Answered(h, status)
  BY DEF HandleStatus, FinishScan, HandlePolicy
<1> QED BY <1>1, <1>2, <1>3, <1>4, <1>5, <1>6, <1>7

\* A reading of the clock is late for no time up to now.
LEMMA ReadClockKeepsRInv ==
  ASSUME IInv, RInv, NEW h \in Handlers, ReadClock(h)
  PROVE  RInv'
<1> DEFINE x == [[handler[h] EXCEPT !.stage = "locking"] EXCEPT !.stamp = clock]
<1>1. /\ handler' = [handler EXCEPT ![h] = x] /\ UNCHANGED <<clock, buckets, admitted>>
      /\ handler[h].stage = "limit" /\ DOMAIN handler = Handlers
  BY DEF ReadClock, IInv
<1>2. x.stage = "locking" /\ x.stamp = clock /\ x.req = handler[h].req
  BY DEF IInv, Shown, Fields
<1>3. clock \in 0..clock /\ clock \in Nat
  BY BoundsAreNatural DEF RInv, CountsAddUp
<1> HIDE DEF x
<1>4. RequestsAreMade'
  BY <1>1, <1>2, <1>3 DEF RInv, RequestsAreMade
<1>5. \A s \in 0..clock : Late(s)' = Late(s)
  BY <1>1, <1>2, <1>3 DEF Late
<1> QED BY <1>1, <1>4, <1>5, LimiterKept

\* Time refills.
LEMMA TickKeepsRInv ==
  ASSUME RInv, Tick
  PROVE  RInv'
<1>1. /\ clock' = clock + 1 /\ clock < MaxTime /\ UNCHANGED <<buckets, handler, admitted>>
      /\ clock \in Nat /\ clock' \in 0..MaxTime /\ MaxTime \in Nat
  BY BoundsAreNatural DEF Tick, RInv, CountsAddUp
<1>2. \A c \in Clients : /\ admitted[c][clock + 1] = admitted[c][clock]
                         /\ \A t \in 0..MaxTime :
                               /\ admitted[c][t] <= admitted[c][clock]
                               /\ t >= clock => admitted[c][t] = admitted[c][clock]
  BY <1>1 DEF RInv, CountsAddUp
<1>3. CountsAddUp' /\ RequestsAreMade'
  BY <1>1, <1>2 DEF RInv, CountsAddUp, RequestsAreMade
<1>4. \A c, s, t : AdmittedBetween(c, s, t)' = AdmittedBetween(c, s, t)
  BY <1>1 DEF AdmittedBetween
<1>5. \A s : Delayed(s)' = Delayed(s)
  BY <1>1 DEF Delayed, Late
<1>6. ASSUME NEW c \in Clients
      PROVE  /\ \A s \in 0..clock : AdmittedBetween(c, s, clock + 1) = AdmittedBetween(c, s, clock)
             /\ AdmittedBetween(c, clock + 1, clock + 1) = 0
  <2>1. admitted[c][clock + 1] = admitted[c][clock] /\ admitted[c][clock] \in Nat
    BY <1>1, <1>2 DEF RInv, CountsAddUp
  <2>2. (clock + 1) - 1 = clock /\ clock + 1 # 0
    BY <1>1
  <2> QED BY <2>1, <2>2 DEF AdmittedBetween
<1>7. ASSUME NEW c \in Clients PROVE BucketIsLegal(c)' /\ LevelShows(c)' /\ LevelIsSpent(c)'
  <2>1. Level(c)' = Level(c)
    BY <1>1 DEF Level
  <2>2. BucketIsLegal(c) /\ LevelShows(c) /\ LevelIsSpent(c)
    BY DEF RInv
  <2>3. BucketIsLegal(c)'
    BY <1>1, <2>1, <2>2 DEF BucketIsLegal, Level
  <2>4. LevelShows(c)'
    <3> SUFFICES ASSUME NEW s \in 0..(clock + 1)
                 PROVE  IF buckets[c] = NoBucket THEN AdmittedBetween(c, s, clock + 1) = 0
                        ELSE \/ AdmittedBetween(c, s, clock + 1) <= Delayed(s)
                             \/ AdmittedBetween(c, s, clock + 1) <= Delayed(s) + Capacity - s - Level(c)
      BY <1>1, <1>4, <1>5, <2>1 DEF LevelShows
    <3>1. CASE s \in 0..clock
      BY <1>6, <2>2, <3>1 DEF LevelShows
    <3>2. CASE s = clock + 1
      BY <1>6, <3>2, DelayedIsBounded
    <3> QED BY <1>1, <3>1, <3>2
  <2>5. LevelIsSpent(c)'
    <3>1. \A s \in 0..clock : s \in 0..(clock + 1)
      BY <1>1
    <3> QED BY <1>1, <1>4, <1>6, <2>1, <2>2, <3>1 DEF LevelIsSpent
  <2> QED BY <2>3, <2>4, <2>5
<1>8. RateIsBounded'
  <2> SUFFICES ASSUME NEW c \in Clients, NEW s \in 0..(clock + 1), NEW t \in s..(clock + 1)
               PROVE  AdmittedBetween(c, s, t) <= Capacity + (t - s) + Cardinality(Handlers)
    BY <1>1, <1>4 DEF RateIsBounded
  <2>1. Cardinality(Handlers) \in Nat /\ Capacity \in Nat
    BY DelayedIsBounded, BoundsAreNatural
  <2>2. CASE t \in s..clock
    <3>1. s \in 0..clock
      BY <1>1, <2>2
    <3> QED BY <2>2, <3>1 DEF RInv, RateIsBounded
  <2>3. CASE t = clock + 1 /\ s \in 0..clock
    <3>1. AdmittedBetween(c, s, clock) <= Capacity + (clock - s) + Cardinality(Handlers)
      BY <1>1, <2>3 DEF RInv, RateIsBounded
    <3>2. AdmittedBetween(c, s, t) = AdmittedBetween(c, s, clock)
      BY <1>6, <2>3
    <3>3. AdmittedBetween(c, s, clock) \in Int
      BY <1>1, <2>3, CountType DEF RInv
    <3> QED BY <1>1, <2>1, <2>3, <3>1, <3>2, <3>3
  <2>4. CASE t = clock + 1 /\ s = clock + 1
    BY <1>1, <1>6, <2>1, <2>4
  <2> QED BY <1>1, <2>2, <2>3, <2>4
<1> QED BY <1>1, <1>3, <1>7, <1>8 DEF RInv

\* The limiter lets a request of a client through.
Counted(c) ==
    admitted' = [admitted EXCEPT ![c] =
                   [t \in 0..MaxTime |-> IF t < clock THEN @[t] ELSE @[t] + 1]]

\* Every time up to now counts one more.
LEMMA CountedAddsOne ==
  ASSUME CountsAddUp, NEW c \in Clients, Counted(c), UNCHANGED clock
  PROVE  /\ CountsAddUp'
         /\ \A s \in 0..clock : AdmittedBetween(c, s, clock)' = AdmittedBetween(c, s, clock) + 1
         /\ \A s, t \in 0..clock : t < clock /\ s <= t =>
               AdmittedBetween(c, s, t)' = AdmittedBetween(c, s, t)
         /\ \A d \in Clients : d # c => admitted'[d] = admitted[d]
<1> DEFINE f == [t \in 0..MaxTime |-> IF t < clock THEN admitted[c][t] ELSE admitted[c][t] + 1]
<1>1. /\ admitted' = [admitted EXCEPT ![c] = f] /\ DOMAIN admitted = Clients
      /\ clock \in 0..MaxTime /\ clock \in Nat /\ MaxTime \in Nat
  BY BoundsAreNatural DEF Counted, CountsAddUp
<1>2. admitted'[c] = f /\ \A d \in Clients : d # c => admitted'[d] = admitted[d]
  BY <1>1
<1>3. admitted[c] \in [0..MaxTime -> Nat]
  BY DEF CountsAddUp
<1>4. /\ \A t \in 0..MaxTime : t < clock => f[t] = admitted[c][t]
      /\ \A t \in 0..MaxTime : t >= clock => f[t] = admitted[c][t] + 1
      /\ f \in [0..MaxTime -> Nat]
  BY <1>1, <1>3
<1> HIDE DEF f
<1>5. CountsAddUp'
  <2>1. \A t \in 0..MaxTime : /\ admitted[c][t] <= admitted[c][clock]
                              /\ t >= clock => admitted[c][t] = admitted[c][clock]
    BY DEF CountsAddUp
  <2>2. \A t \in 0..MaxTime : f[t] <= f[clock] /\ (t >= clock => f[t] = f[clock])
    BY <1>1, <1>3, <1>4, <2>1
  <2>3. \A d \in Clients :
          /\ admitted'[d] \in [0..MaxTime -> Nat]
          /\ \A t \in 0..MaxTime : /\ admitted'[d][t] <= admitted'[d][clock]
                                   /\ t >= clock => admitted'[d][t] = admitted'[d][clock]
    <3>1. ASSUME NEW d \in Clients, d # c
          PROVE  /\ admitted'[d] = admitted[d] /\ admitted[d] \in [0..MaxTime -> Nat]
                 /\ \A t \in 0..MaxTime : /\ admitted[d][t] <= admitted[d][clock]
                                          /\ t >= clock => admitted[d][t] = admitted[d][clock]
      BY <1>2, <3>1 DEF CountsAddUp
    <3> QED BY <1>2, <1>4, <2>2, <3>1
  <2>4. \A d \in Clients : \A t \in 0..MaxTime :
          /\ admitted'[d][t] <= admitted'[d][clock']
          /\ t >= clock' => admitted'[d][t] = admitted'[d][clock']
    BY <2>3
  <2>5. clock' \in 0..MaxTime /\ DOMAIN admitted' = Clients
    BY <1>1
  <2> QED BY <2>3, <2>4, <2>5 DEF CountsAddUp
<1>6. ASSUME NEW s \in 0..clock
      PROVE  AdmittedBetween(c, s, clock)' = AdmittedBetween(c, s, clock) + 1
  <2>1. admitted'[c][clock] = admitted[c][clock] + 1 /\ admitted[c][clock] \in Nat
    BY <1>1, <1>2, <1>3, <1>4
  <2>2. s # 0 => s - 1 \in 0..MaxTime /\ s - 1 < clock
    BY <1>1
  <2>3. s # 0 => admitted'[c][s - 1] = admitted[c][s - 1] /\ admitted[c][s - 1] \in Nat
    BY <1>2, <1>3, <1>4, <2>2
  <2> QED BY <2>1, <2>3 DEF AdmittedBetween
<1>7. ASSUME NEW s \in 0..clock, NEW t \in 0..clock, t < clock, s <= t
      PROVE  AdmittedBetween(c, s, t)' = AdmittedBetween(c, s, t)
  <2>1. admitted'[c][t] = admitted[c][t]
    BY <1>1, <1>2, <1>4, <1>7
  <2>2. s # 0 => s - 1 \in 0..MaxTime /\ s - 1 < clock
    BY <1>1
  <2>3. s # 0 => admitted'[c][s - 1] = admitted[c][s - 1]
    BY <1>2, <1>4, <2>2
  <2> QED BY <2>1, <2>3 DEF AdmittedBetween
<1> QED BY <1>2, <1>5, <1>6, <1>7

\* What a request at the lock does to the level of its client's bucket: let
\* through, it lowers the level by one or brings it to what a full bucket has
\* left; refused, it leaves the level where it is.
LetThrough(c, now) ==
    /\ Counted(c)
    /\ Level(c)' <= Capacity - now - 1
    /\ buckets[c] # NoBucket => Level(c)' <= Level(c) - 1
    /\ \/ Level(c)' = Capacity - now - 1
       \/ buckets[c] # NoBucket /\ Level(c)' = Level(c) - 1

TurnedDown(c, now) ==
    /\ UNCHANGED admitted
    /\ buckets[c] # NoBucket /\ Level(c)' = Level(c)
    /\ Level(c) <= -now

LEMMA AllowMovesLevel ==
  ASSUME RInv, NEW h \in Handlers, Allow(h),
         NEW c, c = handler[h].req.from, NEW now, now = handler[h].stamp
  PROVE  /\ c \in Clients /\ now \in 0..clock
         /\ DOMAIN buckets' = Clients
         /\ \A d \in Clients : d # c => buckets'[d] = buckets[d]
         /\ BucketIsLegal(c)' /\ buckets'[c] # NoBucket
         /\ \/ LetThrough(c, now) /\ To(h, "auth")
            \/ TurnedDown(c, now) /\ Answered(h, 429)
<1> DEFINE tokens == IF buckets[c] = NoBucket THEN Capacity ELSE Refilled(buckets[c], now)
<1> DEFINE b == Admission(buckets[c], tokens, now)
<1>1. /\ handler[h].stage = "locking" /\ UNCHANGED clock
      /\ buckets' = [buckets EXCEPT ![c] = b]
      /\ \/ tokens >= 1 /\ Counted(c) /\ To(h, "auth")
         \/ tokens < 1 /\ UNCHANGED admitted /\ Answered(h, 429)
  BY DEF Allow, Counted
<1>2. c \in Clients /\ now \in 0..clock /\ clock \in Nat /\ DOMAIN buckets = Clients
  BY <1>1, BoundsAreNatural DEF RInv, RequestsAreMade, CountsAddUp
<1>3. buckets'[c] = b /\ DOMAIN buckets' = Clients
      /\ \A d \in Clients : d # c => buckets'[d] = buckets[d]
  BY <1>1, <1>2
<1>4. /\ b.tokens = (IF tokens >= 1 THEN tokens - 1 ELSE tokens) /\ b.last = now
  BY DEF Admission
<1>5. b # NoBucket
  <2>1. NoBucket.last = -1 /\ now # -1
    BY <1>2 DEF NoBucket
  <2> QED BY <1>4, <2>1, Zenon
<1>6. Capacity \in Nat /\ Capacity >= 1
  BY BoundsAreNatural
<1>7. Level(c)' = b.tokens - now
  BY <1>3, <1>4 DEF Level
<1>8. CASE buckets[c] = NoBucket
  <2>1. tokens = Capacity
    BY <1>8
  <2> HIDE DEF tokens, b
  <2>2. b.tokens = Capacity - 1 /\ tokens >= 1
    BY <1>4, <1>6, <2>1
  <2>3. LetThrough(c, now) /\ To(h, "auth")
    BY <1>1, <1>2, <1>6, <1>7, <1>8, <2>1, <2>2 DEF LetThrough
  <2>4. BucketIsLegal(c)'
    BY <1>1, <1>2, <1>3, <1>4, <1>6, <1>7, <2>2 DEF BucketIsLegal
  <2> QED BY <1>2, <1>3, <1>5, <2>3, <2>4
<1>9. CASE buckets[c] # NoBucket
  <2> DEFINE earned == buckets[c].tokens + (now - buckets[c].last)
  <2>1. /\ buckets[c].tokens \in Int /\ buckets[c].last \in 0..clock
        /\ Level(c) >= -clock
    BY <1>2, <1>9 DEF RInv, BucketIsLegal
  <2>2. tokens = IF earned > Capacity THEN Capacity ELSE earned
    BY <1>9 DEF Refilled
  <2>3. earned = Level(c) + now /\ Level(c) \in Int
    <3>1. Level(c) = buckets[c].tokens - buckets[c].last
      BY <1>9 DEF Level
    <3>2. buckets[c].tokens \in Int /\ buckets[c].last \in Int /\ now \in Int
      BY <1>2, <2>1
    <3>3. \A t, l, n \in Int : t + (n - l) = (t - l) + n /\ t - l \in Int
      OBVIOUS
    <3>4. earned = (buckets[c].tokens - buckets[c].last) + now
      BY <3>2, <3>3
    <3>5. buckets[c].tokens - buckets[c].last \in Int
      BY <3>2, <3>3
    <3> HIDE DEF earned
    <3> QED BY <3>1, <3>4, <3>5
  <2> HIDE DEF tokens, b, earned
  <2>4. tokens \in Int /\ earned \in Int
    BY <1>2, <1>6, <2>2, <2>3
  <2>5. BucketIsLegal(c)'
    <3>1. b.tokens \in Int
      BY <1>4, <2>4
    <3>2. b.tokens - now >= -clock
      BY <1>2, <1>4, <1>6, <2>1, <2>2, <2>3, <2>4
    <3> QED BY <1>1, <1>2, <1>3, <1>4, <1>7, <3>1, <3>2 DEF BucketIsLegal
  <2>6. CASE tokens >= 1
    <3>1. b.tokens = tokens - 1
      BY <1>4, <2>6
    <3>2. Counted(c) /\ To(h, "auth")
      BY <1>1, <2>4, <2>6
    <3>3. /\ Level(c)' <= Capacity - now - 1 /\ Level(c)' <= Level(c) - 1
          /\ Level(c)' = Capacity - now - 1 \/ Level(c)' = Level(c) - 1
      BY <1>2, <1>6, <1>7, <2>2, <2>3, <2>4, <3>1
    <3> QED BY <1>2, <1>3, <1>5, <1>9, <2>5, <3>2, <3>3 DEF LetThrough
  <2>7. CASE tokens < 1
    <3>1. b.tokens = tokens /\ tokens = earned
      BY <1>4, <1>6, <2>2, <2>4, <2>7
    <3>2. UNCHANGED admitted /\ Answered(h, 429)
      BY <1>1, <2>4, <2>7
    <3>3. Level(c)' = Level(c) /\ Level(c) <= -now
      BY <1>2, <1>7, <2>3, <2>4, <2>7, <3>1
    <3> QED BY <1>2, <1>3, <1>5, <1>9, <2>5, <3>2, <3>3 DEF TurnedDown
  <2> QED BY <2>4, <2>6, <2>7
<1> QED BY <1>8, <1>9

\* The request leaves the lock: it is late for no time any more.
LEMMA LeavesLock ==
  ASSUME IInv, NEW h \in Handlers, handler[h].stage = "locking",
         handler[h].stamp \in Int, To(h, "auth") \/ Answered(h, 429)
  PROVE  /\ \A s \in Int : Delayed(s)' = IF handler[h].stamp < s THEN Delayed(s) + 1
                                        ELSE Delayed(s)
         /\ RequestsAreMade /\ UNCHANGED clock => RequestsAreMade'
<1>1. PICK x : /\ handler' = [handler EXCEPT ![h] = x]
               /\ x.stage \in {"auth", "answering"} /\ x.req = handler[h].req
  <2>1. CASE To(h, "auth")
    <3> DEFINE x == [handler[h] EXCEPT !.stage = "auth"]
    <3>1. handler' = [handler EXCEPT ![h] = x]
      BY <2>1 DEF To
    <3>2. x.stage = "auth" /\ x.req = handler[h].req
      BY StageOf
    <3> HIDE DEF x
    <3> QED BY <3>1, <3>2, Zenon
  <2>2. CASE Answered(h, 429)
    <3> DEFINE x == Answer(h, 429)
    <3>1. handler' = [handler EXCEPT ![h] = x]
      BY <2>2 DEF Answered
    <3>2. x.stage = "answering" /\ x.req = handler[h].req
      BY AnswerOf
    <3> HIDE DEF x
    <3> QED BY <3>1, <3>2, Zenon
  <2> QED BY <2>1, <2>2
<1>2. DOMAIN handler = Handlers
  BY DEF IInv
<1>3. RequestsAreMade /\ UNCHANGED clock => RequestsAreMade'
  BY <1>1, <1>2 DEF RequestsAreMade
<1>4. ASSUME NEW s \in Int
      PROVE  Delayed(s)' = IF handler[h].stamp < s THEN Delayed(s) + 1 ELSE Delayed(s)
  <2>1. IsFiniteSet(Late(s)) /\ Cardinality(Late(s)) \in Nat /\ Cardinality(Handlers) \in Nat
    BY DelayedIsBounded
  <2>2. CASE handler[h].stamp < s
    <3>1. Late(s)' = Late(s) \ {h} /\ h \in Late(s)
      BY <1>1, <1>2, <2>2 DEF Late
    <3>2. Cardinality(Late(s)') = Cardinality(Late(s)) - 1
      BY <2>1, <3>1, FS_RemoveElement
    <3> QED BY <2>1, <2>2, <3>2 DEF Delayed
  <2>3. CASE ~(handler[h].stamp < s)
    <3>1. Late(s)' = Late(s)
      BY <1>1, <1>2, <2>3 DEF Late
    <3> QED BY <2>3, <3>1 DEF Delayed
  <2> QED BY <2>2, <2>3
<1> QED BY <1>3, <1>4

\* A request at the lock adds one to what has been let through and takes one
\* from the level, or is one delayed request less.
LEMMA AllowKeepsRInv ==
  ASSUME IInv, RInv, NEW h \in Handlers, Allow(h)
  PROVE  RInv'
<1>1. PICK c, now : c = handler[h].req.from /\ now = handler[h].stamp
  OBVIOUS
<1>2. /\ c \in Clients /\ now \in 0..clock
      /\ DOMAIN buckets' = Clients
      /\ \A d \in Clients : d # c => buckets'[d] = buckets[d]
      /\ BucketIsLegal(c)' /\ buckets'[c] # NoBucket
  BY <1>1, AllowMovesLevel
<1>3. \/ LetThrough(c, now) /\ To(h, "auth")
      \/ TurnedDown(c, now) /\ Answered(h, 429)
  BY <1>1, AllowMovesLevel
<1>4. UNCHANGED clock /\ handler[h].stage = "locking" /\ clock \in Nat /\ clock \in 0..MaxTime
  <2>1. UNCHANGED clock /\ handler[h].stage = "locking"
    BY Zenon DEF Allow
  <2>2. clock \in 0..MaxTime
    BY DEF RInv, CountsAddUp
  <2> QED BY <2>1, <2>2, BoundsAreNatural
<1>5. /\ \A s \in Int : Delayed(s)' = IF now < s THEN Delayed(s) + 1 ELSE Delayed(s)
      /\ RequestsAreMade'
  BY <1>1, <1>2, <1>3, <1>4, LeavesLock DEF RInv
<1>6. /\ Cardinality(Handlers) \in Nat /\ Capacity \in Nat /\ Capacity >= 1
      /\ \A s : Delayed(s) \in 0..Cardinality(Handlers)
      /\ \A s : Delayed(s)' \in 0..Cardinality(Handlers)
  BY DelayedIsBounded, BoundsAreNatural
<1>7. Level(c)' \in Int /\ Level(c)' >= -clock
  BY <1>2, <1>4 DEF BucketIsLegal, Level
<1>8. /\ BucketIsLegal(c) /\ LevelShows(c) /\ LevelIsSpent(c)
      /\ CountsAddUp /\ RateIsBounded
      /\ buckets[c] # NoBucket => Level(c) \in Int
  BY <1>2, <1>4 DEF RInv, BucketIsLegal, Level
<1>9. \A s, t \in 0..clock : AdmittedBetween(c, s, t) \in Int
  <2>1. \A s \in 0..clock : s \in 0..MaxTime
    BY <1>4, BoundsAreNatural
  <2> QED BY <1>2, <1>8, <2>1, CountType
\* Other clients lose nothing by it.
<1>10. ASSUME NEW d \in Clients, d # c, admitted'[d] = admitted[d]
       PROVE  /\ BucketIsLegal(d)' /\ LevelShows(d)' /\ LevelIsSpent(d)'
              /\ \A s, t \in 0..clock : AdmittedBetween(d, s, t)' = AdmittedBetween(d, s, t)
  <2>1. BucketIsLegal(d) /\ LevelShows(d) /\ LevelIsSpent(d)
    BY DEF RInv
  <2>2. buckets'[d] = buckets[d] /\ Level(d)' = Level(d)
    BY <1>2, <1>10 DEF Level
  <2>3. \A s, t : AdmittedBetween(d, s, t)' = AdmittedBetween(d, s, t)
    BY <1>10 DEF AdmittedBetween
  <2>4. BucketIsLegal(d)' /\ LevelIsSpent(d)'
    BY <1>4, <2>1, <2>2, <2>3 DEF BucketIsLegal, LevelIsSpent
  <2>5. LevelShows(d)'
    <3> SUFFICES ASSUME NEW s \in 0..clock
                 PROVE  IF buckets[d] = NoBucket THEN AdmittedBetween(d, s, clock) = 0
                        ELSE \/ AdmittedBetween(d, s, clock) <= Delayed(s)'
                             \/ AdmittedBetween(d, s, clock) <= Delayed(s)' + Capacity - s - Level(d)
      BY <1>4, <2>2, <2>3 DEF LevelShows
    <3>1. Delayed(s) <= Delayed(s)' /\ Delayed(s) \in Int /\ Delayed(s)' \in Int
      BY <1>5, <1>6
    <3>2. AdmittedBetween(d, s, clock) \in Int
      <4>1. s \in 0..MaxTime
        BY <1>4, BoundsAreNatural
      <4> QED BY <1>4, <1>8, <4>1, CountType
    <3>3. buckets[d] # NoBucket => Level(d) \in Int
      BY <1>4, <2>1 DEF BucketIsLegal, Level
    <3> QED BY <1>4, <1>6, <2>1, <3>1, <3>2, <3>3 DEF LevelShows
  <2> QED BY <2>3, <2>4, <2>5
\* The request is let through.
<1>11. CASE LetThrough(c, now) /\ To(h, "auth")
  <2>1. /\ Level(c)' <= Capacity - now - 1
        /\ buckets[c] # NoBucket => Level(c)' <= Level(c) - 1
        /\ \/ Level(c)' = Capacity - now - 1
           \/ buckets[c] # NoBucket /\ Level(c)' = Level(c) - 1
    BY <1>11 DEF LetThrough
  <2>2. /\ CountsAddUp'
        /\ \A s \in 0..clock : AdmittedBetween(c, s, clock)' = AdmittedBetween(c, s, clock) + 1
        /\ \A s, t \in 0..clock : t < clock /\ s <= t =>
               AdmittedBetween(c, s, t)' = AdmittedBetween(c, s, t)
        /\ \A d \in Clients : d # c => admitted'[d] = admitted[d]
    BY <1>2, <1>4, <1>8, <1>11, CountedAddsOne DEF LetThrough
  <2>3. ASSUME NEW s \in 0..clock
        PROVE  \/ AdmittedBetween(c, s, clock)' <= Delayed(s)'
               \/ AdmittedBetween(c, s, clock)' <= Delayed(s)' + Capacity - s - Level(c)'
    <3>1. /\ AdmittedBetween(c, s, clock)' = AdmittedBetween(c, s, clock) + 1
          /\ AdmittedBetween(c, s, clock) \in Int
      BY <1>4, <1>9, <2>2
    <3>2. /\ Delayed(s)' = IF now < s THEN Delayed(s) + 1 ELSE Delayed(s)
          /\ Delayed(s) \in Nat
      BY <1>4, <1>5, <1>6
    <3>3. CASE buckets[c] = NoBucket
      <4>1. AdmittedBetween(c, s, clock) = 0
        BY <1>8, <3>3 DEF LevelShows
      <4> QED BY <1>2, <1>4, <1>6, <1>7, <2>1, <3>1, <3>2, <4>1
    <3>4. CASE buckets[c] # NoBucket
      <4>1. \/ AdmittedBetween(c, s, clock) <= Delayed(s)
            \/ AdmittedBetween(c, s, clock) <= Delayed(s) + Capacity - s - Level(c)
        BY <1>8, <3>4 DEF LevelShows
      <4>2. Level(c) \in Int /\ Level(c)' <= Level(c) - 1
        BY <1>8, <2>1, <3>4
      <4> QED BY <1>2, <1>4, <1>6, <1>7, <2>1, <3>1, <3>2, <4>1, <4>2
    <3> QED BY <3>3, <3>4
  <2>4. LevelShows(c)'
    BY <1>2, <1>4, <2>3 DEF LevelShows
  <2>5. LevelIsSpent(c)'
    <3>1. PICK s \in 0..clock : AdmittedBetween(c, s, clock)' >= Capacity - s - Level(c)'
      <4>1. CASE Level(c)' = Capacity - now - 1
        <5>1. AdmittedBetween(c, now, clock) >= 0
          <6>1. now # 0 => now - 1 \in 0..MaxTime
            BY <1>2, <1>4, BoundsAreNatural
          <6>2. /\ admitted[c][clock] \in Nat
                /\ now # 0 => /\ admitted[c][now - 1] \in Nat
                             /\ admitted[c][now - 1] <= admitted[c][clock]
            BY <1>2, <1>4, <1>8, <6>1 DEF CountsAddUp
          <6> QED BY <6>2 DEF AdmittedBetween
        <5>2. AdmittedBetween(c, now, clock)' >= 1
          BY <1>2, <1>4, <1>9, <2>2, <5>1
        <5>3. Capacity - now - Level(c)' = 1
          BY <1>2, <1>4, <1>6, <1>7, <4>1
        <5>4. AdmittedBetween(c, now, clock)' \in Int
          BY <1>2, <1>4, <1>9, <2>2
        <5>5. AdmittedBetween(c, now, clock)' >= Capacity - now - Level(c)'
          BY <5>2, <5>3, <5>4
        <5> QED BY <1>2, <5>5
      <4>2. CASE buckets[c] # NoBucket /\ Level(c)' = Level(c) - 1
        <5>1. PICK s \in 0..clock : AdmittedBetween(c, s, clock) >= Capacity - s - Level(c)
          BY <1>8, <4>2 DEF LevelIsSpent
        <5> QED BY <1>4, <1>6, <1>8, <1>9, <2>2, <4>2, <5>1
      <4> QED BY <2>1, <4>1, <4>2
    <3> QED BY <1>4, <3>1 DEF LevelIsSpent
  <2>6. RateIsBounded'
    <3>1. ASSUME NEW d \in Clients, NEW s \in 0..clock, NEW t \in s..clock
          PROVE  AdmittedBetween(d, s, t)' <= Capacity + (t - s) + Cardinality(Handlers)
      <4>1. AdmittedBetween(d, s, t) <= Capacity + (t - s) + Cardinality(Handlers)
        BY <1>8 DEF RateIsBounded
      <4>2. t \in 0..clock
        BY <1>4
      <4>3. CASE d # c
        BY <1>10, <2>2, <4>1, <4>2, <4>3
      <4>4. CASE d = c /\ t < clock
        BY <1>4, <2>2, <4>1, <4>2, <4>4
      <4>5. CASE d = c /\ t = clock
        <5>1. AdmittedBetween(c, s, clock)' \in Int
          BY <1>9, <1>4, <2>2
        <5>2. Delayed(s)' \in 0..Cardinality(Handlers)
          BY <1>6
        <5>3. AdmittedBetween(c, s, clock)' <= Capacity + (clock - s) + Cardinality(Handlers)
          BY <1>4, <1>6, <1>7, <2>3, <5>1, <5>2
        <5> QED BY <1>4, <4>5, <5>3
      <4> QED BY <1>4, <4>2, <4>3, <4>4, <4>5
    <3> QED BY <1>4, <3>1 DEF RateIsBounded
  <2>7. \A d \in Clients : BucketIsLegal(d)' /\ LevelShows(d)' /\ LevelIsSpent(d)'
    BY <1>2, <1>10, <2>2, <2>4, <2>5
  <2> QED BY <1>2, <1>5, <2>2, <2>6, <2>7 DEF RInv
\* The request is refused: nothing is counted and the level stays.
<1>12. CASE TurnedDown(c, now) /\ Answered(h, 429)
  <2>1. UNCHANGED admitted /\ buckets[c] # NoBucket /\ Level(c)' = Level(c)
    BY <1>12 DEF TurnedDown
  <2>2. \A d, s, t : AdmittedBetween(d, s, t)' = AdmittedBetween(d, s, t)
    BY <2>1 DEF AdmittedBetween
  <2>3. CountsAddUp' /\ RateIsBounded'
    BY <1>4, <1>8, <2>1, <2>2 DEF CountsAddUp, RateIsBounded
  <2>4. LevelIsSpent(c)'
    BY <1>2, <1>4, <1>8, <2>1, <2>2 DEF LevelIsSpent
  <2>5. LevelShows(c)'
    <3> SUFFICES ASSUME NEW s \in 0..clock
                 PROVE  \/ AdmittedBetween(c, s, clock) <= Delayed(s)'
                        \/ AdmittedBetween(c, s, clock) <= Delayed(s)' + Capacity - s - Level(c)
      BY <1>2, <1>4, <2>1, <2>2 DEF LevelShows
    <3>1. Delayed(s) <= Delayed(s)' /\ Delayed(s) \in Int /\ Delayed(s)' \in Int
      BY <1>2, <1>5, <1>6
    <3>2. AdmittedBetween(c, s, clock) \in Int
      BY <1>4, <1>9
    <3> QED BY <1>4, <1>6, <1>8, <2>1, <3>1, <3>2 DEF LevelShows
  <2>6. \A d \in Clients : BucketIsLegal(d)' /\ LevelShows(d)' /\ LevelIsSpent(d)'
    BY <1>2, <1>10, <2>1, <2>4, <2>5
  <2> QED BY <1>2, <1>5, <2>3, <2>6 DEF RInv
<1> QED BY <1>3, <1>11, <1>12

\* Every step keeps the limiter's account.
LEMMA NextRInv == IInv /\ RInv /\ [Next]_vars => RInv'
<1> SUFFICES ASSUME IInv, RInv, [Next]_vars PROVE RInv'
  OBVIOUS
<1>1. CASE UNCHANGED <<clock, buckets, handler, admitted>>
  <2>1. RequestsAreMade' /\ \A s : Late(s)' = Late(s)
    BY <1>1 DEF RInv, RequestsAreMade, Late
  <2> QED BY <1>1, <2>1, LimiterKept
<1>2. UNCHANGED vars \/ Serve => UNCHANGED <<clock, buckets, handler, admitted>>
  BY DEF vars, Serve
<1>3. CASE Tick
  BY <1>3, TickKeepsRInv
<1>4. ASSUME NEW h \in Handlers,
             \/ \E r \in Requests : Connect(h, r)
             \/ LocalhostOnly(h) \/ ReadClock(h) \/ Allow(h) \/ TokenAuth(h)
             \/ HandleStatus(h) \/ HandleScan(h) \/ FinishScan(h) \/ HandlePolicy(h)
             \/ Write(h)
      PROVE  RInv'
  BY <1>4, OthersKeepRInv, ReadClockKeepsRInv, AllowKeepsRInv
<1> QED BY <1>1, <1>2, <1>3, <1>4 DEF Next

\* In any period a client gets no more requests past the limiter than its
\* bucket holds and the period refills, but for one per connection.
THEOREM RateTheorem == Spec => []RateIsBounded
<1>1. RInv => RateIsBounded
  BY DEF RInv
<1> QED BY <1>1, InitIInv, NextIInv, InitRInv, NextRInv, PTL DEF Spec

\* What RefusedOnlyWhenSpent says of a step.
OnlyWhenSpent ==
    \A h \in Handlers : Refused(h) /\ handler[h].stamp = clock =>
         \E s \in 0..clock :
            AdmittedBetween(handler[h].req.from, s, clock) >= Capacity + (clock - s)

\* No step but Allow takes a connection from the lock, and to the answer only
\* if it refuses.
LEMMA RefusedIsTurnedDown ==
  ASSUME IInv, RInv, [Next]_vars, NEW h \in Handlers, Refused(h)
  PROVE  Allow(h) /\ TurnedDown(handler[h].req.from, handler[h].stamp)
<1>1. handler[h].stage = "locking" /\ handler'[h].stage = "answering" /\ DOMAIN handler = Handlers
  BY DEF Refused, IInv
<1>2. handler'[h] # handler[h]
  BY <1>1
<1>3. ASSUME NEW g \in Handlers, NEW x, handler' = [handler EXCEPT ![g] = x]
      PROVE  g = h
  BY <1>1, <1>2, <1>3
<1>4. ~(UNCHANGED vars \/ Serve \/ Tick)
  BY <1>2 DEF vars, Serve, Tick
<1>5. ASSUME NEW g \in Handlers,
             \/ \E r \in Requests : Connect(g, r)
             \/ LocalhostOnly(g) \/ ReadClock(g) \/ TokenAuth(g) \/ Write(g)
             \/ HandleStatus(g) \/ HandleScan(g) \/ FinishScan(g) \/ HandlePolicy(g)
      PROVE  FALSE
  <2>1. handler[g].stage # "locking"
    BY <1>5 DEF Connect, LocalhostOnly, ReadClock, TokenAuth, Write,
                HandleStatus, HandleScan, FinishScan, HandlePolicy
  <2> DEFINE Sent == \E x : handler' = [handler EXCEPT ![g] = x]
  <2>2. (\A stage : To(g, stage) => Sent) /\ (\A code : Answered(g, code) => Sent)
    BY Zenon DEF To, Answered
  <2>3. (\E r \in Requests : Connect(g, r)) \/ Write(g) => Sent
    BY Zenon DEF Connect, Write
  <2>4. ReadClock(g) => Sent
    <3> DEFINE x == [[handler[g] EXCEPT !.stage = "locking"] EXCEPT !.stamp = clock]
    <3>1. ReadClock(g) => handler' = [handler EXCEPT ![g] = x]
      BY DEF ReadClock
    <3> HIDE DEF x
    <3> QED BY <3>1, Zenon
  <2> DEFINE y == [[handler[g] EXCEPT !.stage = "scanning"] EXCEPT !.answer =
                   [mode |-> BehaviorMode(handler[g].req), offline |-> Offline(handler[g].req)]]
  <2>5. HandleScan(g) => \/ Answered(g, 405) \/ Answered(g, 400)
                          \/ handler' = [handler EXCEPT ![g] = y]
    BY DEF HandleScan
  <2>6. \A z : handler' = [handler EXCEPT ![g] = z] => Sent
    BY Zenon
  <2> HIDE DEF Sent, y
  <2>7. LocalhostOnly(g) => Sent
    BY <2>2, Zenon DEF LocalhostOnly
  <2>8. TokenAuth(g) => Sent
    BY <2>2, Zenon DEF TokenAuth
  <2>9. HandleStatus(g) => Sent
    BY <2>2, Zenon DEF HandleStatus
  <2>10. HandleScan(g) => Sent
    BY <2>2, <2>5, <2>6
  <2>11. FinishScan(g) => Sent
    BY <2>2, Zenon DEF FinishScan
  <2>12. HandlePolicy(g) => Sent
    BY <2>2 DEF HandlePolicy
  <2>13. Sent
    BY <1>5, <2>3, <2>4, <2>7, <2>8, <2>9, <2>10, <2>11, <2>12
  <2>14. \E x : handler' = [handler EXCEPT ![g] = x]
    BY <2>13 DEF Sent
  <2> QED BY <1>1, <1>3, <2>1, <2>14
<1>6. PICK g \in Handlers : Allow(g)
  BY <1>4, <1>5 DEF Next
<1>7. \E x : handler' = [handler EXCEPT ![g] = x]
  BY <1>6 DEF Allow, To, Answered
<1>8. g = h
  BY <1>3, <1>7
<1>9. ~To(h, "auth")
  <2> SUFFICES ASSUME To(h, "auth") PROVE FALSE
    OBVIOUS
  <2>1. handler'[h] = [handler[h] EXCEPT !.stage = "auth"]
    BY <1>1 DEF To
  <2>2. handler'[h].stage = "auth"
    BY <2>1, StageOf
  <2> QED BY <1>1, <2>2
<1> QED BY <1>6, <1>8, <1>9, AllowMovesLevel

\* A request that took the lock without delay is refused only if its client has
\* spent all it had in some period up to now.
THEOREM RefusedTheorem == Spec => RefusedOnlyWhenSpent
<1>1. IInv /\ RInv /\ [Next]_vars => OnlyWhenSpent
  <2> SUFFICES ASSUME IInv, RInv, [Next]_vars, NEW h \in Handlers, Refused(h),
                      handler[h].stamp = clock
               PROVE  \E s \in 0..clock :
                         AdmittedBetween(handler[h].req.from, s, clock) >= Capacity + (clock - s)
    BY DEF OnlyWhenSpent
  <2>1. PICK c : c = handler[h].req.from
    OBVIOUS
  <2>2. Allow(h) /\ TurnedDown(c, clock)
    BY <2>1, RefusedIsTurnedDown
  <2>3. c \in Clients
    BY <2>1, <2>2, AllowMovesLevel
  <2>4. buckets[c] # NoBucket /\ Level(c) <= -clock
    BY <2>2 DEF TurnedDown
  <2>5. PICK s \in 0..clock : AdmittedBetween(c, s, clock) >= Capacity - s - Level(c)
    BY <2>3, <2>4 DEF RInv, LevelIsSpent
  <2>6. clock \in Nat /\ Capacity \in Nat /\ s \in 0..MaxTime /\ clock \in 0..MaxTime
    BY BoundsAreNatural DEF RInv, CountsAddUp
  <2>7. AdmittedBetween(c, s, clock) \in Int
    BY <2>3, <2>6, CountType DEF RInv
  <2>8. Level(c) \in Int
    BY <2>3, <2>4, <2>6 DEF RInv, BucketIsLegal, Level
  <2> QED BY <2>1, <2>4, <2>5, <2>6, <2>7, <2>8
<1>2. RefusedOnlyWhenSpent <=> [][OnlyWhenSpent]_vars
  BY DEF RefusedOnlyWhenSpent, OnlyWhenSpent
<1> QED BY <1>1, <1>2, InitIInv, NextIInv, InitRInv, NextRInv, PTL DEF Spec
=============================================================================
