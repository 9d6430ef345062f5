----------------------------- MODULE ApiServer -----------------------------
(***************************************************************************)
(* The REST server (internal/api): handlers that run concurrently, behind  *)
(* the middleware of wrap: the network guard, the rate limit, the token,   *)
(* the body's cap, in this order.  The rate limiter is shared by them all; *)
(* a handler reads the clock before it takes the limiter's lock.           *)
(*                                                                         *)
(* The clock counts in the time that refills one token.  A request is a    *)
(* record [from, token, path, post, body], a body a record [decodes, name, *)
(* eco, policy, behavior, sandbox, offline]; one over the cap does not     *)
(* decode.                                                                 *)
(***************************************************************************)
EXTENDS Integers, FiniteSets

CONSTANTS Handlers,      \* the connections the server may be handling at once
          Clients,       \* the addresses requests come from
          LocalClients,  \* those on the loopback interface
          Requests,      \* the requests clients may make
          Configs,       \* the configurations the server may be started with
          Policies,      \* policy file |-> the behaviour mode it asks for
          Capacity,      \* requests a client may make at once
          MaxTime        \* bound on the clock

ASSUME ConnectionsAreFinite == IsFiniteSet(Handlers)
ASSUME ClientsAreKnown ==
    /\ LocalClients \subseteq Clients
    /\ \A r \in Requests : r.from \in Clients
ASSUME BoundsAreNatural == Capacity \in Nat \ {0} /\ MaxTime \in Nat

VARIABLES config,   \* [loopback, token, tls, offline, policy]: how Serve was called
          server,   \* "down", "refused" or "up"
          clock,
          buckets,  \* per client: [tokens, last], or NoBucket
          handler,  \* per connection: [stage, req, stamp, answer]
          admitted  \* observed: per client, how many requests the limiter let
                    \* through up to each time

vars == <<config, server, clock, buckets, handler, admitted>>

NoBucket == [tokens |-> -1, last |-> -1]
Free == [stage |-> "free", req |-> <<>>, stamp |-> 0, answer |-> 0]

-----------------------------------------------------------------------------
(* Starting.                                                               *)

\* Exposing the server beyond loopback needs both a token and TLS.
MayListen_TokenOnly(c) == c.loopback \/ c.token
MayListen(c) == c.loopback \/ (c.token /\ c.tls)

AllowNonLoopback == ~config.loopback

Init ==
    /\ config \in Configs
    /\ server = "down"
    /\ clock = 0
    /\ buckets = [c \in Clients |-> NoBucket]
    /\ handler = [h \in Handlers |-> Free]
    /\ admitted = [c \in Clients |-> [t \in 0..MaxTime |-> 0]]

Serve ==
    /\ server = "down"
    /\ server' = IF MayListen(config) THEN "up" ELSE "refused"
    /\ UNCHANGED <<config, clock, buckets, handler, admitted>>

-----------------------------------------------------------------------------
(* The middleware.                                                         *)

To(h, stage) == handler' = [handler EXCEPT ![h].stage = stage]

\* Answer a request; the status becomes visible when the answer is written.
Answer(h, status) == [handler[h] EXCEPT !.stage = "answering", !.answer = status]
Answered(h, status) == handler' = [handler EXCEPT ![h] = Answer(h, status)]

Connect(h, r) ==
    /\ server = "up"
    /\ handler[h].stage = "free"
    /\ handler' = [handler EXCEPT ![h] =
                     [Free EXCEPT !.stage = "guard", !.req = r]]
    /\ UNCHANGED <<config, server, clock, buckets, admitted>>

LocalhostOnly(h) ==
    /\ handler[h].stage = "guard"
    /\ IF ~AllowNonLoopback /\ handler[h].req.from \notin LocalClients
       THEN Answered(h, 403)
       ELSE To(h, "limit")
    /\ UNCHANGED <<config, server, clock, buckets, admitted>>

\* rateLimiter.allow, up to the lock: now is read before.
ReadClock(h) ==
    /\ handler[h].stage = "limit"
    /\ handler' = [handler EXCEPT ![h].stage = "locking", ![h].stamp = clock]
    /\ UNCHANGED <<config, server, clock, buckets, admitted>>

\* The tokens of a bucket once the time since its last use is credited.  The
\* time is negative when a later reading of the clock got the lock first.
Refilled(b, now) ==
    LET tokens == b.tokens + (now - b.last)
    IN  IF tokens > Capacity THEN Capacity ELSE tokens

\* rateLimiter.allow, under the lock.
Admission_LastKept(b, tokens, now) ==
    [tokens |-> IF tokens >= 1 THEN tokens - 1 ELSE tokens,
     last |-> IF b = NoBucket THEN now ELSE b.last]
Admission_TakenAnyway(b, tokens, now) == [tokens |-> tokens - 1, last |-> now]

\* The bucket after a request: a refused one takes no token, but moves the
\* time the bucket was last used.
Admission(b, tokens, now) ==
    [tokens |-> IF tokens >= 1 THEN tokens - 1 ELSE tokens, last |-> now]

Allow(h) ==
    LET c == handler[h].req.from
        now == handler[h].stamp
        tokens == IF buckets[c] = NoBucket THEN Capacity ELSE Refilled(buckets[c], now)
    IN  /\ handler[h].stage = "locking"
        /\ buckets' = [buckets EXCEPT ![c] = Admission(@, tokens, now)]
        /\ \/ /\ tokens >= 1
              /\ admitted' = [admitted EXCEPT ![c] =
                    [t \in 0..MaxTime |-> IF t < clock THEN @[t] ELSE @[t] + 1]]
              /\ To(h, "auth")
           \/ /\ tokens < 1
              /\ UNCHANGED admitted
              /\ Answered(h, 429)
        /\ UNCHANGED <<config, server, clock>>

TokenAuth(h) ==
    /\ handler[h].stage = "auth"
    /\ IF config.token /\ ~handler[h].req.token THEN Answered(h, 401) ELSE To(h, "handle")
    /\ UNCHANGED <<config, server, clock, buckets, admitted>>

-----------------------------------------------------------------------------
(* The handlers.                                                           *)

HandleStatus(h) ==
    /\ handler[h].stage = "handle" /\ handler[h].req.path = "status"
    /\ Answered(h, 200)
    /\ UNCHANGED <<config, server, clock, buckets, admitted>>

BehaviorModes == {"disabled", "heuristic", "isolated"}

PolicyPath(req) == IF req.body.policy = "" THEN config.policy ELSE req.body.policy
Resolves(req) == PolicyPath(req) \in DOMAIN Policies

\* What is wrong with a request to scan.
BadScan(req) ==
    \/ ~req.body.decodes
    \/ ~req.body.name
    \/ req.body.eco \notin {"", "npm", "pypi"}
    \/ ~Resolves(req)
    \/ req.body.behavior \notin BehaviorModes \cup {""}

\* The mode the artifact is analysed in: the request's switch, the request's
\* mode, the policy's.
BehaviorMode(req) ==
    IF req.body.sandbox = "off" THEN "disabled"
    ELSE IF req.body.sandbox = "on" THEN "heuristic"
    ELSE IF req.body.behavior # "" THEN req.body.behavior
    ELSE Policies[PolicyPath(req)]

\* A request may switch the server's offline mode on and off.
Offline(req) == IF req.body.offline = "" THEN config.offline ELSE req.body.offline = "on"

HandleScan(h) ==
    LET req == handler[h].req IN
    /\ handler[h].stage = "handle" /\ req.path = "scan"
    /\ IF ~req.post THEN Answered(h, 405)
       ELSE IF BadScan(req) THEN Answered(h, 400)
       ELSE handler' = [handler EXCEPT ![h].stage = "scanning",
                          ![h].answer = [mode |-> BehaviorMode(req), offline |-> Offline(req)]]
    /\ UNCHANGED <<config, server, clock, buckets, admitted>>

FinishScan(h) ==
    /\ handler[h].stage = "scanning"
    /\ \E status \in {200, 500} : Answered(h, status)
    /\ UNCHANGED <<config, server, clock, buckets, admitted>>

HandlePolicy(h) ==
    LET req == handler[h].req IN
    /\ handler[h].stage = "handle" /\ req.path = "policy"
    /\ Answered(h, IF ~req.post THEN 405
                   ELSE IF req.body.decodes /\ Resolves(req) THEN 200 ELSE 400)
    /\ UNCHANGED <<config, server, clock, buckets, admitted>>

\* The answer is written and the connection is free for another request.
Write(h) ==
    /\ handler[h].stage = "answering"
    /\ handler' = [handler EXCEPT ![h] = Free]
    /\ UNCHANGED <<config, server, clock, buckets, admitted>>

\* Time passes at any point.
Tick ==
    /\ server = "up" /\ clock < MaxTime
    /\ clock' = clock + 1
    /\ UNCHANGED <<config, server, buckets, handler, admitted>>

Next ==
    \/ Serve
    \/ Tick
    \/ \E h \in Handlers :
         \/ \E r \in Requests : Connect(h, r)
         \/ LocalhostOnly(h) \/ ReadClock(h) \/ Allow(h) \/ TokenAuth(h)
         \/ HandleStatus(h) \/ HandleScan(h) \/ FinishScan(h) \/ HandlePolicy(h)
         \/ Write(h)

Spec == Init /\ [][Next]_vars

-----------------------------------------------------------------------------
(* Properties.                                                             *)

\* A request gets past the middleware only with the token, if there is one,
\* and from elsewhere than loopback only with the token and over TLS: whatever
\* Serve was called with (Serve, wrap, localhostOnly, tokenAuth).
PastMiddleware(h) ==
    \/ handler[h].stage \in {"handle", "scanning"}
    \/ handler[h].stage = "answering" /\ handler[h].answer \in {200, 400, 405, 500}

OnlyAuthorized ==
    \A h \in Handlers : PastMiddleware(h) =>
        LET req == handler[h].req
        IN  /\ config.token => req.token
            /\ req.from \notin LocalClients => config.token /\ config.tls

AdmittedBetween(c, s, t) ==
    admitted[c][t] - (IF s = 0 THEN 0 ELSE admitted[c][s - 1])

\* In any period a client gets no more requests past the limiter than its
\* bucket holds and the period refills, but for one per handler that comes to
\* the lock with a reading of the clock from before the period
\* (rateLimiter.allow reads the clock before it takes the lock).
RateIsBounded ==
    \A c \in Clients : \A s \in 0..clock : \A t \in s..clock :
        AdmittedBetween(c, s, t) <= Capacity + (t - s) + Cardinality(Handlers)

\* A request that took the lock without delay is refused only if its client has
\* spent all it had in some period up to now: an earlier handler with an older
\* reading takes nothing away from the later ones (rateLimiter.allow).
Refused(h) == handler[h].stage = "locking" /\ handler'[h].stage = "answering"
RefusedOnlyWhenSpent ==
    [][\A h \in Handlers : Refused(h) /\ handler[h].stamp = clock =>
         \E s \in 0..clock :
            AdmittedBetween(handler[h].req.from, s, clock) >= Capacity + (clock - s)]_vars
=============================================================================
