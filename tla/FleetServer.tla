----------------------------- MODULE FleetServer -----------------------------
(***************************************************************************)
(* The process around an orchestrator: how `rivalis-fleet` starts from its *)
(* flags and environment (cli.ts, env.ts, Config.ts), who may use its port *)
(* (AgentAuthenticator, authHook and its AuthThrottle in shared.ts), the   *)
(* streams of GET /v1/events (EventsRouter, createHttpApi), and how a      *)
(* signal ends it (installSignalHandlers, Orchestrator.shutdown).          *)
(*                                                                         *)
(* Keys are opaque but for being long enough or not.  Two numbers stand    *)
(* for all numeric options.  A request is authenticated and answered in    *)
(* one step: nothing between its hooks and its handler waits for anything. *)
(* The clock of the throttle does not step back, and a token is split into *)
(* Window parts so that a tick refills Limit of them.                      *)
(***************************************************************************)
EXTENDS Integers, Sequences, FiniteSets, SequencesExt, Subsequence

CONSTANTS
    Keys,      \* keys an operator may configure
    Lists,     \* the lists of keys an operator gives
    Weak,      \* those shorter than MIN_KEY_LENGTH
    Empty,     \* the flag value ''
    Absent,    \* no flag, no variable, no credential
    Addresses, \* source addresses of REST requests
    Limit, Window, MaxBuckets, \* AUTH_FAILURE_LIMIT, AUTH_FAILURE_WINDOW_MS, MAX_THROTTLE_BUCKETS
    Streams,     \* streams that may ever be opened
    MaxStreams,  \* MAX_SSE_STREAMS
    MaxRequests, MaxTicks \* bounds

ASSUME KeysAssumption == Weak \subseteq Keys /\ Lists \subseteq (SUBSET Keys) \ {{}} /\ {Empty, Absent} \cap Keys = {}
ASSUME ThrottleAssumption == {Limit, Window, MaxBuckets} \subseteq Nat \ {0}

VARIABLES
    process,    \* where main() is, or its shutdown
    production, \* NODE_ENV
    config,     \* ResolvedConfig
    now,
    buckets,    \* AuthThrottle.buckets, in order of insertion
    lastPruneAt,
    stream,     \* the raw response of each stream
    streams,    \* ctx.streams
    subscribed, \* streams with listeners on the orchestrator and a ping timer
    requests,   \* bound
    ideal,      \* history: buckets that are never dropped
    cut         \* history: addresses whose bucket the cap has dropped

throttleVars == <<buckets, lastPruneAt, ideal, cut>>
streamVars == <<stream, streams, subscribed>>
serverVars == <<process, production, config, now, throttleVars, streamVars, requests>>

-----------------------------------------------------------------------------
(* From flags and environment to a configuration.                          *)

Generated == {"dev agent", "dev admin"}
Refused == [agentKeys |-> {}, adminKeys |-> {}, api |-> FALSE, sseQueryAuth |-> FALSE]
Numbers == {"zero", "default", "other"}

\* buildProgram, parseArgs: what a command line may say; commander refuses numbers
\* that are malformed, a repeated flag adds to its list.
Flags ==
    [agentKeys : {Absent, {Empty}} \cup Lists,
     adminKeys : {Absent, {Empty}} \cup Lists,
     api : {Absent, FALSE}, sseQueryAuth : {Absent, TRUE},
     heartbeat : {Absent} \cup Numbers]

\* readEnv over splitCsv: lists lose their empty parts.
Environ ==
    [production : BOOLEAN, agentKeys : Lists \cup {{}}, adminKeys : Lists \cup {{}},
     sseQueryAuth : BOOLEAN, heartbeat : Numbers \cup {"malformed"}]

\* env(): what fails its round trip is replaced by the default.
EnvNumber(n) == IF n = "malformed" THEN "default" ELSE n

Or(flag, default) == IF flag = Absent THEN default ELSE flag

\* The list of one audience: flags, environment, or a key made up for development.
Listed(flag, variable, generated, wanted) ==
    LET given == Or(flag, variable) IN IF given = {} /\ wanted THEN {generated} ELSE given

\* resolveCliConfig: production refuses to make up a key.
ResolveCliConfig(f, e) ==
    LET api == Or(f.api, TRUE)
        agent == Listed(f.agentKeys, e.agentKeys, "dev agent", TRUE)
        admin == Listed(f.adminKeys, e.adminKeys, "dev admin", api)
    IN  [refused |-> e.production /\ (agent \cup admin) \cap Generated # {},
         agentKeys |-> agent, adminKeys |-> admin, api |-> api,
         sseQueryAuth |-> Or(f.sseQueryAuth, e.sseQueryAuth),
         heartbeat |-> Or(f.heartbeat, EnvNumber(e.heartbeat))]

NormalizeKeys(K) == K \ {Empty}

\* resolveConfig: structure.
WellFormed(o) ==
    /\ NormalizeKeys(o.agentKeys) # {}
    /\ o.api => NormalizeKeys(o.adminKeys) # {}
    /\ o.heartbeat # "zero"

ResolveConfig(o) ==
    [agentKeys |-> NormalizeKeys(o.agentKeys), adminKeys |-> NormalizeKeys(o.adminKeys),
     api |-> o.api, sseQueryAuth |-> o.sseQueryAuth]

\* Mutant: only warns.
EnforceSecurityPolicy_warns(c, isProduction) == isProduction => (c.agentKeys \cup c.adminKeys) \cap Weak = {}

\* enforceSecurityPolicy: in production no key serves two audiences and none is short.
EnforceSecurityPolicy(c, isProduction) ==
    isProduction => /\ c.agentKeys \cap c.adminKeys = {}
                    /\ (c.agentKeys \cup c.adminKeys) \cap Weak = {}

ServerInit ==
    /\ process = "off" /\ production = FALSE /\ config = Refused
    /\ now = 0 /\ buckets = <<>> /\ lastPruneAt = -Window
    /\ stream = [s \in Streams |-> "none"] /\ streams = {} /\ subscribed = {}
    /\ requests = 0
    /\ ideal = [a \in Addresses |-> [tokens |-> Limit * Window, last |-> 0]] /\ cut = {}

\* main(), new Orchestrator(), and listen() up to where it waits for the port.
Starts(f, e) ==
    LET o == ResolveCliConfig(f, e)
        c == ResolveConfig(o)
    IN
        /\ IF ~o.refused /\ WellFormed(o) /\ EnforceSecurityPolicy(c, e.production)
           THEN process' = "binding" /\ config' = c /\ production' = e.production
           ELSE process' = "exited" /\ UNCHANGED <<config, production>>
        /\ UNCHANGED <<now, throttleVars, streamVars, requests>>

\* The port is bound and the signal handlers are installed.
Listens ==
    /\ process = "binding" /\ process' = "up"
    /\ UNCHANGED <<production, config, now, throttleVars, streamVars, requests>>

\* The port is taken; or a signal comes before its handler.
FailsToListen ==
    /\ process = "binding" /\ process' = "exited"
    /\ UNCHANGED <<production, config, now, throttleVars, streamVars, requests>>

-----------------------------------------------------------------------------
(* AuthThrottle.                                                           *)

Full == Limit * Window

\* The arithmetic of refill() and prune().
Refilled(b, time) ==
    LET tokens == b.tokens + (time - b.last) * Limit IN IF tokens > Full THEN Full ELSE tokens

\* Mutant: drops what the last sweep has seen, refilled or not.
Spent_soon(b) == now - b.last > 0

\* prune(): a bucket nobody touched for a window has refilled.
Spent(b) == now - b.last > Window /\ Refilled(b, now) >= Full

SweepDue == now - lastPruneAt >= Window
Pruned == IF SweepDue THEN Keeping(buckets, {b \in Range(buckets) : ~Spent(b)}) ELSE buckets

IndexOf(s, a) == {i \in DOMAIN s : s[i].ip = a}

\* evictIfOver(): the bucket touched longest ago, the older one of two.
Oldest(s) == CHOOSE i \in DOMAIN s : \A j \in DOMAIN s : s[i].last < s[j].last \/ (s[i].last = s[j].last /\ i <= j)
EvictIfOver(s) == IF Len(s) <= MaxBuckets THEN s ELSE RemoveAt(s, Oldest(s))

\* refill(): the buckets after address a was looked up.
Refill(a) ==
    LET kept == Pruned IN
    IF IndexOf(kept, a) = {}
    THEN EvictIfOver(Append(kept, [ip |-> a, tokens |-> Full, last |-> now]))
    ELSE [i \in DOMAIN kept |->
            IF kept[i].ip = a
            THEN [ip |-> a, tokens |-> Refilled(kept[i], now), last |-> now] ELSE kept[i]]

TokensOf(s, a) == IF IndexOf(s, a) = {} THEN Full ELSE s[CHOOSE i \in IndexOf(s, a) : TRUE].tokens

Less(tokens) == IF tokens < Window THEN 0 ELSE tokens - Window

\* recordFailure(), after blocked(): floored at zero.
RecordFailure(s, a) == [i \in DOMAIN s |-> IF s[i].ip = a THEN [s[i] EXCEPT !.tokens = Less(@)] ELSE s[i]]

\* One request of address a goes through the throttle, which leaves s; fails: its key
\* did not match.
Throttle(a, s, fails) ==
    LET own == [tokens |-> Refilled(ideal[a], now), last |-> now] IN
    /\ buckets' = IF fails THEN RecordFailure(s, a) ELSE s
    /\ lastPruneAt' = IF SweepDue THEN now ELSE lastPruneAt
    /\ ideal' = [ideal EXCEPT ![a] = IF fails THEN [own EXCEPT !.tokens = Less(@)] ELSE own]
    /\ cut' = cut \cup {b \in Addresses : IndexOf(Pruned, b) # {} /\ IndexOf(s, b) = {}}

-----------------------------------------------------------------------------
(* Requests and agents.                                                    *)

\* The server answers until fastify.close().
Answers == process \in {"up", "stopping"}

\* createHttpApi mounts the routes under /v1 behind the hook, if at all.
ServesApi == Answers /\ config.api

\* isEventsPath: the one route that takes a key from its query.
IsEventsPath(route) == route = "events"

\* matchKey
MatchKey(k, K) == k # Absent /\ k \in K

\* AgentAuthenticator.matches: the tickets that lead to the fleet's room.
AgentMayJoin(k) == MatchKey(k, config.agentKeys)

\* bearerToken, isEventsPath and authHook: the key that lets the request in.
MatchedKey(bearer, query, route) ==
    IF MatchKey(bearer, config.adminKeys) THEN bearer
    ELSE IF IsEventsPath(route) /\ config.sseQueryAuth /\ MatchKey(query, config.adminKeys) THEN query
    ELSE Absent

\* subscribeFleetEvents: one listener for each type of event.
Subscribe(s) == subscribed' = subscribed \cup {s}

\* EventsRouter.stream: beyond the cap it answers SSE_LIMIT.
OpensStream ==
    \/ /\ Cardinality(streams) >= MaxStreams
       /\ UNCHANGED streamVars
    \/ \E s \in Streams :
         /\ Cardinality(streams) < MaxStreams
         /\ stream[s] = "none" /\ stream' = [stream EXCEPT ![s] = "open"]
         /\ streams' = streams \cup {s} /\ Subscribe(s)

\* authHook, then the handler of the route; what other handlers do is FleetControlPlane.
Request(a, bearer, query, route) ==
    LET key == MatchedKey(bearer, query, route)
        looked == Refill(a)
        blocked == TokensOf(looked, a) < Window
    IN  /\ ServesApi /\ requests < MaxRequests
        /\ requests' = requests + 1
        /\ Throttle(a, looked, ~blocked /\ key = Absent)
        /\ IF blocked \/ key = Absent
           THEN UNCHANGED streamVars
           ELSE IF IsEventsPath(route) THEN OpensStream ELSE UNCHANGED streamVars
        /\ UNCHANGED <<process, production, config, now>>

-----------------------------------------------------------------------------
(* Streams end, and so does the process.                                   *)

\* SseStream.cleanup of every stream in S.
Cleanup(S) == streams' = streams \ S /\ subscribed' = subscribed \ S

\* The client goes, or an ended response leaves its connection idle: the 'close' event.
StreamCloses(s) ==
    /\ stream[s] \in {"open", "ended"} /\ stream' = [stream EXCEPT ![s] = "closed"]
    /\ Cleanup({s})
    /\ UNCHANGED <<process, production, config, now, throttleVars, requests>>

\* drainStreams: cleanup, then end.
DrainStreams ==
    /\ Cleanup(streams)
    /\ stream' = [s \in Streams |-> IF s \in streams THEN "ended" ELSE stream[s]]

\* The signal handler and Orchestrator.shutdown() up to its first await.
SignalArrives ==
    /\ process = "up" /\ process' = "stopping"
    /\ DrainStreams
    /\ UNCHANGED <<production, config, now, throttleVars, requests>>

\* Mutant: relies on the drain at the beginning of the shutdown.
Close_undrained == UNCHANGED streamVars

\* HttpApi.close: streams opened meanwhile are ended too.
Close == DrainStreams

\* rivalis.shutdown() has settled, at the latest by its time-out, and fastify.close() begins.
RivalisStops ==
    /\ process = "stopping" /\ process' = "closing"
    /\ Close
    /\ UNCHANGED <<production, config, now, throttleVars, requests>>

\* server.close() waits for every connection.
Exits ==
    /\ process = "closing" /\ \A s \in Streams : stream[s] \notin {"open", "ended"}
    /\ process' = "exited"
    /\ UNCHANGED <<production, config, now, throttleVars, streamVars, requests>>

\* Time matters only once an address has a bucket.
Ticks ==
    /\ Answers /\ buckets # <<>> /\ now < MaxTicks /\ now' = now + 1
    /\ UNCHANGED <<process, production, config, throttleVars, streamVars, requests>>

Presented == config.agentKeys \cup config.adminKeys \cup {Absent}

ServerNext ==
    \/ process = "off" /\ \E f \in Flags, e \in Environ : Starts(f, e)
    \/ Listens \/ FailsToListen
    \/ \E a \in Addresses, bearer, query \in Presented, route \in {"events", "other"} :
         Request(a, bearer, query, route)
    \/ \E s \in Streams : StreamCloses(s)
    \/ SignalArrives \/ RivalisStops \/ Exits
    \/ Ticks

ServerSpec == ServerInit /\ [][ServerNext]_serverVars

\* rivalis.shutdown() has a time-out, idle connections one of the server; a client need
\* not close its stream.
ServerFairSpec ==
    /\ ServerSpec
    /\ WF_serverVars(RivalisStops) /\ WF_serverVars(Exits)
    /\ \A s \in Streams : WF_serverVars(stream[s] = "ended" /\ StreamCloses(s))

-----------------------------------------------------------------------------
(* Properties.                                                             *)

ServerTypeOK ==
    /\ process \in {"off", "binding", "up", "stopping", "closing", "exited"}
    /\ \A i \in DOMAIN buckets :
         buckets[i].ip \in Addresses /\ buckets[i].tokens \in 0..Full /\ buckets[i].last \in 0..now
    /\ stream \in [Streams -> {"none", "open", "ended", "closed"}]
    /\ streams \subseteq Streams /\ subscribed \subseteq Streams
    /\ cut \subseteq Addresses /\ production \in BOOLEAN

\* A process that is up in production admits nobody with a key that is short, made up, or
\* good for the other audience, whichever way its keys were given (cli.ts, Config.ts).
KeysServeOneAudience == process = "up" /\ production =>
    \A k \in Keys \cup Generated : \A route \in {"events", "other"} :
        LET admitted == {MatchedKey(k, Absent, route), MatchedKey(Absent, k, route)} \ {Absent}
        IN  /\ AgentMayJoin(k) => admitted = {}
            /\ AgentMayJoin(k) \/ admitted # {} => k \notin Weak \cup Generated

\* Pruning and the cap never show: an address is as near to being blocked as if its
\* bucket had been kept for ever; one that the cap has dropped is never nearer
\* (AuthThrottle.prune, evictIfOver).
ThrottleAsIdeal == \A a \in Addresses :
    LET own == IndexOf(buckets, a)
        tokens == IF own = {} THEN Full ELSE Refilled(buckets[CHOOSE i \in own : TRUE], now)
    IN  /\ tokens >= Refilled(ideal[a], now)
        /\ a \notin cut => tokens = Refilled(ideal[a], now)

\* A signal ends the process, although streams are opened while it waits for the
\* transports and their clients never leave (Orchestrator.shutdown, HttpApi.close).
SignalEnds == []<>(process \notin {"stopping", "closing"})
=============================================================================
