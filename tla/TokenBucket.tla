---------------------------- MODULE TokenBucket ----------------------------
(***************************************************************************)
(* TokenBucketRateLimiter, the limiter TLayer.handleMessage asks about     *)
(* every frame unless the application configures another.  Buckets live in *)
(* a Map whose order is the order of use; idle ones are swept, and a full  *)
(* map evicts the least recently used.  The clock is Date.now() and may    *)
(* step backwards.                                                         *)
(*                                                                         *)
(* The unit of time is what it takes to refill one token, so that tokens   *)
(* are whole numbers.  ideal is the bucket each actor would have if none   *)
(* were ever dropped.                                                      *)
(***************************************************************************)
EXTENDS Integers, SequencesExt, Subsequence

CONSTANTS
    Actor,
    Capacity,
    IdleEvict,  \* idleEvictMs, in units of time
    MaxBuckets,
    MaxTime,    \* bound: the latest time
    MaxSteps    \* bound: steps of the clock backwards

\* IdleEvict >= Capacity is what the comment of idleEvictMs (lines 14-20) asks
\* for: a bucket idle that long is full again.
ASSUME BucketAssumption ==
    /\ {Capacity, MaxBuckets} \subseteq Nat \ {0}
    /\ {IdleEvict, MaxTime, MaxSteps} \subseteq Nat
    /\ IdleEvict >= Capacity

VARIABLES
    now,       \* Date.now()
    buckets,   \* state: the Map, least recently used first
    lastSweep,
    ideal,     \* history: the buckets without eviction
    cut,       \* history: actors whose bucket may be fuller than it should
    steps      \* steps of the clock backwards so far

limiter == <<now, buckets, lastSweep, ideal, cut, steps>>

Bucket == [actor : Actor, tokens : 0..Capacity, last : 0..MaxTime]

LimiterTypeOK ==
    /\ now \in 0..MaxTime /\ lastSweep \in -IdleEvict..MaxTime /\ steps \in 0..MaxSteps
    /\ Len(buckets) <= MaxBuckets /\ Range(buckets) \subseteq Bucket
    /\ \A i, j \in DOMAIN buckets : buckets[i].actor = buckets[j].actor => i = j
    /\ ideal \in [Actor -> Bucket]
    /\ cut \subseteq Actor

Full(a) == [actor |-> a, tokens |-> Capacity, last |-> now]

\* lastSweep is 0, long before any time: the first check sweeps an empty map.
LimiterInit ==
    /\ now = 0 /\ buckets = <<>> /\ lastSweep = -IdleEvict
    /\ ideal = [a \in Actor |-> Full(a)]
    /\ cut = {} /\ steps = 0

\* A clock that went backwards only resets the baseline.
Refill(e) ==
    LET refilled == e.tokens + (now - e.last)
    IN  [actor |-> e.actor, last |-> now,
         tokens |-> IF now < e.last THEN e.tokens ELSE IF Capacity < refilled THEN Capacity ELSE refilled]

Spend(e) == [e EXCEPT !.tokens = IF @ >= 1 THEN @ - 1 ELSE @]

SweepDue == now - lastSweep >= IdleEvict
Idle(e) == now - e.last >= IdleEvict

\* Mutant: the sweep drops every bucket.
Swept_all == IF SweepDue THEN <<>> ELSE buckets

Swept == IF SweepDue THEN Keeping(buckets, {e \in Range(buckets) : ~Idle(e)}) ELSE buckets

Has(s, a) == \E e \in Range(s) : e.actor = a
Others(s, a) == Keeping(s, {e \in Range(s) : e.actor # a})

\* The bucket of a as a check finds it, before it takes a token.
Found(a) ==
    IF Has(Swept, a) THEN Refill(CHOOSE e \in Range(Swept) : e.actor = a) ELSE Full(a)

Allows(a) == Found(a).tokens >= 1

\* The rest of the map: a new bucket that is one too many evicts from the head.
Kept(a) ==
    LET rest == Others(Swept, a)
    IN  IF ~Has(Swept, a) /\ Len(rest) >= MaxBuckets
        THEN SubSeq(rest, Len(rest) - MaxBuckets + 2, Len(rest))
        ELSE rest

\* check(a), whose answer is Allows(a).
Check(a) ==
    /\ buckets' = Append(Kept(a), Spend(Found(a)))
    /\ lastSweep' = IF SweepDue THEN now ELSE lastSweep
    /\ ideal' = [ideal EXCEPT ![a] = Spend(Refill(@))]
    /\ cut' = cut \cup {e.actor : e \in Range(Others(Swept, a)) \ Range(Kept(a))}
    /\ UNCHANGED <<now, steps>>

\* release(a), when TLayer hears that the actor has left.
Release(a) ==
    /\ buckets' = Others(buckets, a)
    /\ ideal' = [ideal EXCEPT ![a] = Full(a)]
    /\ cut' = cut \ {a}
    /\ UNCHANGED <<now, lastSweep, steps>>

\* Date.now() goes on.
Tick ==
    /\ now < MaxTime
    /\ now' = now + 1
    /\ UNCHANGED <<buckets, lastSweep, ideal, cut, steps>>

\* Date.now() goes back (an adjusted clock).  Buckets that are gone were full by
\* the clock that was, and are not by the one that is.
StepBack ==
    /\ steps < MaxSteps /\ steps' = steps + 1
    /\ now' \in 0..now - 1
    /\ cut' = cut \cup {a \in Actor : ~Has(buckets, a)}
    /\ UNCHANGED <<buckets, lastSweep, ideal>>

-----------------------------------------------------------------------------
(* What the sweep, the cap and the clock may never do.                     *)

\* Dropping buckets never makes the limiter stricter, and it is invisible ("behaviorally
\* transparent", lines 45-46) whatever the sweep drops and however the clock steps,
\* except to an actor that the cap has evicted, or that had no bucket when the
\* clock went back.
AsIdeal == \A a \in Actor :
    LET owed == Refill(ideal[a]).tokens
    IN  IF a \in cut THEN Found(a).tokens >= owed ELSE Found(a).tokens = owed

=============================================================================
