-------------------------- MODULE GameFramesProofs --------------------------
(***************************************************************************)
(* A limiter that drops buckets answers as if it kept them (TokenBucket,   *)
(* as GameFrames uses it), chunking is transparent, for any actors,        *)
(* limits, frames and sessions, and the format of the wires gives back     *)
(* what was written, for any fields.                                       *)
(***************************************************************************)
EXTENDS GameFrames, WireFormat, SubsequenceProofs

Entry == [actor : Actor, tokens : 0..Capacity, last : Nat]

\* A map s follows the buckets that are never dropped, at the time t.
Follows(s, id, c, t) ==
    /\ s \in Seq(Entry)
    /\ \A e, f \in Range(s) : e.actor = f.actor => e = f
    /\ \A e \in Range(s) : /\ e.last = id[e.actor].last /\ e.tokens >= id[e.actor].tokens
                           /\ e.actor \notin c => e = id[e.actor]
    /\ \A a \in Actor \ c : ~Has(s, a) =>
           id[a].last <= t /\ id[a].tokens + (t - id[a].last) >= Capacity

LimiterInv ==
    /\ now \in Nat
    /\ ideal \in [Actor -> Entry] /\ \A a \in Actor : ideal[a].actor = a
    /\ Follows(buckets, ideal, cut, now)

LEMMA Sizes1 == Capacity \in Nat \ {0} /\ IdleEvict \in Nat /\ MaxBuckets \in Nat \ {0} /\ IdleEvict >= Capacity
  BY BucketAssumption

Filled(e) ==
    IF now < e.last THEN e.tokens
    ELSE IF Capacity < e.tokens + (now - e.last) THEN Capacity ELSE e.tokens + (now - e.last)

LEMMA Refilling ==
    ASSUME now \in Nat, NEW e \in Entry
    PROVE  /\ Refill(e) \in Entry /\ Refill(e).actor = e.actor /\ Refill(e).last = now
           /\ e.last <= now /\ e.tokens + (now - e.last) >= Capacity => Refill(e).tokens = Capacity
           /\ \A f \in Entry : f.last = e.last /\ f.tokens >= e.tokens => Refill(f).tokens >= Refill(e).tokens
<1>1. ASSUME NEW f \in Entry
      PROVE  Refill(f) = [actor |-> f.actor, tokens |-> Filled(f), last |-> now]
  BY DEF Refill, Entry, Filled
<1>2. ASSUME NEW f \in Entry
      PROVE  f.actor \in Actor /\ f.tokens \in 0..Capacity /\ f.last \in Nat /\ Filled(f) \in 0..Capacity
  BY Sizes1 DEF Entry, Filled
<1>3. Refill(e) \in Entry /\ Refill(e).actor = e.actor /\ Refill(e).last = now
  BY <1>1, <1>2 DEF Entry
<1>4. e.last <= now /\ e.tokens + (now - e.last) >= Capacity => Filled(e) = Capacity
  BY <1>2, Sizes1 DEF Filled
<1>5. \A f \in Entry : f.last = e.last /\ f.tokens >= e.tokens => Filled(f) >= Filled(e)
  BY <1>2, Sizes1 DEF Filled
<1>6. \A f \in Entry : Refill(f).tokens = Filled(f)
  BY <1>1
<1> QED
  BY <1>3, <1>4, <1>5, <1>6

LEMMA Spending ==
    ASSUME NEW e \in Entry
    PROVE  /\ Spend(e) \in Entry /\ Spend(e).actor = e.actor /\ Spend(e).last = e.last
           /\ \A f \in Entry : f.tokens >= e.tokens => Spend(f).tokens >= Spend(e).tokens
  BY Sizes1 DEF Spend, Entry

\* A map with fewer buckets, those gone being full again or known to be cut.
LEMMA FewerFollow ==
    ASSUME LimiterInv, NEW s \in Seq(Entry), Range(s) \subseteq Range(buckets), NEW c, cut \subseteq c,
           \A e \in Range(buckets) \ Range(s) : e.actor \in c \/ Idle(e)
    PROVE  Follows(s, ideal, c, now)
<1>1. \A a \in Actor \ c : ~Has(s, a) =>
          ideal[a].last <= now /\ ideal[a].tokens + (now - ideal[a].last) >= Capacity
  <2> SUFFICES ASSUME NEW a \in Actor \ c, ~Has(s, a)
               PROVE  ideal[a].last <= now /\ ideal[a].tokens + (now - ideal[a].last) >= Capacity
    OBVIOUS
  <2>1. CASE ~Has(buckets, a)
    BY <2>1 DEF LimiterInv, Follows
  <2>2. CASE Has(buckets, a)
    <3>1. PICK e \in Range(buckets) : e.actor = a
      BY <2>2 DEF Has
    <3>2. e \notin Range(s)
      BY <3>1 DEF Has
    <3>3. Idle(e) /\ e = ideal[a]
      BY <3>1, <3>2 DEF LimiterInv, Follows
    <3>4. ideal[a].last \in Nat /\ ideal[a].tokens \in Nat /\ now \in Nat
      BY Sizes1 DEF LimiterInv, Entry
    <3> QED
      BY <3>3, <3>4, Sizes1 DEF Idle
  <2> QED
    BY <2>1, <2>2
<1> QED
  BY <1>1 DEF LimiterInv, Follows

LEMMA SweptFollows ==
    ASSUME LimiterInv
    PROVE  /\ Follows(Swept, ideal, cut, now) /\ Range(Swept) \subseteq Range(buckets)
           /\ Swept \in Seq(Entry)
<1>1. buckets \in Seq(Entry)
  BY DEF LimiterInv, Follows
<1>2. CASE SweepDue
  <2> DEFINE T == {e \in Range(buckets) : ~Idle(e)}
  <2>1. Swept = Keeping(buckets, T)
    BY <1>2 DEF Swept
  <2>2. Swept \in Seq(Entry) /\ Range(Swept) = Range(buckets) \cap T
    BY <1>1, <2>1, KeepingMembers
  <2> QED
    BY <2>2, FewerFollow
<1>3. CASE ~SweepDue
  BY <1>1, <1>3 DEF Swept, LimiterInv
<1> QED
  BY <1>2, <1>3

\* The bucket of an actor, as a check finds it.
LEMMA FoundFollows ==
    ASSUME LimiterInv, NEW a \in Actor
    PROVE  /\ Found(a) \in Entry /\ Found(a).actor = a /\ Found(a).last = now
           /\ Found(a).tokens >= Refill(ideal[a]).tokens
           /\ a \notin cut => Found(a) = Refill(ideal[a])
<1>1. Follows(Swept, ideal, cut, now) /\ now \in Nat /\ ideal[a] \in Entry /\ ideal[a].actor = a
  BY SweptFollows DEF LimiterInv
<1>2. Range(Swept) \subseteq Entry
  BY <1>1 DEF Follows, Range
<1>3. CASE Has(Swept, a)
  <2> DEFINE e == CHOOSE f \in Range(Swept) : f.actor = a
  <2>1. e \in Range(Swept) /\ e.actor = a
    BY <1>3 DEF Has
  <2>2. Found(a) = Refill(e)
    BY <1>3 DEF Found
  <2> HIDE DEF e
  <2>3. e \in Entry /\ e.last = ideal[a].last /\ e.tokens >= ideal[a].tokens /\ (a \notin cut => e = ideal[a])
    BY <1>1, <1>2, <2>1 DEF Follows
  <2> QED
    BY <1>1, <2>1, <2>2, <2>3, Refilling
<1>4. CASE ~Has(Swept, a)
  <2>1. Found(a) = Full(a)
    BY <1>4 DEF Found
  <2>2. Full(a) \in Entry /\ Full(a).actor = a /\ Full(a).last = now /\ Full(a).tokens = Capacity
    BY <1>1, Sizes1 DEF Full, Entry
  <2>3. Refill(ideal[a]) \in Entry /\ Refill(ideal[a]).actor = a /\ Refill(ideal[a]).last = now
    BY <1>1, Refilling
  <2>4. Refill(ideal[a]).tokens <= Capacity
    BY <2>3, Sizes1 DEF Entry
  <2>5. a \notin cut => Refill(ideal[a]).tokens = Capacity
    BY <1>1, <1>4, Refilling DEF Follows
  <2>6. a \notin cut => Full(a) = Refill(ideal[a])
    BY <2>2, <2>3, <2>5 DEF Entry
  <2> QED
    BY <2>1, <2>2, <2>4, <2>6
<1> QED
  BY <1>3, <1>4

LEMMA LimiterAnswers == LimiterInv => AsIdeal
<1> SUFFICES ASSUME LimiterInv, NEW a \in Actor
             PROVE  LET owed == Refill(ideal[a]).tokens
                    IN  IF a \in cut THEN Found(a).tokens >= owed ELSE Found(a).tokens = owed
  BY DEF AsIdeal
<1> QED
  BY FoundFollows

\* The rest of the map keeps everybody else, but for those the cap evicts.
LEMMA OthersKept ==
    ASSUME LimiterInv, NEW a \in Actor, NEW s \in Seq(Entry)
    PROVE  /\ Others(s, a) \in Seq(Entry)
           /\ Range(Others(s, a)) = {e \in Range(s) : e.actor # a}
<1> DEFINE T == {e \in Range(s) : e.actor # a}
<1>1. Others(s, a) = Keeping(s, T)
  BY DEF Others
<1>2. Others(s, a) \in Seq(Entry) /\ Range(Others(s, a)) = Range(s) \cap T
  BY <1>1, KeepingMembers
<1> QED
  BY <1>2

LEMMA KeptRest ==
    ASSUME LimiterInv, NEW a \in Actor
    PROVE  /\ Kept(a) \in Seq(Entry) /\ Range(Kept(a)) \subseteq Range(Others(Swept, a))
           /\ Has(Swept, a) => Kept(a) = Others(Swept, a)
<1> DEFINE rest == Others(Swept, a)
<1>1. rest \in Seq(Entry)
  BY SweptFollows, OthersKept
<1> HIDE DEF rest
<1>2. CASE ~Has(Swept, a) /\ Len(rest) >= MaxBuckets
  <2>1. Kept(a) = SubSeq(rest, Len(rest) - MaxBuckets + 2, Len(rest))
    BY <1>2 DEF Kept, rest
  <2>2. Len(rest) \in Nat /\ Len(rest) - MaxBuckets + 2 >= 1
    BY <1>1, <1>2, Sizes1
  <2>3. Kept(a) \in Seq(Entry) /\ Range(Kept(a)) \subseteq Range(rest)
    BY <1>1, <2>1, <2>2, Sizes1 DEF Range
  <2> QED
    BY <1>2, <2>3 DEF rest
<1>3. CASE ~(~Has(Swept, a) /\ Len(rest) >= MaxBuckets)
  BY <1>1, <1>3 DEF Kept, rest
<1> QED
  BY <1>2, <1>3

CutBy(a) == cut \cup {e.actor : e \in Range(Others(Swept, a)) \ Range(Kept(a))}

\* What is left of the map without a, and what is added to it.
LEMMA RestFollows ==
    ASSUME LimiterInv, NEW a \in Actor
    PROVE  /\ \A e, f \in Range(Kept(a)) : e.actor = f.actor => e = f
           /\ \A e \in Range(Kept(a)) :
                /\ e \in Entry /\ e.actor # a
                /\ e.last = ideal[e.actor].last /\ e.tokens >= ideal[e.actor].tokens
                /\ e.actor \notin CutBy(a) => e = ideal[e.actor]
           /\ \A b \in Actor \ (CutBy(a) \cup {a}) : ~Has(Kept(a), b) =>
                ideal[b].last <= now /\ ideal[b].tokens + (now - ideal[b].last) >= Capacity
<1>1. Follows(Swept, ideal, cut, now) /\ Swept \in Seq(Entry)
  BY SweptFollows
<1>2. Range(Others(Swept, a)) = {e \in Range(Swept) : e.actor # a} /\ Range(Kept(a)) \subseteq Range(Others(Swept, a))
  BY <1>1, OthersKept, KeptRest
<1>3. Range(Kept(a)) \subseteq Entry
  BY KeptRest DEF Range
<1>4. \A b \in Actor \ (CutBy(a) \cup {a}) : Has(Swept, b) => Has(Kept(a), b)
  <2> SUFFICES ASSUME NEW b \in Actor \ (CutBy(a) \cup {a}), Has(Swept, b) PROVE Has(Kept(a), b)
    OBVIOUS
  <2>1. PICK e \in Range(Swept) : e.actor = b
    BY DEF Has
  <2>2. e \in Range(Others(Swept, a)) /\ e \in Range(Kept(a))
    BY <1>2, <2>1 DEF CutBy
  <2> QED
    BY <2>1, <2>2 DEF Has
<1> QED
  BY <1>1, <1>2, <1>3, <1>4 DEF Follows, CutBy

LEMMA Adding ==
    ASSUME LimiterInv, NEW a \in Actor, NEW e \in Entry, e.actor = a, NEW i \in Entry, i.actor = a,
           e.last = i.last, e.tokens >= i.tokens, a \notin cut => e = i
    PROVE  Follows(Append(Kept(a), e), [ideal EXCEPT ![a] = i], CutBy(a), now)
<1> DEFINE s == Append(Kept(a), e)
           id == [ideal EXCEPT ![a] = i]
<1>1. s \in Seq(Entry) /\ Range(s) = Range(Kept(a)) \cup {e}
  BY KeptRest, RangeOfAppend
<1>2. id[a] = i /\ \A b \in Actor \ {a} : id[b] = ideal[b]
  BY DEF LimiterInv
<1>3. \A f \in Range(Kept(a)) : f.actor # a /\ f.actor \in Actor
  BY RestFollows DEF Entry
<1>4. cut \subseteq CutBy(a)
  BY DEF CutBy
<1>5. \A b \in Actor : Has(s, b) <=> b = a \/ Has(Kept(a), b)
  BY <1>1 DEF Has
<1> HIDE DEF s, id
<1>6. \A f, g \in Range(s) : f.actor = g.actor => f = g
  BY <1>1, <1>3, RestFollows
<1>7. \A f \in Range(s) : /\ f.last = id[f.actor].last /\ f.tokens >= id[f.actor].tokens
                          /\ f.actor \notin CutBy(a) => f = id[f.actor]
  BY <1>1, <1>2, <1>3, <1>4, RestFollows
<1>8. \A b \in Actor \ CutBy(a) : ~Has(s, b) =>
          id[b].last <= now /\ id[b].tokens + (now - id[b].last) >= Capacity
  BY <1>2, <1>5, RestFollows
<1>9. Follows(s, id, CutBy(a), now)
  BY <1>1, <1>6, <1>7, <1>8 DEF Follows
<1> QED
  BY <1>9 DEF s, id

LEMMA CheckStep ==
    ASSUME LimiterInv, NEW a \in Actor, Check(a)
    PROVE  LimiterInv'
<1> DEFINE e == Spend(Found(a))
           i == Spend(Refill(ideal[a]))
<1>1. ideal[a] \in Entry /\ ideal[a].actor = a /\ now \in Nat
  BY DEF LimiterInv
<1>2. Refill(ideal[a]) \in Entry /\ Refill(ideal[a]).actor = a /\ Refill(ideal[a]).last = now
  BY <1>1, Refilling
<1>3. /\ Found(a) \in Entry /\ Found(a).actor = a /\ Found(a).last = now
      /\ Found(a).tokens >= Refill(ideal[a]).tokens /\ (a \notin cut => Found(a) = Refill(ideal[a]))
  BY FoundFollows
<1>4. /\ e \in Entry /\ e.actor = a /\ e.last = now
      /\ i \in Entry /\ i.actor = a /\ i.last = now
      /\ e.tokens >= i.tokens /\ (a \notin cut => e = i)
  BY <1>2, <1>3, Spending
<1>5. buckets' = Append(Kept(a), e) /\ ideal' = [ideal EXCEPT ![a] = i] /\ cut' = CutBy(a) /\ now' = now
  BY DEF Check, CutBy
<1> HIDE DEF e, i
<1>6. Follows(buckets', ideal', cut', now')
  BY <1>4, <1>5, Adding
<1>7. ideal' \in [Actor -> Entry] /\ \A b \in Actor : ideal'[b].actor = b
  BY <1>4, <1>5 DEF LimiterInv
<1> QED
  BY <1>1, <1>5, <1>6, <1>7 DEF LimiterInv

\* Without a bucket for a, everything else being as it was.
LEMMA Released ==
    ASSUME LimiterInv, NEW a \in Actor, NEW s, s \in {buckets, Swept},
           buckets' = Others(s, a), ideal' = [ideal EXCEPT ![a] = Full(a)], cut' = cut \ {a}, now' = now
    PROVE  LimiterInv'
<1>1. Follows(s, ideal, cut, now) /\ s \in Seq(Entry) /\ now \in Nat
  BY SweptFollows DEF LimiterInv, Follows
<1>2. buckets' \in Seq(Entry) /\ Range(buckets') = {e \in Range(s) : e.actor # a}
  BY <1>1, OthersKept
<1>3. Full(a) \in Entry /\ Full(a).actor = a /\ Full(a).last = now /\ Full(a).tokens = Capacity
  BY <1>1, Sizes1 DEF Full, Entry
<1>4. ideal' \in [Actor -> Entry] /\ (\A b \in Actor : ideal'[b].actor = b)
      /\ ideal'[a] = Full(a) /\ \A b \in Actor \ {a} : ideal'[b] = ideal[b]
  BY <1>3 DEF LimiterInv
<1>5. \A b \in Actor \ {a} : Has(s, b) => Has(buckets', b)
  BY <1>2 DEF Has
<1>6. Range(s) \subseteq Entry
  BY <1>1 DEF Range
<1>7. \A b \in Actor \ cut' : ~Has(buckets', b) =>
          ideal'[b].last <= now /\ ideal'[b].tokens + (now - ideal'[b].last) >= Capacity
  <2> SUFFICES ASSUME NEW b \in Actor \ cut', ~Has(buckets', b)
               PROVE  ideal'[b].last <= now /\ ideal'[b].tokens + (now - ideal'[b].last) >= Capacity
    OBVIOUS
  <2>1. CASE b = a
    BY <1>1, <1>3, <1>4, <2>1, Sizes1
  <2>2. CASE b # a
    BY <1>1, <1>4, <1>5, <2>2 DEF Follows
  <2> QED
    BY <2>1, <2>2
<1>8. \A e \in Range(buckets') :
          /\ e.last = ideal'[e.actor].last /\ e.tokens >= ideal'[e.actor].tokens
          /\ e.actor \notin cut' => e = ideal'[e.actor]
  BY <1>1, <1>2, <1>4, <1>6 DEF Follows, Entry
<1>9. \A e, f \in Range(buckets') : e.actor = f.actor => e = f
  BY <1>1, <1>2 DEF Follows
<1>10. Follows(buckets', ideal', cut', now')
  BY <1>2, <1>7, <1>8, <1>9 DEF Follows
<1> QED
  BY <1>1, <1>4, <1>10 DEF LimiterInv

LEMMA ReleaseStep ==
    ASSUME LimiterInv, NEW a \in Actor, Release(a)
    PROVE  LimiterInv'
  BY Released DEF Release

\* An actor that is refused has a bucket, so the cap evicts nobody for it.
LEMMA KickedStep ==
    ASSUME LimiterInv, Kicked
    PROVE  LimiterInv'
<1>1. Peer \in Actor
  BY FramesAssumption
<1>2. Has(Swept, Peer)
  BY Sizes1 DEF Kicked, Allows, Found, Full
<1>3. buckets' = Others(Swept, Peer)
  BY <1>1, <1>2, KeptRest DEF Kicked
<1> QED
  BY <1>1, <1>3, Released DEF Kicked

LEMMA TickStep ==
    ASSUME LimiterInv, Tick
    PROVE  LimiterInv'
<1>1. now \in Nat /\ now' = now + 1 /\ buckets' = buckets /\ ideal' = ideal /\ cut' = cut
  BY DEF LimiterInv, Tick
<1>2. \A a \in Actor : ideal[a].last \in Nat /\ ideal[a].tokens \in Nat
  BY Sizes1 DEF LimiterInv, Entry
<1>3. \A a \in Actor : ideal[a].last <= now /\ ideal[a].tokens + (now - ideal[a].last) >= Capacity
                       => ideal[a].last <= now' /\ ideal[a].tokens + (now' - ideal[a].last) >= Capacity
  BY <1>1, <1>2, Sizes1
<1> QED
  BY <1>1, <1>3 DEF LimiterInv, Follows, Has

LEMMA StepBackStep ==
    ASSUME LimiterInv, StepBack
    PROVE  LimiterInv'
<1>1. now' \in Nat /\ buckets' = buckets /\ ideal' = ideal
      /\ cut' = cut \cup {a \in Actor : ~Has(buckets, a)}
  BY DEF LimiterInv, StepBack
<1> QED
  BY <1>1 DEF LimiterInv, Follows, Has

LEMMA LimiterStep == LimiterInv /\ [Next]_vars => LimiterInv'
<1> SUFFICES ASSUME LimiterInv, [Next]_vars PROVE LimiterInv'
  OBVIOUS
<1>1. CASE UNCHANGED limiter
  BY <1>1 DEF limiter, LimiterInv, Follows, Has
<1>2. CASE \E a \in Actor : Check(a) \/ Release(a)
  BY <1>2, CheckStep, ReleaseStep
<1>3. CASE Tick \/ StepBack
  BY <1>3, TickStep, StepBackStep
<1>4. CASE Kicked
  BY <1>4, KickedStep
<1>5. \/ UNCHANGED limiter
      \/ \E a \in Actor : Check(a) \/ Release(a)
      \/ Tick \/ StepBack \/ Kicked
  <2>1. Peer \in Actor
    BY FramesAssumption
  <2>2. ASSUME NEW frames, NEW quick, NEW bytes, HandOver(frames, quick, bytes)
        PROVE  UNCHANGED limiter \/ Check(Peer)
    BY <2>2 DEF HandOver
  <2>3. ASSUME NEW i \in DOMAIN wire, Deliver(i)
        PROVE  UNCHANGED limiter \/ Check(Peer)
    BY <2>2, <2>3 DEF Deliver, Receive
  <2>4. ASSUME NEW n \in fast, DeliverFast(n) \/ LoseFast(n)
        PROVE  UNCHANGED limiter \/ Check(Peer)
    BY <2>2, <2>4 DEF DeliverFast, LoseFast
  <2>5. ASSUME NEW size, DropBuffered(size) \/ \E quick \in BOOLEAN : Send(size, quick)
        PROVE  UNCHANGED limiter
    BY <2>5 DEF DropBuffered, Send
  <2>6. ASSUME Open \/ Close \/ FastCloses \/ Evict
        PROVE  UNCHANGED limiter \/ Release(Peer)
    BY <2>6 DEF Open, Close, FastCloses, Evict
  <2>7. ASSUME Elsewhere
        PROVE  Tick \/ StepBack \/ \E a \in Actor : Check(a) \/ Release(a)
    BY <2>1, <2>7 DEF Elsewhere
  <2>8. ASSUME UNCHANGED vars PROVE UNCHANGED limiter
    BY <2>8 DEF vars
  <2> QED
    BY <2>1, <2>3, <2>4, <2>5, <2>6, <2>7, <2>8 DEF Next
<1> QED
  BY <1>1, <1>2, <1>3, <1>4, <1>5

LEMMA LimiterStart == Init => LimiterInv
<1> SUFFICES ASSUME Init PROVE LimiterInv
  OBVIOUS
<1>1. now = 0 /\ buckets = <<>> /\ ideal = [a \in Actor |-> Full(a)] /\ cut = {}
  BY DEF Init, LimiterInit
<1>2. \A a \in Actor : /\ Full(a) \in Entry /\ Full(a).actor = a
                       /\ Full(a).last = 0 /\ Full(a).tokens = Capacity
  BY <1>1, Sizes1 DEF Full, Entry
<1>3. Range(buckets) = {} /\ buckets \in Seq(Entry)
  BY <1>1 DEF Range
<1> QED
  BY <1>1, <1>2, <1>3, Sizes1 DEF LimiterInv, Follows

\* Dropping buckets never makes the limiter stricter, and is invisible, except to an
\* actor that the cap has evicted or that had no bucket when the clock went back
\* (TokenBucketRateLimiter.check, sweep, evict).
THEOREM DroppingIsInvisible == Spec => []AsIdeal
<1>1. Spec => []LimiterInv
  BY LimiterStart, LimiterStep, PTL DEF Spec
<1> QED
  BY <1>1, LimiterAnswers, PTL

-----------------------------------------------------------------------------
(* Frames and their sequence numbers.                                      *)

\* A message, whatever it says.
Piece == [frame : Nat, seq : Int, total : Nat, index : Nat]
Numbers == 0..SeqNumbers - 1

LEMMA ChunksAre ==
    /\ Size = {"small", "large", "huge", "oversize"}
    /\ Chunks["small"] = 1 /\ Chunks["large"] = 2 /\ Chunks["huge"] = 3 /\ Chunks["oversize"] = 0
  BY DEF Size, Chunks

\* Numbers two apart are different, because there are more than two.
LEMMA NextNumber ==
    ASSUME NEW t \in Numbers
    PROVE  /\ (t + 1) % SeqNumbers = IF t = SeqNumbers - 1 THEN 0 ELSE t + 1
           /\ (t + 2) % SeqNumbers = IF t = SeqNumbers - 1 THEN 1
                                     ELSE IF t = SeqNumbers - 2 THEN 0 ELSE t + 2
<1>1. SeqNumbers \in Nat /\ SeqNumbers > 2
  BY FramesAssumption
<1>2. (t + 1) % SeqNumbers = IF t = SeqNumbers - 1 THEN 0 ELSE t + 1
  BY <1>1, SMTT(30) DEF Numbers
<1>3. (t + 2) % SeqNumbers = IF t = SeqNumbers - 1 THEN 1 ELSE IF t = SeqNumbers - 2 THEN 0 ELSE t + 2
  BY <1>1, SMTT(30) DEF Numbers
<1> QED
  BY <1>2, <1>3

LEMMA NumbersApart ==
    ASSUME NEW t \in Numbers
    PROVE  /\ (t + 1) % SeqNumbers \in Numbers /\ (t + 1) % SeqNumbers # t
           /\ (t + 2) % SeqNumbers \in Numbers /\ (t + 2) % SeqNumbers # t
           /\ (((t + 1) % SeqNumbers) + 1) % SeqNumbers = (t + 2) % SeqNumbers
           /\ t < SeqNumbers - 1 => (t + 1) % SeqNumbers = t + 1
<1>1. SeqNumbers \in Nat /\ SeqNumbers > 2
  BY FramesAssumption
<1> DEFINE u == (t + 1) % SeqNumbers
           v == (t + 2) % SeqNumbers
<1>2. u = IF t = SeqNumbers - 1 THEN 0 ELSE t + 1
  BY NextNumber
<1>3. v = IF t = SeqNumbers - 1 THEN 1 ELSE IF t = SeqNumbers - 2 THEN 0 ELSE t + 2
  BY NextNumber
<1>4. u \in Numbers
  BY <1>1, <1>2 DEF Numbers
<1>5. (u + 1) % SeqNumbers = IF u = SeqNumbers - 1 THEN 0 ELSE u + 1
  BY <1>4, NextNumber
<1> HIDE DEF u, v
<1>6. v \in Numbers /\ u # t /\ v # t /\ (t < SeqNumbers - 1 => u = t + 1)
  BY <1>1, <1>2, <1>3 DEF Numbers
<1>7. (u + 1) % SeqNumbers = v
  BY <1>1, <1>2, <1>3, <1>5 DEF Numbers
<1> QED
  BY <1>4, <1>6, <1>7 DEF u, v

\* The frame o, or the next one if none has been sent since, has the number t after the
\* number s of the frame n.
After(n, s, o, t, snt) ==
    \/ t = (s + 1) % SeqNumbers
    \/ t = (s + 2) % SeqNumbers /\ \E k \in n + 1..o - 1 : snt[k] = "oversize"

\* P says which frames have which numbers, t is the next number.  Without order, numbers
\* rise; in order, each is the one after the last, or the one after that if a frame was
\* dropped in between.
InTurn(P, t, snt) ==
    \A x \in P :
        /\ \A y \in P : x[1] < y[1] /\ (\A z \in P : z[1] <= x[1] \/ y[1] <= z[1])
                             => After(x[1], x[2], y[1], y[2], snt)
        /\ (\A z \in P : z[1] <= x[1]) => After(x[1], x[2], Len(snt) + 1, t, snt)
Rising(P, t) == \A x \in P : x[2] < t /\ \A y \in P : x[1] < y[1] => x[2] < y[2]
OneEach(P) == \A x, y \in P : x[1] = y[1] => x[2] = y[2]
Chain(P, t, snt) ==
    /\ P \subseteq (1..Len(snt)) \X Numbers /\ t \in Numbers
    /\ OneEach(P)
    /\ ordered => InTurn(P, t, snt)
    /\ ~ordered => Rising(P, t)

\* What is left when, in order, the first frames go.
LEMMA ChainShrinks ==
    ASSUME NEW P, NEW t, NEW snt, Chain(P, t, snt), NEW Q, Q \subseteq P,
           ordered => \A x \in Q : \A y \in P : x[1] <= y[1] => y \in Q
    PROVE  Chain(Q, t, snt)
<1>1. P \subseteq (1..Len(snt)) \X Numbers
  BY DEF Chain, OneEach, InTurn, Rising
<1>2. \A x \in P : x[1] \in 1..Len(snt)
  BY <1>1
<1>3. CASE ordered
  <2>1. ASSUME NEW x \in Q, NEW y \in Q, x[1] < y[1], \A z \in Q : z[1] <= x[1] \/ y[1] <= z[1]
        PROVE  After(x[1], x[2], y[1], y[2], snt)
    <3>1. \A z \in P : z[1] <= x[1] \/ y[1] <= z[1]
      BY <1>2, <1>3, <2>1
    <3> QED
      BY <1>3, <2>1, <3>1 DEF Chain, OneEach, InTurn, Rising
  <2>2. ASSUME NEW x \in Q, \A z \in Q : z[1] <= x[1]
        PROVE  After(x[1], x[2], Len(snt) + 1, t, snt)
    <3>1. \A z \in P : z[1] <= x[1]
      BY <1>2, <1>3, <2>2
    <3> QED
      BY <1>3, <3>1 DEF Chain, OneEach, InTurn, Rising
  <2> QED
    BY <1>3, <2>1, <2>2 DEF Chain, OneEach, InTurn, Rising
<1>4. CASE ~ordered
  BY <1>4 DEF Chain, OneEach, InTurn, Rising
<1> QED
  BY <1>3, <1>4

\* Neighbours have different numbers.
LEMMA ChainTells ==
    ASSUME NEW P, NEW t, NEW snt, Chain(P, t, snt), NEW x \in P, NEW y \in P, x[1] < y[1],
           ordered => \A z \in P : z[1] <= x[1] \/ y[1] <= z[1]
    PROVE  x[2] # y[2]
<1>1. x[2] \in Numbers /\ y[2] \in Numbers
  BY DEF Chain, OneEach, InTurn, Rising
<1>2. CASE ordered
  BY <1>1, <1>2, NumbersApart DEF Chain, OneEach, InTurn, Rising, After
<1>3. CASE ~ordered
  BY <1>1, <1>3 DEF Chain, OneEach, InTurn, Rising, Numbers
<1> QED
  BY <1>2, <1>3

\* Another frame is sent.
LEMMA SentGrows ==
    ASSUME NEW snt \in Seq(Size), NEW size \in Size
    PROVE  /\ Append(snt, size) \in Seq(Size) /\ Len(Append(snt, size)) = Len(snt) + 1 /\ Len(snt) \in Nat
           /\ Append(snt, size)[Len(snt) + 1] = size
           /\ \A n \in 1..Len(snt) : Append(snt, size)[n] = snt[n] /\ n \in 1..Len(snt) + 1
  OBVIOUS

LEMMA AfterGrows ==
    ASSUME NEW snt \in Seq(Size), NEW size \in Size, NEW n \in 1..Len(snt), NEW s, NEW o \in 1..Len(snt) + 1,
           NEW t, After(n, s, o, t, snt)
    PROVE  /\ After(n, s, o, t, Append(snt, size))
           /\ o = Len(snt) + 1 => After(n, s, o + 1, t, Append(snt, size))
<1>1. \A k \in n + 1..o - 1 : k \in 1..Len(snt)
  BY SentGrows
<1>2. \A k \in n + 1..o - 1 : Append(snt, size)[k] = snt[k]
  BY <1>1, SentGrows
<1>3. \A k \in n + 1..o - 1 : k \in n + 1..o + 1 - 1
  BY SentGrows
<1> QED
  BY <1>2, <1>3 DEF After

\* A frame without a number of its own.
LEMMA ChainWaits ==
    ASSUME NEW snt \in Seq(Size), NEW size \in Size, NEW P, NEW t, Chain(P, t, snt)
    PROVE  Chain(P, t, Append(snt, size))
<1> DEFINE s2 == Append(snt, size)
           l == Len(snt)
<1>1. s2 \in Seq(Size) /\ Len(s2) = l + 1 /\ l \in Nat
  BY SentGrows
<1>2. P \subseteq (1..l) \X Numbers /\ t \in Numbers
  BY DEF Chain, OneEach, InTurn, Rising
<1>3. \A x \in P : x[1] \in 1..l /\ x[2] \in Numbers
  BY <1>2
<1>4. P \subseteq (1..Len(s2)) \X Numbers
  BY <1>1, <1>2
<1>5. CASE ordered
  <2>1. ASSUME NEW x \in P, NEW y \in P, x[1] < y[1], \A z \in P : z[1] <= x[1] \/ y[1] <= z[1]
        PROVE  After(x[1], x[2], y[1], y[2], s2)
    <3>1. After(x[1], x[2], y[1], y[2], snt)
      BY <1>5, <2>1 DEF Chain, OneEach, InTurn, Rising
    <3>2. y[1] \in 1..l + 1
      BY <1>1, <1>3
    <3> QED
      BY <1>3, <3>1, <3>2, AfterGrows
  <2>2. ASSUME NEW x \in P, \A z \in P : z[1] <= x[1]
        PROVE  After(x[1], x[2], Len(s2) + 1, t, s2)
    <3>1. After(x[1], x[2], l + 1, t, snt)
      BY <1>5, <2>2 DEF Chain, OneEach, InTurn, Rising
    <3>2. l + 1 \in 1..l + 1
      BY <1>1
    <3>3. After(x[1], x[2], l + 1 + 1, t, s2)
      BY <1>3, <3>1, <3>2, AfterGrows
    <3> QED
      BY <1>1, <3>3
  <2> HIDE DEF s2, l
  <2>3. InTurn(P, t, s2)
    BY <2>1, <2>2 DEF InTurn
  <2>9. Chain(P, t, s2)
    BY <1>2, <1>4, <1>5, <2>3 DEF Chain
  <2> QED
    BY <2>9 DEF s2
<1>6. CASE ~ordered
  <2> HIDE DEF s2, l
  <2>9. Chain(P, t, s2)
    BY <1>2, <1>4, <1>6 DEF Chain
  <2> QED
    BY <2>9 DEF s2
<1> QED
  BY <1>5, <1>6

\* A frame is cut into chunks.
LEMMA ChainGrows ==
    ASSUME NEW snt \in Seq(Size), NEW size \in Size, NEW P, NEW t, Chain(P, t, snt),
           ~ordered => t < SeqNumbers - 1
    PROVE  Chain(P \cup {<<Len(snt) + 1, t>>}, (t + 1) % SeqNumbers, Append(snt, size))
<1> DEFINE s2 == Append(snt, size)
           l == Len(snt)
           w == <<l + 1, t>>
           Q == P \cup {w}
           u == (t + 1) % SeqNumbers
<1>1. s2 \in Seq(Size) /\ Len(s2) = l + 1 /\ l \in Nat
  BY SentGrows
<1>2. P \subseteq (1..l) \X Numbers /\ t \in Numbers
  BY DEF Chain, OneEach, InTurn, Rising
<1>3. \A x \in P : x[1] \in 1..l /\ x[2] \in Numbers /\ x[1] < l + 1
  BY <1>1, <1>2
<1>4. u \in Numbers /\ (t < SeqNumbers - 1 => u = t + 1)
  BY <1>2, NumbersApart
<1>5. w[1] = l + 1 /\ w[2] = t /\ \A x \in Q : x \in P \/ x = w
  OBVIOUS
<1>6. Q \subseteq (1..Len(s2)) \X Numbers
  BY <1>1, <1>2
<1> HIDE DEF w, s2, l, u
<1>7. OneEach(Q)
  BY <1>1, <1>3, <1>5 DEF Chain, OneEach
<1>8. CASE ordered
  <2>1. ASSUME NEW x \in Q, NEW y \in Q, x[1] < y[1], \A z \in Q : z[1] <= x[1] \/ y[1] <= z[1]
        PROVE  After(x[1], x[2], y[1], y[2], s2)
    <3>1. x \in P /\ x[1] \in 1..l
      BY <1>1, <1>3, <1>5, <2>1
    <3>2. CASE y \in P
      <4>1. \A z \in P : z[1] <= x[1] \/ y[1] <= z[1]
        BY <2>1
      <4>2. After(x[1], x[2], y[1], y[2], snt)
        BY <1>8, <2>1, <3>1, <3>2, <4>1 DEF Chain, OneEach, InTurn, Rising
      <4>3. y[1] \in 1..l + 1
        BY <1>1, <1>3, <3>2
      <4> QED
        BY <3>1, <4>2, <4>3, AfterGrows DEF s2, l
    <3>3. CASE y = w
      <4>1. \A z \in P : z[1] <= x[1]
        BY <1>1, <1>3, <1>5, <2>1, <3>3
      <4>2. After(x[1], x[2], l + 1, t, snt)
        BY <1>8, <3>1, <4>1 DEF Chain, InTurn, l
      <4>3. l + 1 \in 1..l + 1
        BY <1>1
      <4> QED
        BY <1>5, <3>1, <3>3, <4>2, <4>3, AfterGrows DEF s2, l
    <3> QED
      BY <1>5, <3>2, <3>3
  <2>2. ASSUME NEW x \in Q, \A z \in Q : z[1] <= x[1]
        PROVE  After(x[1], x[2], Len(s2) + 1, u, s2)
    <3>1. x = w
      <4>1. w \in Q /\ w[1] <= x[1]
        BY <2>2
      <4> QED
        BY <1>1, <1>3, <1>5, <4>1
    <3> QED
      BY <1>5, <3>1 DEF After, u
  <2> HIDE DEF Q
  <2>3. InTurn(Q, u, s2)
    BY <2>1, <2>2 DEF InTurn
  <2>9. Chain(Q, u, s2)
    BY <1>4, <1>6, <1>7, <1>8, <2>3 DEF Chain
  <2> QED
    BY <2>9 DEF Q, w, l, u, s2
<1>9. CASE ~ordered
  <2>1. u = t + 1
    BY <1>4, <1>9
  <2>2. \A x \in P : x[2] < t /\ x[2] \in Nat /\ t \in Nat
    BY <1>2, <1>3, <1>9 DEF Chain, OneEach, InTurn, Rising, Numbers
  <2>3. Rising(Q, u)
    <3>1. \A x \in Q : x[2] < u
      BY <1>2, <1>5, <2>1, <2>2 DEF Numbers
    <3>2. ASSUME NEW x \in Q, NEW y \in Q, x[1] < y[1] PROVE x[2] < y[2]
      <4>1. x \in P
        BY <1>1, <1>3, <1>5, <3>2
      <4> QED
        BY <1>5, <1>9, <2>2, <3>2, <4>1 DEF Chain, OneEach, InTurn, Rising
    <3> HIDE DEF Q
    <3> QED
      BY <3>1, <3>2 DEF Rising
  <2> HIDE DEF Q
  <2>9. Chain(Q, u, s2)
    BY <1>4, <1>6, <1>7, <1>9, <2>3 DEF Chain
  <2> QED
    BY <2>9 DEF Q, w, l, u, s2
<1> QED
  BY <1>8, <1>9 DEF w, s2, l, u

\* The first frame that needs too many chunks is dropped, but uses up a number.
LEMMA ChainSkips ==
    ASSUME NEW snt \in Seq(Size), NEW P, NEW t, Chain(P, t, snt),
           \A n \in 1..Len(snt) : snt[n] # "oversize", ~ordered => t < SeqNumbers - 1
    PROVE  Chain(P, (t + 1) % SeqNumbers, Append(snt, "oversize"))
<1> DEFINE s2 == Append(snt, "oversize")
           l == Len(snt)
           u == (t + 1) % SeqNumbers
<1>1. /\ "oversize" \in Size /\ s2 \in Seq(Size) /\ Len(s2) = l + 1 /\ l \in Nat
      /\ s2[l + 1] = "oversize"
  BY SentGrows, ChunksAre
<1>2. P \subseteq (1..l) \X Numbers /\ t \in Numbers
  BY DEF Chain, OneEach, InTurn, Rising
<1>3. \A x \in P : x[1] \in 1..l /\ x[2] \in Numbers
  BY <1>2
<1>4. u \in Numbers /\ (t < SeqNumbers - 1 => u = t + 1)
  BY <1>2, NumbersApart
<1>5. Chain(P, t, s2)
  BY <1>1, ChainWaits
<1> HIDE DEF s2, l
<1>6. CASE ordered
  <2>1. ASSUME NEW x \in P, \A z \in P : z[1] <= x[1]
        PROVE  After(x[1], x[2], Len(s2) + 1, u, s2)
    <3>1. After(x[1], x[2], l + 1, t, snt)
      BY <1>6, <2>1 DEF Chain, InTurn, l
    <3>2. ~ \E k \in x[1] + 1..(l + 1) - 1 : snt[k] = "oversize"
      <4>1. \A k \in x[1] + 1..(l + 1) - 1 : k \in 1..l
        BY <1>1, <1>3
      <4> QED
        BY <4>1 DEF l
    <3>3. t = (x[2] + 1) % SeqNumbers
      BY <3>1, <3>2 DEF After
    <3>4. u = (x[2] + 2) % SeqNumbers
      BY <1>3, <3>3, NumbersApart
    <3>5. l + 1 \in x[1] + 1..(Len(s2) + 1) - 1
      BY <1>1, <1>3
    <3> HIDE DEF u
    <3> QED
      BY <1>1, <3>4, <3>5 DEF After
  <2>2. InTurn(P, t, s2)
    BY <1>5, <1>6 DEF Chain
  <2> HIDE DEF u
  <2>3. InTurn(P, u, s2)
    BY <2>1, <2>2 DEF InTurn
  <2>9. Chain(P, u, s2)
    BY <1>4, <1>5, <1>6, <2>3 DEF Chain
  <2> QED
    BY <2>9 DEF u, s2
<1>7. CASE ~ordered
  <2>1. \A x \in P : x[2] < u
    BY <1>2, <1>3, <1>4, <1>7 DEF Chain, Rising, Numbers
  <2>2. Rising(P, u)
    BY <1>7, <2>1 DEF Chain, Rising
  <2> HIDE DEF u
  <2>9. Chain(P, u, s2)
    BY <1>4, <1>5, <1>7, <2>2 DEF Chain
  <2> QED
    BY <2>9 DEF u, s2
<1> QED
  BY <1>6, <1>7 DEF s2

-----------------------------------------------------------------------------
(* The wire.                                                               *)

IsFrame(n, snt) == n \in 1..Len(snt) /\ snt[n] # "oversize"

\* A message is a frame that was sent, or a chunk of one.
Sound(m, snt) ==
    /\ m \in Piece /\ IsFrame(m.frame, snt)
    /\ m.total = Chunks[snt[m.frame]] /\ m.index \in 1..m.total
    /\ IF snt[m.frame] = "small" THEN m.seq = -1 ELSE m.seq \in Numbers

Single(w) == \A i, j \in 1..Len(w) : w[i].frame = w[j].frame /\ w[i].index = w[j].index => i = j
Sorted(w) == \A i, j \in 1..Len(w) : i < j => w[i].frame <= w[j].frame

WireOK(w, snt) ==
    /\ w \in Seq(Piece) /\ \A m \in Range(w) : Sound(m, snt)
    /\ Single(w)
    /\ ordered => Sorted(w)

LEMMA FramesGrow ==
    ASSUME NEW snt \in Seq(Size), NEW size \in Size
    PROVE  /\ \A n : IsFrame(n, snt) => IsFrame(n, Append(snt, size)) /\ Append(snt, size)[n] = snt[n]
           /\ \A m : Sound(m, snt) => Sound(m, Append(snt, size))
           /\ size # "oversize" => IsFrame(Len(snt) + 1, Append(snt, size))
<1> DEFINE s2 == Append(snt, size)
<1>1. /\ Len(s2) = Len(snt) + 1 /\ Len(snt) \in Nat /\ s2[Len(snt) + 1] = size
      /\ \A n \in 1..Len(snt) : s2[n] = snt[n] /\ n \in 1..Len(snt) + 1
  BY SentGrows
<1> HIDE DEF s2
<1>2. \A n : IsFrame(n, snt) => IsFrame(n, s2) /\ s2[n] = snt[n]
  BY <1>1 DEF IsFrame
<1>3. \A m : Sound(m, snt) => Sound(m, s2)
  BY <1>2 DEF Sound
<1>4. size # "oversize" => IsFrame(Len(snt) + 1, s2)
  BY <1>1 DEF IsFrame
<1> QED
  BY <1>2, <1>3, <1>4 DEF s2

\* The messages of a new frame follow all others.
LEMMA WireGrows ==
    ASSUME NEW snt \in Seq(Size), NEW s2, NEW w, WireOK(w, snt), NEW x \in Seq(Piece),
           \A m \in Range(w) : Sound(m, s2), \A m \in Range(x) : Sound(m, s2) /\ m.frame = Len(snt) + 1,
           Single(x)
    PROVE  WireOK(w \o x, s2) /\ Range(w \o x) = Range(w) \cup Range(x)
<1> DEFINE y == w \o x
           a == Len(w)
<1>1. w \in Seq(Piece) /\ Len(snt) \in Nat
  BY DEF WireOK
<1>2. /\ y \in Seq(Piece) /\ Len(y) = a + Len(x) /\ a \in Nat /\ Len(x) \in Nat
      /\ \A i \in 1..Len(y) : y[i] = IF i <= a THEN w[i] ELSE x[i - a]
  BY <1>1, ConcatProperties
<1> HIDE DEF y, a
<1>3. /\ \A i \in 1..a : y[i] = w[i] /\ w[i] \in Range(w)
      /\ \A i \in 1..Len(x) : y[a + i] = x[i] /\ x[i] \in Range(x)
  <2>1. ASSUME NEW i \in 1..a PROVE y[i] = w[i] /\ w[i] \in Range(w)
    <3>1. i \in 1..Len(y) /\ i <= a
      BY <1>2
    <3> QED
      BY <1>1, <1>2, <3>1 DEF Range, a
  <2>2. ASSUME NEW i \in 1..Len(x) PROVE y[a + i] = x[i] /\ x[i] \in Range(x)
    <3>1. a + i \in 1..Len(y) /\ ~(a + i <= a) /\ a + i - a = i
      BY <1>2
    <3>2. y[a + i] = x[i]
      BY <1>2, <3>1
    <3> QED
      BY <3>2 DEF Range
  <2> QED
    BY <2>1, <2>2
<1>4. \A i \in 1..Len(y) : i \in 1..a \/ \E k \in 1..Len(x) : i = a + k
  <2> SUFFICES ASSUME NEW i \in 1..Len(y), ~(i \in 1..a) PROVE \E k \in 1..Len(x) : i = a + k
    OBVIOUS
  <2>1. i - a \in 1..Len(x) /\ i = a + (i - a)
    BY <1>2
  <2> QED
    BY <2>1
<1>5. DOMAIN y = 1..Len(y) /\ DOMAIN w = 1..a /\ DOMAIN x = 1..Len(x)
  BY <1>1, <1>2 DEF a
<1>6. Range(y) = Range(w) \cup Range(x)
  <2>1. \A e \in Range(y) : e \in Range(w) \cup Range(x)
    BY <1>3, <1>4, <1>5 DEF Range
  <2>2. \A e \in Range(w) : e \in Range(y)
    <3> SUFFICES ASSUME NEW i \in 1..a PROVE w[i] \in Range(y)
      BY <1>5 DEF Range
    <3>1. i \in 1..Len(y) /\ y[i] = w[i]
      BY <1>2, <1>3
    <3> QED
      BY <1>5, <3>1 DEF Range
  <2>3. \A e \in Range(x) : e \in Range(y)
    <3> SUFFICES ASSUME NEW i \in 1..Len(x) PROVE x[i] \in Range(y)
      BY <1>5 DEF Range
    <3>1. a + i \in 1..Len(y) /\ y[a + i] = x[i]
      BY <1>2, <1>3
    <3> QED
      BY <1>5, <3>1 DEF Range
  <2> QED
    BY <2>1, <2>2, <2>3
<1>7. \A m \in Range(y) : Sound(m, s2)
  BY <1>6
<1>8. \A i \in 1..a : w[i].frame \in Nat /\ w[i].frame < Len(snt) + 1
  <2> SUFFICES ASSUME NEW i \in 1..a PROVE w[i].frame \in Nat /\ w[i].frame < Len(snt) + 1
    OBVIOUS
  <2>1. Sound(w[i], snt)
    BY <1>3 DEF WireOK
  <2> QED
    BY <1>1, <2>1 DEF Sound, IsFrame
<1>9. \A i \in 1..Len(x) : x[i].frame = Len(snt) + 1
  BY <1>3
<1>10. /\ \A i, j \in 1..a : w[i].frame = w[j].frame /\ w[i].index = w[j].index => i = j
       /\ ordered => \A i, j \in 1..a : i < j => w[i].frame <= w[j].frame
  BY DEF WireOK, Single, Sorted, a
<1>11. Single(y)
  <2> SUFFICES ASSUME NEW i \in 1..Len(y), NEW j \in 1..Len(y), y[i].frame = y[j].frame, y[i].index = y[j].index
               PROVE  i = j
    BY DEF Single
  <2>1. CASE i \in 1..a /\ j \in 1..a
    BY <1>3, <1>10, <2>1
  <2>2. \A k \in 1..Len(y) : k \in 1..a => y[k].frame \in Nat /\ y[k].frame < Len(snt) + 1
    BY <1>3, <1>8
  <2>3. \A k \in 1..Len(y) : ~(k \in 1..a) => y[k].frame = Len(snt) + 1
    BY <1>3, <1>4, <1>9
  <2>4. CASE ~(i \in 1..a) /\ ~(j \in 1..a)
    <3>1. PICK k \in 1..Len(x), l \in 1..Len(x) : i = a + k /\ j = a + l
      BY <1>4, <2>4
    <3>2. x[k].frame = x[l].frame /\ x[k].index = x[l].index
      BY <1>3, <3>1
    <3>3. k = l
      BY <3>2 DEF Single
    <3> QED
      BY <3>1, <3>3
  <2> QED
    BY <1>1, <2>1, <2>2, <2>3, <2>4
<1>12. ordered => Sorted(y)
  <2> SUFFICES ASSUME ordered, NEW i \in 1..Len(y), NEW j \in 1..Len(y), i < j
               PROVE  y[i].frame <= y[j].frame
    BY DEF Sorted
  <2>1. CASE i \in 1..a /\ j \in 1..a
    BY <1>3, <1>10, <2>1
  <2>2. CASE i \in 1..a /\ ~(j \in 1..a)
    BY <1>1, <1>3, <1>4, <1>8, <1>9, <2>2
  <2>3. CASE ~(i \in 1..a) /\ j \in 1..a
    BY <1>2, <2>3
  <2>4. CASE ~(i \in 1..a) /\ ~(j \in 1..a)
    BY <1>1, <1>3, <1>4, <1>9, <2>4
  <2> QED
    BY <2>1, <2>2, <2>3, <2>4
<1> QED
  BY <1>2, <1>6, <1>7, <1>11, <1>12 DEF WireOK, y

\* A message is taken from the wire: in order, it is the first.
LEMMA WireShrinks ==
    ASSUME NEW snt, NEW w, WireOK(w, snt), NEW i \in 1..Len(w), ordered => i = 1
    PROVE  /\ WireOK(Without(w, i), snt) /\ w[i] \in Range(w)
           /\ Range(Without(w, i)) = Range(w) \ {w[i]}
           /\ \A m \in Range(w) : m.frame = w[i].frame /\ m.index = w[i].index => m = w[i]
           /\ ordered => \A m \in Range(w) : w[i].frame <= m.frame
<1> DEFINE r == Without(w, i)
           a == Len(w)
<1>1. w \in Seq(Piece) /\ a \in Nat /\ DOMAIN w = 1..a
  BY DEF WireOK
<1>2. r \in Seq(Piece) /\ Len(r) = a - 1 /\ \A k \in 1..a - 1 : r[k] = IF k < i THEN w[k] ELSE w[k + 1]
  BY <1>1, TakenOut DEF Without
<1>3. DOMAIN r = 1..a - 1
  BY <1>2
<1>4. /\ \A k, j \in 1..a : w[k].frame = w[j].frame /\ w[k].index = w[j].index => k = j
      /\ ordered => \A k, j \in 1..a : k < j => w[k].frame <= w[j].frame
      /\ \A m \in Range(w) : Sound(m, snt)
  BY DEF WireOK, Single, Sorted
<1> HIDE DEF r, a
<1>5. \A m \in Range(w) : \E k \in 1..a : m = w[k]
  BY <1>1 DEF Range
<1>6. \A k \in 1..a : w[k] \in Range(w)
  BY <1>1 DEF Range
<1>7. \A k \in 1..a - 1 : LET h == IF k < i THEN k ELSE k + 1 IN h \in 1..a /\ h # i /\ r[k] = w[h]
  BY <1>1, <1>2 DEF a
<1>8. \A h \in 1..a : h # i => \E k \in 1..a - 1 : r[k] = w[h]
  <2> SUFFICES ASSUME NEW h \in 1..a, h # i PROVE \E k \in 1..a - 1 : r[k] = w[h]
    OBVIOUS
  <2>1. CASE h < i
    <3>1. h \in 1..a - 1
      BY <1>1, <2>1 DEF a
    <3> QED
      BY <1>2, <2>1, <3>1
  <2>2. CASE ~(h < i)
    <3>1. h - 1 \in 1..a - 1 /\ ~(h - 1 < i) /\ h - 1 + 1 = h
      BY <1>1, <2>2 DEF a
    <3> QED
      BY <1>2, <3>1
  <2> QED
    BY <2>1, <2>2
<1>9. i \in 1..a
  BY DEF a
<1>10. Range(r) = Range(w) \ {w[i]}
  <2>1. \A m \in Range(r) : m \in Range(w) /\ m # w[i]
    <3> SUFFICES ASSUME NEW k \in 1..a - 1 PROVE r[k] \in Range(w) /\ r[k] # w[i]
      BY <1>3 DEF Range
    <3>1. PICK h \in 1..a : h # i /\ r[k] = w[h]
      BY <1>7
    <3> QED
      BY <1>4, <1>6, <1>9, <3>1
  <2>2. \A m \in Range(w) : m # w[i] => m \in Range(r)
    <3> SUFFICES ASSUME NEW h \in 1..a, w[h] # w[i] PROVE w[h] \in Range(r)
      BY <1>5
    <3>1. PICK k \in 1..a - 1 : r[k] = w[h]
      BY <1>8
    <3> QED
      BY <1>3, <3>1 DEF Range
  <2> QED
    BY <2>1, <2>2
<1>11. Single(r)
  <2> SUFFICES ASSUME NEW k \in 1..a - 1, NEW j \in 1..a - 1, r[k].frame = r[j].frame, r[k].index = r[j].index
               PROVE  k = j
    BY <1>2 DEF Single
  <2> DEFINE h == IF k < i THEN k ELSE k + 1
             g == IF j < i THEN j ELSE j + 1
  <2>1. h \in 1..a /\ g \in 1..a /\ r[k] = w[h] /\ r[j] = w[g]
    BY <1>7
  <2>2. h = g
    <3> HIDE DEF h, g
    <3> QED
      BY <1>4, <2>1
  <2> QED
    BY <1>1, <1>9, <2>2
<1>12. ordered => Sorted(r)
  <2> SUFFICES ASSUME ordered, NEW k \in 1..a - 1, NEW j \in 1..a - 1, k < j
               PROVE  r[k].frame <= r[j].frame
    BY <1>2 DEF Sorted
  <2> DEFINE h == IF k < i THEN k ELSE k + 1
             g == IF j < i THEN j ELSE j + 1
  <2>1. h \in 1..a /\ g \in 1..a /\ r[k] = w[h] /\ r[j] = w[g]
    BY <1>7
  <2>2. h < g
    BY <1>1, <1>9
  <2> HIDE DEF h, g
  <2> QED
    BY <1>4, <2>1, <2>2
<1>13. ordered => \A m \in Range(w) : w[i].frame <= m.frame
  <2> SUFFICES ASSUME ordered, NEW h \in 1..a PROVE w[i].frame <= w[h].frame
    BY <1>5
  <2>1. w[h].frame \in Nat /\ i = 1
    BY <1>4, <1>6 DEF Sound, IsFrame
  <2>2. CASE h = i
    BY <2>1, <2>2
  <2>3. CASE h # i
    BY <1>4, <1>9, <2>1, <2>3
  <2> QED
    BY <2>2, <2>3
<1>14. \A m \in Range(w) : m.frame = w[i].frame /\ m.index = w[i].index => m = w[i]
  BY <1>4, <1>5, <1>9
<1>15. WireOK(r, snt)
  BY <1>2, <1>4, <1>10, <1>11, <1>12 DEF WireOK
<1> QED
  BY <1>6, <1>9, <1>10, <1>13, <1>14, <1>15 DEF r

\* What is sent of a new frame (RTCClient.send, sendToPeer, chunkFrame).
NewMessages(n, size) ==
    IF size = "small" THEN <<[frame |-> n, seq |-> -1, total |-> 1, index |-> 1]>> ELSE ChunksOf(n, size)

LEMMA Messages ==
    ASSUME NEW n \in Nat, NEW size \in Size, seq \in Numbers, NEW snt, IsFrame(n, snt) \/ size = "oversize",
           size # "oversize" => snt[n] = size
    PROVE  LET x == NewMessages(n, size) IN
           /\ x \in Seq(Piece) /\ Single(x)
           /\ \A m \in Range(x) : /\ Sound(m, snt) /\ m.frame = n
                                  /\ m.seq = IF size = "small" THEN -1 ELSE seq
           /\ size # "oversize" => \A i \in 1..Chunks[size] : \E m \in Range(x) : m.index = i
           /\ size = "oversize" => Range(x) = {}
<1> DEFINE x == NewMessages(n, size)
           c == Chunks[size]
           q == IF size = "small" THEN -1 ELSE seq
<1>1. size \in {"small", "large", "huge", "oversize"} /\ c \in 0..3 /\ (size = "small" => c = 1) /\ (size = "oversize" => c = 0)
  BY ChunksAre
<1>2. seq \in Nat /\ q \in Int
  BY FramesAssumption DEF Numbers
<1>3. x = [i \in 1..c |-> [frame |-> n, seq |-> q, total |-> c, index |-> i]]
  <2>1. CASE size = "small"
    BY <1>1, <2>1 DEF NewMessages
  <2>2. CASE size # "small"
    BY <2>2 DEF NewMessages, ChunksOf
  <2> QED
    BY <2>1, <2>2
<1> HIDE DEF x, c
<1>4. \A i \in 1..c : x[i] \in Piece /\ x[i].frame = n /\ x[i].seq = q /\ x[i].total = c /\ x[i].index = i
  BY <1>1, <1>2, <1>3 DEF Piece
<1>5. x \in Seq(Piece) /\ Len(x) = c /\ DOMAIN x = 1..c
  BY <1>1, <1>3, <1>4
<1>6. Single(x)
  BY <1>4, <1>5 DEF Single
<1>7. ASSUME NEW m \in Range(x) PROVE Sound(m, snt) /\ m.frame = n /\ m.seq = q
  <2>1. PICK i \in 1..c : m = x[i]
    BY <1>5 DEF Range
  <2>2. size # "oversize"
    BY <1>1
  <2>3. snt[n] = size /\ IsFrame(n, snt)
    BY <2>2
  <2> QED
    BY <1>4, <2>1, <2>3 DEF Sound, c
<1>8. \A i \in 1..c : x[i] \in Range(x) /\ x[i].index = i
  BY <1>4, <1>5 DEF Range
<1>9. size = "oversize" => Range(x) = {}
  BY <1>1, <1>5 DEF Range
<1> QED
  BY <1>5, <1>6, <1>7, <1>8, <1>9 DEF x, c

-----------------------------------------------------------------------------
(* The reassembler.                                                        *)

Whole(n, snt) == [i \in 1..Chunks[snt[n]] |-> n]

\* p has some of the chunks of the frame n, but not all; the others may be in w.
PartialIs(p, n, W, snt) ==
    /\ IsFrame(n, snt) /\ snt[n] # "small"
    /\ p \in [seq : Numbers, total : {Chunks[snt[n]]}, parts : [1..Chunks[snt[n]] -> {0, n}]]
    /\ \E i \in 1..Chunks[snt[n]] : p.parts[i] = n
    /\ \E i \in 1..Chunks[snt[n]] : p.parts[i] = 0
    /\ \A m \in W : m.frame = n => p.parts[m.index] = 0
    /\ ordered => \A m \in W : n <= m.frame

\* The numbers of the frames of which there are chunks in W or in p.
Marks(W) == {<<m.frame, m.seq>> : m \in {m \in W : m.seq # -1}}
Pairs(W, p) == Marks(W) \cup {<<n, p.seq>> : n \in Range(p.parts) \ {0}}

LEMMA PairsOfNothing == \A W : Pairs(W, Nothing) = Marks(W)
  BY DEF Pairs, Nothing, Range

LEMMA PairsOfPartial ==
    ASSUME NEW p, NEW n, NEW W, NEW snt, PartialIs(p, n, W, snt)
    PROVE  /\ \A V : Pairs(V, p) = Marks(V) \cup {<<n, p.seq>>}
           /\ Range(p.parts) \ {0} = {n} /\ n \in Nat \ {0} /\ p # Nothing /\ p.seq \in Numbers
<1>1. n \in Nat \ {0}
  BY DEF PartialIs, IsFrame
<1>2. p.parts \in [1..Chunks[snt[n]] -> {0, n}] /\ p.seq \in Numbers
  BY DEF PartialIs
<1>3. Range(p.parts) \ {0} = {n}
  BY <1>1, <1>2 DEF PartialIs, Range
<1>4. \A V : Pairs(V, p) = Marks(V) \cup {<<n, p.seq>>}
  BY <1>3 DEF Pairs
<1>5. p # Nothing
  BY <1>2, FramesAssumption DEF Nothing, Numbers
<1> QED
  BY <1>1, <1>2, <1>3, <1>4, <1>5

\* A message that continues what the reassembler has is of the same frame.
LEMMA OneFrame ==
    ASSUME NEW w, NEW n, NEW snt, NEW t, NEW p, WireOK(w, snt), PartialIs(p, n, Range(w), snt),
           Chain(Pairs(Range(w), p), t, snt), NEW i \in 1..Len(w), ordered => i = 1, w[i].seq # -1
    PROVE  w[i].seq = p.seq <=> w[i].frame = n
<1> DEFINE m == w[i]
           P == Pairs(Range(w), p)
           x == <<n, p.seq>>
           y == <<m.frame, m.seq>>
<1>1. m \in Range(w) /\ Sound(m, snt) /\ m.frame \in Nat
  BY WireShrinks DEF WireOK, Sound, IsFrame
<1>2. P = Marks(Range(w)) \cup {x} /\ n \in Nat
  BY PairsOfPartial
<1>3. x \in P /\ y \in P
  BY <1>1, <1>2 DEF Marks
<1>4. ordered => n <= m.frame /\ \A z \in P : z[1] <= n \/ m.frame <= z[1]
  <2> SUFFICES ASSUME ordered PROVE n <= m.frame /\ \A z \in P : z[1] <= n \/ m.frame <= z[1]
    OBVIOUS
  <2>1. \A k \in Range(w) : m.frame <= k.frame
    BY WireShrinks
  <2>2. n <= m.frame
    BY <1>1 DEF PartialIs
  <2>3. \A z \in Marks(Range(w)) : m.frame <= z[1]
    BY <2>1 DEF Marks
  <2>4. x[1] <= n
    BY <1>2
  <2> QED
    BY <1>2, <2>2, <2>3, <2>4
<1> HIDE DEF m, P
<1>5. x[1] = n /\ x[2] = p.seq /\ y[1] = m.frame /\ y[2] = m.seq
  OBVIOUS
<1>6. Chain(P, t, snt)
  BY DEF P
<1> HIDE DEF x, y
<1>7. m.frame = n => m.seq = p.seq
  BY <1>3, <1>5, <1>6 DEF Chain, OneEach
<1>8. n < m.frame => m.seq # p.seq
  BY <1>3, <1>4, <1>5, <1>6, ChainTells
<1>9. m.frame < n => m.seq # p.seq
  <2> SUFFICES ASSUME m.frame < n PROVE m.seq # p.seq
    OBVIOUS
  <2>1. ~ordered
    BY <1>1, <1>2, <1>4
  <2> QED
    BY <1>3, <1>5, <1>6, <2>1, ChainTells
<1> QED
  BY <1>1, <1>2, <1>7, <1>8, <1>9 DEF m

\* What the reassembler has after a chunk m of a frame.
LEMMA Feeding ==
    ASSUME NEW m, Sound(m, sent), m.seq # -1, NEW W,
           partial = Nothing \/ \E n : PartialIs(partial, n, W, sent) /\ (m.seq = partial.seq <=> m.frame = n),
           m \in W
    PROVE  LET F == Fed(m)
               k == Chunks[sent[m.frame]]
           IN  /\ F \in [seq : {m.seq}, total : {k}, parts : [1..k -> {0, m.frame}]]
               /\ F.parts[m.index] = m.frame
               /\ \A j \in 1..k : j # m.index => F.parts[j] = IF m.seq = partial.seq THEN partial.parts[j] ELSE 0
<1> DEFINE k == Chunks[sent[m.frame]]
           p == Started(m)
<1>1. m.total = k /\ m.index \in 1..k /\ m.frame \in Nat \ {0} /\ m.seq \in Numbers /\ k \in Nat
  BY DEF Sound, IsFrame, Piece
<1> HIDE DEF k
<1>2. /\ p \in [seq : {m.seq}, total : {k}, parts : [1..k -> {0, m.frame}]]
      /\ \A j \in 1..k : p.parts[j] = IF m.seq = partial.seq THEN partial.parts[j] ELSE 0
      /\ p.parts[m.index] = 0
  <2>1. CASE m.seq = partial.seq
    <3>1. PICK n : PartialIs(partial, n, W, sent) /\ m.frame = n
      <4>1. partial # Nothing
        BY <1>1, <2>1, FramesAssumption DEF Nothing, Numbers
      <4> QED
        BY <2>1, <4>1
    <3>2. p = partial
      BY <2>1 DEF Started
    <3> QED
      BY <2>1, <3>1, <3>2 DEF PartialIs, k
  <2>2. CASE m.seq # partial.seq
    <3>1. p = [seq |-> m.seq, total |-> m.total, parts |-> [i \in 1..m.total |-> 0]]
      BY <2>2 DEF Started
    <3> HIDE DEF p
    <3> QED
      BY <1>1, <2>2, <3>1
  <2> QED
    BY <2>1, <2>2
<1>3. Fed(m) = [p EXCEPT !.parts[m.index] = m.frame]
  BY <1>1, <1>2 DEF Fed
<1> HIDE DEF p
<1>4. Fed(m) = [p EXCEPT !.parts = [p.parts EXCEPT ![m.index] = m.frame]]
  BY <1>3
<1> DEFINE q == [p.parts EXCEPT ![m.index] = m.frame]
<1>5. /\ q \in [1..k -> {0, m.frame}] /\ q[m.index] = m.frame
      /\ \A j \in 1..k : j # m.index => q[j] = p.parts[j]
  BY <1>1, <1>2
<1> HIDE DEF q
<1>6. Fed(m).seq = m.seq /\ Fed(m).total = k /\ Fed(m).parts = q
      /\ Fed(m) \in [seq : {m.seq}, total : {k}, parts : [1..k -> {0, m.frame}]]
  <2>1. Fed(m) = [p EXCEPT !.parts = q]
    BY <1>4 DEF q
  <2> QED
    BY <1>2, <1>5, <2>1
<1> QED
  BY <1>2, <1>5, <1>6 DEF k

-----------------------------------------------------------------------------
(* What is handed over, and what is due.                                   *)

\* What is handed over, and the frames it is of.
Item == [frames : Seq(Nat), quick : BOOLEAN]
ArrivedIn(g) == {g[k].frames[1] : k \in DOMAIN g}

\* Whole frames, each once; those of an ordered channel are in order, and before what is
\* still under way.
GotOK(g, W, snt) ==
    /\ g \in Seq(Item)
    /\ \A k \in 1..Len(g) : IsFrame(g[k].frames[1], snt) /\ g[k].frames = Whole(g[k].frames[1], snt)
    /\ \A k, l \in 1..Len(g) : g[k].frames[1] = g[l].frames[1] => k = l
    /\ ordered => \A k \in 1..Len(g) : ~g[k].quick =>
         /\ \A l \in 1..k - 1 : ~g[l].quick => g[l].frames[1] < g[k].frames[1]
         /\ \A m \in W : g[k].frames[1] < m.frame

\* In order, what is due has been handed over, or all of it is under way or in the reassembler.
DueOK(d, A, W, p, snt) ==
    /\ \A n \in d : IsFrame(n, snt) /\ (way = "up" => snt[n] # "huge")
    /\ ordered => \A n \in d \ A : \A i \in 1..Chunks[snt[n]] :
         \/ \E m \in W : m.frame = n /\ m.index = i
         \/ i \in DOMAIN p.parts /\ p.parts[i] = n

\* The inductive invariant.
FramesInv ==
    /\ sent \in Seq(Size) /\ seq \in Numbers
    /\ WireOK(wire, sent) /\ (~open => wire = <<>>)
    /\ \A n \in fast : IsFrame(n, sent) /\ sent[n] = "small" /\ n \notin Arrived
    /\ \A m \in Range(wire) : m.frame \notin Arrived \cup fast
    /\ partial = Nothing \/ \E n : PartialIs(partial, n, Range(wire), sent)
    /\ open => Chain(Pairs(Range(wire), partial), seq, sent)
    /\ GotOK(got, Range(wire), sent)
    /\ DueOK(due, Arrived, Range(wire), partial, sent)

LEMMA Assembled ==
    ASSUME ordered' = ordered, way' = way,
           sent' \in Seq(Size), seq' \in Numbers,
           WireOK(wire', sent'), ~open' => wire' = <<>>,
           \A n \in fast' : IsFrame(n, sent') /\ sent'[n] = "small" /\ n \notin Arrived',
           \A m \in Range(wire') : m.frame \notin Arrived' \cup fast',
           partial' = Nothing \/ \E n : PartialIs(partial', n, Range(wire'), sent'),
           open' => Chain(Pairs(Range(wire'), partial'), seq', sent'),
           GotOK(got', Range(wire'), sent'),
           DueOK(due', Arrived', Range(wire'), partial', sent')
    PROVE  FramesInv'
<1>1. WireOK(wire, sent)'
  BY DEF WireOK
<1>2. partial' = Nothing \/ \E n : PartialIs(partial, n, Range(wire), sent)'
  BY DEF PartialIs
<1>3. open' => Chain(Pairs(Range(wire), partial), seq, sent)'
  BY DEF Chain
<1>4. GotOK(got, Range(wire), sent)'
  BY DEF GotOK
<1>5. DueOK(due, Arrived, Range(wire), partial, sent)'
  BY DEF DueOK
<1> QED
  BY <1>1, <1>2, <1>3, <1>4, <1>5 DEF FramesInv

LEMMA WholeIs ==
    ASSUME NEW snt \in Seq(Size), NEW n, IsFrame(n, snt)
    PROVE  /\ Whole(n, snt) \in Seq(Nat) /\ Whole(n, snt)[1] = n /\ n \in Nat
           /\ Chunks[snt[n]] \in 1..3
           /\ snt[n] = "small" => Whole(n, snt) = <<n>>
<1>1. n \in Nat /\ snt[n] \in Size /\ snt[n] # "oversize"
  BY DEF IsFrame
<1> DEFINE c == Chunks[snt[n]]
<1>2. c \in 1..3 /\ (snt[n] = "small" => c = 1)
  BY <1>1, ChunksAre
<1>3. Whole(n, snt) = [i \in 1..c |-> n]
  BY DEF Whole
<1> HIDE DEF c
<1>4. Whole(n, snt) \in Seq(Nat) /\ Whole(n, snt)[1] = n
  BY <1>1, <1>2, <1>3
<1>5. c = 1 => Whole(n, snt) = <<n>>
  BY <1>3
<1> QED
  BY <1>1, <1>2, <1>4, <1>5 DEF c

\* A frame is handed over.
LEMMA ArrivedGrows ==
    ASSUME NEW g \in Seq(Item), NEW e \in Item
    PROVE  ArrivedIn(Append(g, e)) = ArrivedIn(g) \cup {e.frames[1]}
<1> DEFINE h == Append(g, e)
           a == Len(g)
<1>1. a \in Nat /\ DOMAIN g = 1..a /\ DOMAIN h = 1..a + 1 /\ h[a + 1] = e /\ \A k \in 1..a : h[k] = g[k]
  OBVIOUS
<1> HIDE DEF h, a
<1>2. \A k \in 1..a + 1 : k \in 1..a \/ k = a + 1
  BY <1>1
<1>3. \A x \in ArrivedIn(h) : x \in ArrivedIn(g) \cup {e.frames[1]}
  BY <1>1, <1>2 DEF ArrivedIn
<1>4. e.frames[1] \in ArrivedIn(h)
  <2>1. a + 1 \in DOMAIN h
    BY <1>1
  <2> QED
    BY <1>1, <2>1 DEF ArrivedIn
<1>5. \A k \in 1..a : g[k].frames[1] \in ArrivedIn(h)
  <2> SUFFICES ASSUME NEW k \in 1..a PROVE g[k].frames[1] \in ArrivedIn(h)
    OBVIOUS
  <2>1. k \in DOMAIN h /\ h[k] = g[k]
    BY <1>1
  <2> QED
    BY <2>1 DEF ArrivedIn
<1>6. \A x \in ArrivedIn(g) : x \in ArrivedIn(h)
  BY <1>1, <1>5 DEF ArrivedIn
<1> QED
  BY <1>3, <1>4, <1>6 DEF h

LEMMA GotGrows ==
    ASSUME NEW snt \in Seq(Size), NEW g, NEW W, GotOK(g, W, snt), NEW n, IsFrame(n, snt), n \notin ArrivedIn(g),
           NEW V, V \subseteq W, NEW e \in Item, e.frames = Whole(n, snt),
           ordered /\ ~e.quick => /\ \A m \in V : n < m.frame
                                  /\ \E m \in W : m.frame = n
    PROVE  GotOK(Append(g, e), V, snt)
<1> DEFINE h == Append(g, e)
           a == Len(g)
<1>1. e.frames[1] = n /\ n \in Nat
  BY WholeIs
<1>2. g \in Seq(Item) /\ a \in Nat /\ DOMAIN g = 1..a
  BY DEF GotOK
<1>3. h \in Seq(Item) /\ Len(h) = a + 1 /\ DOMAIN h = 1..a + 1 /\ h[a + 1] = e /\ \A k \in 1..a : h[k] = g[k]
  BY <1>1, <1>2
<1> HIDE DEF h
<1>4. \A k \in 1..a : g[k].frames[1] \in ArrivedIn(g) /\ g[k].frames[1] # n /\ g[k].frames[1] \in Nat
  <2> SUFFICES ASSUME NEW k \in 1..a
               PROVE  g[k].frames[1] \in ArrivedIn(g) /\ g[k].frames[1] # n /\ g[k].frames[1] \in Nat
    OBVIOUS
  <2>1. g[k].frames[1] \in ArrivedIn(g)
    BY <1>2 DEF ArrivedIn
  <2>2. IsFrame(g[k].frames[1], snt)
    BY DEF GotOK, a
  <2> QED
    BY <2>1, <2>2 DEF IsFrame
<1>5. \A k \in 1..a + 1 : k \in 1..a \/ k = a + 1
  BY <1>2
<1>6. \A k \in 1..Len(h) : IsFrame(h[k].frames[1], snt) /\ h[k].frames = Whole(h[k].frames[1], snt)
  <2>1. \A k \in 1..a : IsFrame(g[k].frames[1], snt) /\ g[k].frames = Whole(g[k].frames[1], snt)
    BY DEF GotOK, a
  <2>2. \A k \in 1..a : IsFrame(h[k].frames[1], snt) /\ h[k].frames = Whole(h[k].frames[1], snt)
    BY <1>3, <2>1
  <2>3. IsFrame(h[a + 1].frames[1], snt) /\ h[a + 1].frames = Whole(h[a + 1].frames[1], snt)
    BY <1>1, <1>3
  <2> QED
    BY <1>3, <1>5, <2>2, <2>3
<1>7. \A k, l \in 1..Len(h) : h[k].frames[1] = h[l].frames[1] => k = l
  <2>1. \A k, l \in 1..a : g[k].frames[1] = g[l].frames[1] => k = l
    BY DEF GotOK, a
  <2> QED
    BY <1>1, <1>3, <1>4, <1>5, <2>1
<1>8. ASSUME ordered, NEW k \in 1..Len(h), ~h[k].quick
      PROVE  /\ \A l \in 1..k - 1 : ~h[l].quick => h[l].frames[1] < h[k].frames[1]
             /\ \A m \in V : h[k].frames[1] < m.frame
  <2>1. \A l \in 1..a : ~g[l].quick => /\ \A j \in 1..l - 1 : ~g[j].quick => g[j].frames[1] < g[l].frames[1]
                                       /\ \A m \in W : g[l].frames[1] < m.frame
    BY <1>8 DEF GotOK, a
  <2>2. CASE k \in 1..a
    <3>1. \A l \in 1..k - 1 : l \in 1..a
      BY <1>2, <2>2
    <3> QED
      BY <1>3, <1>8, <2>1, <2>2, <3>1
  <2>3. CASE k = a + 1
    <3>1. ~e.quick
      BY <1>1, <1>3, <1>8, <2>3
    <3>2. PICK m \in W : m.frame = n
      BY <1>8, <3>1
    <3>3. \A l \in 1..k - 1 : l \in 1..a
      BY <1>2, <2>3
    <3> QED
      BY <1>1, <1>3, <1>8, <2>1, <2>3, <3>1, <3>2, <3>3
  <2> QED
    BY <1>3, <1>5, <2>2, <2>3
<1>9. GotOK(h, V, snt)
  BY <1>3, <1>6, <1>7, <1>8 DEF GotOK
<1> QED
  BY <1>9 DEF h

-----------------------------------------------------------------------------
(* A message of the main channel arrives.                                  *)

\* What is under way of other frames is unaffected by a chunk, and in order there is
\* nothing of them in the reassembler that is due.
LEMMA DueElsewhere ==
    ASSUME FramesInv, ordered, NEW m \in Range(wire), \A k \in Range(wire) : m.frame <= k.frame,
           NEW n \in due \ Arrived, n # m.frame, NEW i \in 1..Chunks[sent[n]]
    PROVE  \E k \in Range(wire) : k.frame = n /\ k.index = i /\ k # m
<1>1. ASSUME NEW j \in 1..Chunks[sent[n]], j \in DOMAIN partial.parts, partial.parts[j] = n PROVE FALSE
  <2>1. n \in Nat \ {0}
    BY DEF FramesInv, DueOK, IsFrame
  <2>2. partial # Nothing
    BY <1>1 DEF Nothing
  <2>3. PICK o : PartialIs(partial, o, Range(wire), sent)
    BY <2>2 DEF FramesInv
  <2>4. o = n
    BY <1>1, <2>1, <2>3 DEF PartialIs
  <2>5. PICK z \in 1..Chunks[sent[n]] : partial.parts[z] = 0
    BY <2>3, <2>4 DEF PartialIs
  <2>6. PICK k \in Range(wire) : k.frame = n
    BY <2>1, <2>5 DEF FramesInv, DueOK
  <2>7. m.frame \in Nat /\ n <= m.frame /\ m.frame <= n
    BY <2>3, <2>4, <2>6 DEF PartialIs, FramesInv, WireOK, Sound, IsFrame
  <2> QED
    BY <2>1, <2>7
<1>2. PICK k \in Range(wire) : k.frame = n /\ k.index = i
  BY <1>1 DEF FramesInv, DueOK
<1> QED
  BY <1>2

\* A whole frame.
LEMMA DeliverSmall ==
    ASSUME FramesInv, NEW i \in 1..Len(wire), Deliver(i), wire[i].seq = -1
    PROVE  FramesInv'
<1> DEFINE m == wire[i]
           W == Range(wire)
           n == m.frame
<1>1. /\ ordered => i = 1
      /\ wire' = Without(wire, i) /\ partial' = partial
      /\ got' = Append(got, Handed(<<m.frame>>, FALSE))
      /\ UNCHANGED <<way, ordered, open, sessions, seq, fast, fastOpen, sent, due>>
  <2>1. ~Capped(1)
    BY ChunksAre DEF Capped
  <2> QED
    BY <2>1 DEF Deliver, Arrives, Receive, HandOver
<1>2. WireOK(wire, sent) /\ sent \in Seq(Size)
  BY DEF FramesInv
<1>3. /\ WireOK(wire', sent) /\ m \in W /\ Range(wire') = W \ {m}
      /\ \A k \in W : k.frame = m.frame /\ k.index = m.index => k = m
      /\ ordered => \A k \in W : m.frame <= k.frame
  BY <1>1, <1>2, WireShrinks
<1>4. Sound(m, sent)
  BY <1>2, <1>3 DEF WireOK
<1>5. sent[n] = "small" /\ IsFrame(n, sent) /\ n \in Nat /\ m.index \in 1..1 /\ Chunks[sent[n]] = 1
  BY <1>4, FramesAssumption, ChunksAre DEF Sound, IsFrame, Numbers
<1>6. \A k \in W : k.frame = n => k = m
  <2> SUFFICES ASSUME NEW k \in W, k.frame = n PROVE k = m
    OBVIOUS
  <2>1. k.index \in 1..1
    BY <1>2, <1>5, ChunksAre DEF WireOK, Sound
  <2> QED
    BY <1>3, <1>5, <2>1
<1>7. \A k \in Range(wire') : k \in W /\ k.frame # n
  BY <1>3, <1>6
<1>8. ordered => \A k \in Range(wire') : n < k.frame
  <2> SUFFICES ASSUME ordered, NEW k \in Range(wire') PROVE n < k.frame
    OBVIOUS
  <2>1. k.frame \in Nat
    BY <1>2, <1>7 DEF WireOK, Sound, IsFrame
  <2> QED
    BY <1>3, <1>5, <1>7, <2>1
<1> HIDE DEF m, n, W
<1>9. n \notin Arrived \cup fast
  BY <1>3 DEF FramesInv, W, n
<1>10. Whole(n, sent) = <<n>>
  BY <1>2, <1>5, WholeIs
<1>11. GotOK(got', Range(wire'), sent) /\ ArrivedIn(got') = Arrived \cup {n}
  <2>1. GotOK(got, W, sent) /\ Arrived = ArrivedIn(got)
    BY DEF FramesInv, W, Arrived, ArrivedIn
  <2>2. Range(wire') \subseteq W
    BY <1>7
  <2>3. got' = Append(got, Handed(Whole(n, sent), FALSE))
    BY <1>1, <1>10 DEF n, m
  <2>4. \E k \in W : k.frame = n
    BY <1>3 DEF n
  <2>5. n \notin ArrivedIn(got)
    BY <1>9, <2>1
  <2>6. ordered /\ ~FALSE => (\A k \in Range(wire') : n < k.frame) /\ \E k \in W : k.frame = n
    BY <1>8, <2>4
  <2> DEFINE e == Handed(Whole(n, sent), FALSE)
             V == Range(wire')
  <2>7. e \in Item /\ e.frames = Whole(n, sent) /\ ~e.quick
    BY <1>2, <1>5, WholeIs DEF Handed, Item
  <2>8. got' = Append(got, e)
    BY <2>3
  <2> HIDE DEF e, V
  <2>9. ordered /\ ~e.quick => (\A k \in V : n < k.frame) /\ (\E k \in W : k.frame = n)
    BY <2>6 DEF V
  <2>10. V \subseteq W
    BY <2>2 DEF V
  <2>11. GotOK(Append(got, e), V, sent)
    BY <1>2, <1>5, <2>1, <2>5, <2>7, <2>9, <2>10, GotGrows
  <2>12. e.frames[1] = n /\ got \in Seq(Item)
    BY <1>2, <1>5, <2>1, <2>7, WholeIs DEF GotOK
  <2>13. ArrivedIn(Append(got, e)) = ArrivedIn(got) \cup {n}
    BY <2>7, <2>12, ArrivedGrows
  <2> QED
    BY <2>1, <2>8, <2>11, <2>13 DEF V
<1>12. Arrived' = Arrived \cup {n}
  BY <1>11 DEF Arrived, ArrivedIn
<1>13. partial' = Nothing \/ \E o : PartialIs(partial', o, Range(wire'), sent)
  BY <1>1, <1>7 DEF FramesInv, PartialIs, W
<1>14. Marks(Range(wire')) = Marks(W)
  BY <1>1, <1>3 DEF Marks, m
<1>15. open' => Chain(Pairs(Range(wire'), partial'), seq', sent)
  BY <1>1, <1>14 DEF FramesInv, Pairs, W
<1>16. DueOK(due', Arrived', Range(wire'), partial', sent)
  <2> SUFFICES ASSUME ordered, NEW o \in due \ Arrived', NEW j \in 1..Chunks[sent[o]]
               PROVE  \/ \E k \in Range(wire') : k.frame = o /\ k.index = j
                      \/ j \in DOMAIN partial.parts /\ partial.parts[j] = o
    <3>1. due' = due /\ partial' = partial
      BY <1>1
    <3>2. \A o \in due : IsFrame(o, sent) /\ (way = "up" => sent[o] # "huge")
      BY DEF FramesInv, DueOK
    <3> QED
      BY <3>1, <3>2 DEF DueOK
  <2>1. o \in due \ Arrived /\ o # n
    BY <1>12
  <2>2. CASE \E k \in W : k.frame = o /\ k.index = j
    BY <1>3, <2>1, <2>2 DEF n
  <2> QED
    BY <2>1, <2>2 DEF FramesInv, DueOK, W
<1>17. \A o \in fast' : IsFrame(o, sent) /\ sent[o] = "small" /\ o \notin Arrived'
  BY <1>1, <1>9, <1>12 DEF FramesInv
<1>18. \A k \in Range(wire') : k.frame \notin Arrived' \cup fast'
  BY <1>1, <1>7, <1>12 DEF FramesInv, W
<1>19. ~open' => wire' = <<>>
  <2>1. open'
    BY <1>1 DEF FramesInv
  <2> QED
    BY <2>1
<1>20. seq' \in Numbers
  BY <1>1 DEF FramesInv
<1> QED
  BY <1>1, <1>2, <1>3, <1>11, <1>13, <1>15, <1>16, <1>17, <1>18, <1>19, <1>20, Assembled

\* A chunk joins the others of its frame in the reassembler.
LEMMA ChunkJoins ==
    ASSUME FramesInv, NEW i \in 1..Len(wire), ordered => i = 1, wire[i].seq # -1
    PROVE  LET m == wire[i]
               n == m.frame
               k == Chunks[sent[n]]
               F == Fed(m)
               V == Range(wire) \ {m}
           IN  /\ open /\ n \in Nat \ {0} /\ IsFrame(n, sent) /\ sent[n] # "small" /\ m.index \in 1..k /\ m.total = k
               /\ F \in [seq : Numbers, total : {k}, parts : [1..k -> {0, n}]] /\ F.parts[m.index] = n
               /\ F.seq = m.seq
               /\ \A x \in V : x.frame = n => F.parts[x.index] = 0 /\ x.index \in 1..k
               /\ ordered /\ n \in due \ Arrived =>
                    \A j \in 1..k : (\E x \in V : x.frame = n /\ x.index = j) \/ F.parts[j] = n
               /\ Chain(Marks(Range(wire)), seq, sent)
<1> DEFINE m == wire[i]
           n == m.frame
           k == Chunks[sent[n]]
           F == Fed(m)
           W == Range(wire)
           V == W \ {m}
           P == Pairs(W, partial)
<1>1. WireOK(wire, sent) /\ sent \in Seq(Size)
  BY DEF FramesInv
<1>2. open
  <2>1. wire # <<>>
    OBVIOUS
  <2> QED
    BY <2>1 DEF FramesInv
<1>3. /\ m \in W /\ Sound(m, sent)
      /\ \A x \in W : x.frame = n /\ x.index = m.index => x = m
      /\ ordered => \A x \in W : n <= x.frame
  BY <1>1, WireShrinks DEF WireOK
<1>4. n \in Nat \ {0} /\ IsFrame(n, sent) /\ sent[n] # "small" /\ m.index \in 1..k /\ m.total = k /\ m.seq \in Numbers
  BY <1>3 DEF Sound, IsFrame
<1>5. Chain(P, seq, sent)
  BY <1>2 DEF FramesInv
<1>6. \A o : PartialIs(partial, o, W, sent) => (m.seq = partial.seq <=> n = o)
  BY <1>1, <1>5, OneFrame
<1>7. partial = Nothing \/ \E o : PartialIs(partial, o, W, sent) /\ (m.seq = partial.seq <=> n = o)
  BY <1>6 DEF FramesInv
<1>8. partial = Nothing => m.seq # partial.seq
  BY <1>4, FramesAssumption DEF Nothing, Numbers
<1>9. /\ F \in [seq : {m.seq}, total : {k}, parts : [1..k -> {0, n}]]
      /\ F.parts[m.index] = n
      /\ \A j \in 1..k : j # m.index => F.parts[j] = IF m.seq = partial.seq THEN partial.parts[j] ELSE 0
  <2>1. m.seq # -1
    OBVIOUS
  <2> HIDE DEF m, W
  <2> QED
    BY <1>3, <1>7, <2>1, Feeding
<1> HIDE DEF m, n, k, F, W, P
<1>10. ASSUME NEW x \in V, x.frame = n PROVE F.parts[x.index] = 0 /\ x.index \in 1..k
  <2>1. x \in W /\ x # m /\ x.index # m.index
    BY <1>3, <1>10
  <2>2. x.index \in 1..k
    <3>1. Sound(x, sent)
      BY <1>1, <2>1 DEF WireOK, W
    <3> QED
      BY <1>10, <3>1 DEF Sound, k
  <2>3. CASE m.seq = partial.seq
    <3>1. PICK o : PartialIs(partial, o, W, sent) /\ n = o
      BY <1>7, <1>8, <2>3
    <3>2. partial.parts[x.index] = 0
      BY <1>10, <2>1, <3>1 DEF PartialIs
    <3> QED
      BY <1>9, <2>1, <2>2, <2>3, <3>2
  <2> QED
    BY <1>9, <2>1, <2>2, <2>3
<1>11. ASSUME ordered, n \in due \ Arrived, NEW j \in 1..k
       PROVE  (\E x \in V : x.frame = n /\ x.index = j) \/ F.parts[j] = n
  <2>1. CASE \E x \in W : x.frame = n /\ x.index = j
    <3>1. PICK x \in W : x.frame = n /\ x.index = j
      BY <2>1
    <3> QED
      BY <1>9, <3>1
  <2>2. CASE j \in DOMAIN partial.parts /\ partial.parts[j] = n
    <3>1. partial # Nothing
      BY <2>2 DEF Nothing
    <3>2. PICK o : PartialIs(partial, o, W, sent) /\ (m.seq = partial.seq <=> n = o)
      BY <1>7, <3>1
    <3>3. n = o
      BY <1>4, <2>2, <3>2 DEF PartialIs
    <3> QED
      BY <1>9, <2>2, <3>2, <3>3
  <2> QED
    BY <1>11, <2>1, <2>2 DEF FramesInv, DueOK, W, k
<1>12. Chain(Marks(W), seq, sent)
  <2>1. Marks(W) \subseteq P
    BY DEF P, Pairs
  <2>2. ASSUME ordered, NEW x \in Marks(W), NEW y \in P, x[1] <= y[1] PROVE y \in Marks(W)
    <3>1. SUFFICES ASSUME y \notin Marks(W) PROVE FALSE
      OBVIOUS
    <3>2. partial # Nothing
      BY <3>1, PairsOfNothing DEF P
    <3>3. PICK o : PartialIs(partial, o, W, sent) /\ (m.seq = partial.seq <=> n = o)
      BY <1>7, <3>2
    <3>4. y = <<o, partial.seq>> /\ o \in Nat
      BY <2>2, <3>1, <3>3, PairsOfPartial DEF P
    <3>5. n <= x[1] /\ x[1] \in Nat
      <4>1. PICK z \in W : x[1] = z.frame
        BY <2>2 DEF Marks
      <4>2. Sound(z, sent)
        BY <1>1 DEF WireOK, W
      <4> QED
        BY <1>3, <2>2, <4>1, <4>2 DEF Sound, IsFrame
    <3>6. o <= n
      BY <1>3, <2>2, <3>3 DEF PartialIs, n
    <3>7. o = n
      BY <1>4, <2>2, <3>4, <3>5, <3>6
    <3>8. y = <<m.frame, m.seq>>
      BY <3>3, <3>4, <3>7 DEF n
    <3>9. m.seq # -1
      BY DEF m
    <3> QED
      BY <1>3, <3>1, <3>8, <3>9 DEF Marks
  <2> QED
    BY <1>5, <2>1, <2>2, ChainShrinks
<1>13. F \in [seq : Numbers, total : {k}, parts : [1..k -> {0, n}]] /\ F.seq = m.seq
  BY <1>4, <1>9
<1> QED
  BY <1>2, <1>4, <1>9, <1>10, <1>11, <1>12, <1>13 DEF m, n, k, F, W

\* A chunk arrives, but not the last one.
LEMMA DeliverChunk ==
    ASSUME FramesInv, NEW i \in 1..Len(wire), Deliver(i), wire[i].seq # -1, ~Complete(Fed(wire[i]))
    PROVE  FramesInv'
<1> DEFINE m == wire[i]
           n == m.frame
           k == Chunks[sent[n]]
           F == Fed(m)
           W == Range(wire)
           V == W \ {m}
<1>1. /\ ordered => i = 1
      /\ wire' = Without(wire, i) /\ partial' = F
      /\ UNCHANGED <<way, ordered, open, sessions, seq, fast, fastOpen, sent, due, got>>
  BY DEF Deliver, Arrives, Receive
<1>2. WireOK(wire, sent) /\ sent \in Seq(Size)
  BY DEF FramesInv
<1>3. /\ WireOK(wire', sent) /\ m \in W /\ Range(wire') = V
      /\ ordered => \A x \in W : n <= x.frame
  BY <1>1, <1>2, WireShrinks
<1>4. /\ open /\ n \in Nat \ {0} /\ IsFrame(n, sent) /\ sent[n] # "small" /\ m.index \in 1..k /\ m.total = k
      /\ F \in [seq : Numbers, total : {k}, parts : [1..k -> {0, n}]] /\ F.parts[m.index] = n
      /\ F.seq = m.seq
      /\ \A x \in V : x.frame = n => F.parts[x.index] = 0 /\ x.index \in 1..k
      /\ ordered /\ n \in due \ Arrived =>
           \A j \in 1..k : (\E x \in V : x.frame = n /\ x.index = j) \/ F.parts[j] = n
      /\ Chain(Marks(W), seq, sent)
  BY <1>1, ChunkJoins
<1>5. \E j \in 1..k : F.parts[j] = 0
  BY <1>4 DEF Complete
<1>6. m.seq # -1
  OBVIOUS
<1> HIDE DEF m, n, k, F, W, V
<1>7. PartialIs(F, n, V, sent)
  BY <1>3, <1>4, <1>5 DEF PartialIs, k, V
<1>8. Pairs(V, F) = Marks(W)
  <2>1. Pairs(V, F) = Marks(V) \cup {<<n, m.seq>>}
    BY <1>4, <1>7, PairsOfPartial
  <2> QED
    BY <1>3, <1>6, <2>1 DEF Marks, V, n
<1>9. Arrived' = Arrived
  BY <1>1 DEF Arrived
<1>10. DueOK(due', Arrived', V, F, sent)
  <2> SUFFICES ASSUME ordered, NEW o \in due \ Arrived, NEW j \in 1..Chunks[sent[o]]
               PROVE  \/ \E x \in V : x.frame = o /\ x.index = j
                      \/ j \in DOMAIN F.parts /\ F.parts[j] = o
    BY <1>1, <1>9 DEF FramesInv, DueOK
  <2>1. CASE o = n
    BY <1>4, <2>1 DEF k
  <2>2. CASE o # n
    <3>1. \E x \in W : x.frame = o /\ x.index = j /\ x # m
      BY <1>3, <2>2, DueElsewhere DEF W, n
    <3> QED
      BY <3>1 DEF V
  <2> QED
    BY <2>1, <2>2
<1>11. GotOK(got', V, sent)
  <2>1. GotOK(got, W, sent)
    BY DEF FramesInv, W
  <2> QED
    BY <1>1, <2>1 DEF GotOK, V
<1>12. \A x \in V : x.frame \notin Arrived' \cup fast'
  BY <1>1, <1>9 DEF FramesInv, V, W
<1>13. \A o \in fast' : IsFrame(o, sent) /\ sent[o] = "small" /\ o \notin Arrived'
  BY <1>1, <1>9 DEF FramesInv
<1>14. open' => Chain(Pairs(V, F), seq', sent)
  BY <1>1, <1>4, <1>8
<1>15. seq' \in Numbers /\ (~open' => wire' = <<>>)
  BY <1>1, <1>4 DEF FramesInv
<1> QED
  BY <1>1, <1>2, <1>3, <1>7, <1>10, <1>11, <1>12, <1>13, <1>14, <1>15, Assembled

\* The last chunk of a frame arrives.
LEMMA DeliverLast ==
    ASSUME FramesInv, NEW i \in 1..Len(wire), Deliver(i), wire[i].seq # -1, Complete(Fed(wire[i]))
    PROVE  FramesInv'
<1> DEFINE m == wire[i]
           n == m.frame
           k == Chunks[sent[n]]
           F == Fed(m)
           W == Range(wire)
           V == W \ {m}
           big == Capped(m.total)
           e == Handed(F.parts, FALSE)
<1>1. /\ ordered => i = 1
      /\ wire' = Without(wire, i) /\ partial' = Nothing
      /\ got' = IF big THEN got ELSE Append(got, e)
      /\ UNCHANGED <<way, ordered, open, sessions, seq, fast, fastOpen, sent, due>>
  BY DEF Deliver, Arrives, Receive, HandOver
<1>2. WireOK(wire, sent) /\ sent \in Seq(Size)
  BY DEF FramesInv
<1>3. /\ WireOK(wire', sent) /\ m \in W /\ Range(wire') = V
      /\ ordered => \A x \in W : n <= x.frame
  BY <1>1, <1>2, WireShrinks
<1>4. /\ open /\ n \in Nat \ {0} /\ IsFrame(n, sent) /\ sent[n] # "small" /\ m.index \in 1..k /\ m.total = k
      /\ F \in [seq : Numbers, total : {k}, parts : [1..k -> {0, n}]] /\ F.parts[m.index] = n
      /\ F.seq = m.seq
      /\ \A x \in V : x.frame = n => F.parts[x.index] = 0 /\ x.index \in 1..k
      /\ ordered /\ n \in due \ Arrived =>
           \A j \in 1..k : (\E x \in V : x.frame = n /\ x.index = j) \/ F.parts[j] = n
      /\ Chain(Marks(W), seq, sent)
  BY <1>1, ChunkJoins
<1>5. \A j \in 1..k : F.parts[j] = n
  BY <1>4 DEF Complete
<1>6. big => n \notin due
  <2> SUFFICES ASSUME big PROVE n \notin due
    OBVIOUS
  <2>1. way = "up" /\ k > 2
    BY <1>4, ChunksAre DEF Capped
  <2>2. sent[n] = "huge"
    BY <1>2, <1>4, <2>1, ChunksAre DEF IsFrame
  <2> QED
    BY <2>1, <2>2 DEF FramesInv, DueOK
<1> HIDE DEF m, n, k, F, W, V, big, e
<1>7. F.parts = Whole(n, sent)
  BY <1>4, <1>5 DEF Whole, k
<1>8. \A x \in V : x.frame # n
  BY <1>4, <1>5
<1>9. \A x \in V : x \in W /\ x.frame \in Nat
  BY <1>2 DEF V, W, WireOK, Sound, IsFrame
<1>10. ordered => \A x \in V : n < x.frame
  <2> SUFFICES ASSUME ordered, NEW x \in V PROVE n < x.frame
    OBVIOUS
  <2>1. n <= x.frame /\ x.frame # n /\ x.frame \in Nat
    BY <1>3, <1>8, <1>9
  <2> QED
    BY <1>4, <2>1
<1>11. n \notin Arrived \cup fast
  BY <1>3 DEF FramesInv, W, n
<1>12. GotOK(got, W, sent) /\ Arrived = ArrivedIn(got)
  BY DEF FramesInv, W, Arrived, ArrivedIn
<1>13. /\ GotOK(got', V, sent)
       /\ Arrived \subseteq ArrivedIn(got') /\ ArrivedIn(got') \subseteq Arrived \cup {n}
       /\ ~big => n \in ArrivedIn(got')
  <2>1. CASE big
    BY <1>1, <1>12, <2>1 DEF GotOK, V
  <2>2. CASE ~big
    <3>1. e \in Item /\ e.frames = Whole(n, sent) /\ ~e.quick
      BY <1>2, <1>4, <1>7, WholeIs DEF Handed, Item, e
    <3>2. ordered /\ ~e.quick => (\A x \in V : n < x.frame) /\ (\E x \in W : x.frame = n)
      BY <1>3, <1>10 DEF n
    <3>3. V \subseteq W /\ n \notin ArrivedIn(got)
      BY <1>11, <1>12 DEF V
    <3>4. GotOK(Append(got, e), V, sent)
      BY <1>2, <1>4, <1>12, <3>1, <3>2, <3>3, GotGrows
    <3>5. e.frames[1] = n /\ got \in Seq(Item)
      BY <1>2, <1>4, <1>12, <3>1, WholeIs DEF GotOK
    <3>6. ArrivedIn(Append(got, e)) = ArrivedIn(got) \cup {n}
      BY <3>1, <3>5, ArrivedGrows
    <3> QED
      BY <1>1, <1>12, <2>2, <3>4, <3>6
  <2> QED
    BY <2>1, <2>2
<1>14. Arrived' = ArrivedIn(got')
  BY DEF Arrived, ArrivedIn
<1>15. Chain(Marks(V), seq, sent)
  <2>1. Marks(V) \subseteq Marks(W)
    BY DEF Marks, V
  <2>2. ASSUME ordered, NEW x \in Marks(V), NEW y \in Marks(W), x[1] <= y[1] PROVE y \in Marks(V)
    <3>1. PICK z \in W : z.seq # -1 /\ y = <<z.frame, z.seq>>
      BY <2>2 DEF Marks
    <3>2. n < x[1] /\ x[1] \in Nat
      BY <1>9, <1>10, <2>2 DEF Marks
    <3>3. z # m
      BY <1>4, <2>2, <3>1, <3>2 DEF n
    <3> QED
      BY <3>1, <3>3 DEF Marks, V
  <2> QED
    BY <1>4, <2>1, <2>2, ChainShrinks
<1>16. open' => Chain(Pairs(V, Nothing), seq', sent)
  BY <1>1, <1>15, PairsOfNothing
<1>17. DueOK(due', Arrived', V, Nothing, sent)
  <2> SUFFICES ASSUME ordered, NEW o \in due \ Arrived', NEW j \in 1..Chunks[sent[o]]
               PROVE  \E x \in V : x.frame = o /\ x.index = j
    BY <1>1 DEF FramesInv, DueOK
  <2>1. o \in due \ Arrived /\ o # n
    BY <1>6, <1>13, <1>14
  <2>2. \E x \in W : x.frame = o /\ x.index = j /\ x # m
    BY <1>3, <2>1, DueElsewhere DEF W, n
  <2> QED
    BY <2>2 DEF V
<1>18. \A x \in V : x.frame \notin Arrived' \cup fast'
  BY <1>1, <1>8, <1>13, <1>14 DEF FramesInv, V, W
<1>19. \A o \in fast' : IsFrame(o, sent) /\ sent[o] = "small" /\ o \notin Arrived'
  BY <1>1, <1>11, <1>13, <1>14 DEF FramesInv
<1>20. seq' \in Numbers /\ (~open' => wire' = <<>>)
  BY <1>1, <1>4 DEF FramesInv
<1> QED
  BY <1>1, <1>2, <1>3, <1>13, <1>16, <1>17, <1>18, <1>19, <1>20, Assembled

-----------------------------------------------------------------------------
(* The other steps.                                                        *)

LEMMA DeliverFastStep ==
    ASSUME FramesInv, NEW n \in fast, DeliverFast(n)
    PROVE  FramesInv'
<1> DEFINE e == Handed(<<n>>, TRUE)
           W == Range(wire)
<1>1. /\ got' = Append(got, e) /\ fast' = fast \ {n}
      /\ UNCHANGED <<way, ordered, open, sessions, seq, wire, fastOpen, partial, sent, due>>
  <2>1. ~Capped(1)
    BY ChunksAre DEF Capped
  <2> QED
    BY <2>1 DEF DeliverFast, HandOver
<1>2. IsFrame(n, sent) /\ sent[n] = "small" /\ n \notin Arrived /\ sent \in Seq(Size)
  BY DEF FramesInv
<1>3. e \in Item /\ e.frames = Whole(n, sent) /\ e.quick
  BY <1>2, WholeIs DEF Handed, Item
<1> HIDE DEF e, W
<1>4. GotOK(got, W, sent) /\ Arrived = ArrivedIn(got)
  BY DEF FramesInv, W, Arrived, ArrivedIn
<1>5. GotOK(got', W, sent)
  <2>1. ordered /\ ~e.quick => (\A x \in W : n < x.frame) /\ (\E x \in W : x.frame = n)
    BY <1>3
  <2>2. n \notin ArrivedIn(got)
    BY <1>2, <1>4
  <2>3. GotOK(Append(got, e), W, sent)
    BY <1>2, <1>3, <1>4, <2>1, <2>2, GotGrows
  <2> QED
    BY <1>1, <2>3
<1>6. Arrived' = Arrived \cup {n}
  <2>1. e.frames[1] = n /\ got \in Seq(Item)
    BY <1>2, <1>3, <1>4, WholeIs DEF GotOK
  <2>2. ArrivedIn(Append(got, e)) = ArrivedIn(got) \cup {n}
    BY <1>3, <2>1, ArrivedGrows
  <2>3. Arrived' = ArrivedIn(got')
    BY DEF Arrived, ArrivedIn
  <2> QED
    BY <1>1, <1>4, <2>2, <2>3
<1>7. DueOK(due', Arrived', W, partial', sent)
  BY <1>1, <1>6 DEF FramesInv, DueOK, W
<1>8. \A x \in W : x.frame \notin Arrived' \cup fast'
  BY <1>1, <1>6 DEF FramesInv, W
<1>9. \A o \in fast' : IsFrame(o, sent) /\ sent[o] = "small" /\ o \notin Arrived'
  BY <1>1, <1>6 DEF FramesInv
<1>10. seq' \in Numbers /\ WireOK(wire', sent) /\ (~open' => wire' = <<>>) /\ wire' = wire /\ partial' = partial
  BY <1>1 DEF FramesInv
<1>11. /\ partial' = Nothing \/ \E o : PartialIs(partial', o, W, sent)
       /\ open' => Chain(Pairs(W, partial'), seq', sent)
  BY <1>1 DEF FramesInv, W
<1> QED
  BY <1>1, <1>2, <1>5, <1>7, <1>8, <1>9, <1>10, <1>11, Assembled DEF W

\* Frames of the unreliable channel are lost.
LEMMA FastLost ==
    ASSUME FramesInv, fast' \subseteq fast,
           UNCHANGED <<way, ordered, open, seq, wire, partial, sent, got, due>>
    PROVE  FramesInv'
<1>1. Arrived' = Arrived
  BY DEF Arrived
<1>2. \A o \in fast' : IsFrame(o, sent) /\ sent[o] = "small" /\ o \notin Arrived'
  BY <1>1 DEF FramesInv
<1>3. \A x \in Range(wire) : x.frame \notin Arrived' \cup fast'
  BY <1>1 DEF FramesInv
<1>4. DueOK(due', Arrived', Range(wire), partial', sent)
  BY <1>1 DEF FramesInv
<1> QED
  BY <1>1, <1>2, <1>3, <1>4, Assembled DEF FramesInv

LEMMA NothingPartial ==
    ASSUME NEW W, NEW p, p = Nothing \/ \E n : PartialIs(p, n, W, sent), NEW t,
           Chain(Pairs(W, p), t, sent), WireOK(wire, sent), W = Range(wire)
    PROVE  Chain(Pairs(W, Nothing), t, sent)
<1>1. CASE p = Nothing
  BY <1>1
<1>2. CASE \E n : PartialIs(p, n, W, sent)
  <2>1. PICK n : PartialIs(p, n, W, sent)
    BY <1>2
  <2>2. Marks(W) \subseteq Pairs(W, p)
    BY DEF Pairs
  <2>3. ASSUME ordered, NEW x \in Marks(W), NEW y \in Pairs(W, p), x[1] <= y[1] PROVE y \in Marks(W)
    <3>1. Pairs(W, p) = Marks(W) \cup {<<n, p.seq>>} /\ n \in Nat
      BY <2>1, PairsOfPartial
    <3>2. SUFFICES ASSUME y = <<n, p.seq>> PROVE y \in Marks(W)
      BY <3>1
    <3>3. PICK z \in W : z.seq # -1 /\ x = <<z.frame, z.seq>>
      BY <2>3 DEF Marks
    <3>4. Sound(z, sent)
      BY DEF WireOK
    <3>5. n <= z.frame /\ z.frame \in Nat
      BY <2>1, <2>3, <3>4 DEF PartialIs, Sound, IsFrame
    <3>6. z.frame = n
      BY <2>3, <3>1, <3>2, <3>3, <3>5
    <3>7. x = y
      <4>1. x \in Pairs(W, p) /\ x[1] = y[1] /\ x[1] = z.frame /\ x[2] = z.seq
        BY <2>2, <3>2, <3>3, <3>6
      <4>2. x[2] = y[2]
        BY <4>1 DEF Chain, OneEach
      <4> QED
        BY <3>2, <3>3, <3>6, <4>2
    <3> QED
      BY <3>7
  <2>4. Chain(Marks(W), t, sent)
    BY <2>2, <2>3, ChainShrinks
  <2> QED
    BY <2>4, PairsOfNothing
<1> QED
  BY <1>1, <1>2

\* The timeout: what is in the reassembler is not due any more.
LEMMA EvictStep ==
    ASSUME FramesInv, Evict
    PROVE  FramesInv'
<1> DEFINE W == Range(wire)
<1>1. /\ partial # Nothing /\ partial' = Nothing /\ due' = due \ Range(partial.parts)
      /\ UNCHANGED <<way, ordered, open, sessions, seq, wire, fast, fastOpen, sent, got>>
  BY DEF Evict
<1>2. Arrived' = Arrived
  BY <1>1 DEF Arrived
<1>3. open' => Chain(Pairs(W, Nothing), seq', sent)
  BY <1>1, NothingPartial DEF FramesInv
<1>4. DueOK(due', Arrived', W, Nothing, sent)
  <2> SUFFICES ASSUME ordered, NEW o \in due' \ Arrived, NEW j \in 1..Chunks[sent[o]]
               PROVE  \E x \in W : x.frame = o /\ x.index = j
    BY <1>1, <1>2 DEF FramesInv, DueOK
  <2>1. o \in due \ Arrived /\ o \notin Range(partial.parts)
    BY <1>1
  <2>2. ~(j \in DOMAIN partial.parts /\ partial.parts[j] = o)
    BY <2>1 DEF Range
  <2> QED
    BY <2>1, <2>2 DEF FramesInv, DueOK
<1>5. /\ \A o \in fast' : IsFrame(o, sent) /\ sent[o] = "small" /\ o \notin Arrived'
      /\ \A x \in W : x.frame \notin Arrived' \cup fast'
  BY <1>1, <1>2 DEF FramesInv
<1>6. /\ sent \in Seq(Size) /\ seq' \in Numbers /\ WireOK(wire', sent) /\ (~open' => wire' = <<>>)
      /\ GotOK(got', W, sent)
  BY <1>1 DEF FramesInv
<1> QED
  BY <1>1, <1>3, <1>4, <1>5, <1>6, Assembled

LEMMA NoPairs ==
    ASSUME NEW t \in Numbers, NEW snt
    PROVE  Chain(Pairs(Range(<<>>), Nothing), t, snt)
<1>1. Pairs(Range(<<>>), Nothing) = {}
  BY PairsOfNothing DEF Marks, Range
<1>2. Chain({}, t, snt)
  BY DEF Chain, OneEach, InTurn, Rising
<1> QED
  BY <1>1, <1>2

LEMMA OpenStep ==
    ASSUME FramesInv, Open
    PROVE  FramesInv'
<1>1. /\ wire = <<>> /\ partial' = Nothing /\ seq' = 0 /\ open'
      /\ UNCHANGED <<way, ordered, wire, fast, sent, got, due>>
  BY DEF Open, FramesInv, history
<1>2. Arrived' = Arrived /\ Range(wire) = {}
  BY <1>1 DEF Arrived, Range
<1>3. seq' \in Numbers
  BY <1>1, FramesAssumption DEF Numbers
<1>4. Chain(Pairs(Range(wire'), partial'), seq', sent)
  BY <1>1, <1>3, NoPairs
<1>5. DueOK(due', Arrived', Range(wire'), partial', sent)
  <2> SUFFICES ASSUME ordered, NEW o \in due \ Arrived, NEW j \in 1..Chunks[sent[o]]
               PROVE  FALSE
    BY <1>1, <1>2 DEF FramesInv, DueOK
  <2>1. sent \in Seq(Size) /\ IsFrame(o, sent) /\ o \in Nat \ {0}
    BY DEF FramesInv, DueOK, IsFrame
  <2>2. Chunks[sent[o]] \in 1..3
    BY <2>1, WholeIs
  <2>3. \A i \in 1..Chunks[sent[o]] : i \in DOMAIN partial.parts /\ partial.parts[i] = o
    BY <1>2 DEF FramesInv, DueOK
  <2>4. partial # Nothing
    BY <2>3 DEF Nothing
  <2>5. PICK n : PartialIs(partial, n, Range(wire), sent)
    BY <2>4 DEF FramesInv
  <2>6. n = o
    <3>1. 1 \in DOMAIN partial.parts /\ partial.parts[1] = o
      BY <2>2, <2>3
    <3>2. o \in Range(partial.parts) \ {0}
      BY <2>1, <3>1 DEF Range
    <3> QED
      BY <2>5, <3>2, PairsOfPartial
  <2> QED
    BY <2>1, <2>3, <2>5, <2>6 DEF PartialIs
<1>6. /\ \A o \in fast' : IsFrame(o, sent) /\ sent[o] = "small" /\ o \notin Arrived'
      /\ \A x \in Range(wire') : x.frame \notin Arrived' \cup fast'
  BY <1>1, <1>2 DEF FramesInv
<1>7. /\ sent \in Seq(Size) /\ WireOK(wire', sent) /\ (~open' => wire' = <<>>)
      /\ GotOK(got', Range(wire'), sent)
  BY <1>1 DEF FramesInv
<1> QED
  BY <1>1, <1>3, <1>4, <1>5, <1>6, <1>7, Assembled

\* The end of the channel: what has not been handed over is not due any more.
LEMMA ClosesStep ==
    ASSUME FramesInv, NEW clears, Closes(clears), got' = got
    PROVE  FramesInv'
<1>1. /\ ~open' /\ wire' = <<>> /\ fast' = {} /\ partial' \in {Nothing, partial} /\ due' = due \cap Arrived
      /\ UNCHANGED <<way, ordered, seq, sent>>
  BY DEF Closes, Arrived
<1>2. Arrived' = Arrived
  BY DEF Arrived
<1>3. Range(wire') = {} /\ wire' \in Seq(Piece) /\ Len(wire') = 0
  BY <1>1 DEF Range
<1>4. WireOK(wire', sent)
  BY <1>3 DEF WireOK, Single, Sorted
<1>5. partial' = Nothing \/ \E n : PartialIs(partial', n, Range(wire'), sent)
  BY <1>1, <1>3 DEF FramesInv, PartialIs
<1>6. GotOK(got', Range(wire'), sent)
  <2>1. GotOK(got, Range(wire), sent)
    BY DEF FramesInv
  <2> QED
    BY <1>3, <2>1 DEF GotOK
<1>7. DueOK(due', Arrived', Range(wire'), partial', sent)
  BY <1>1, <1>2 DEF FramesInv, DueOK
<1>8. sent \in Seq(Size) /\ seq' \in Numbers
  BY <1>1 DEF FramesInv
<1> QED
  BY <1>1, <1>2, <1>3, <1>4, <1>5, <1>6, <1>7, <1>8, Assembled

\* Another frame is sent: what was so of those before is so still.
LEMMA SentMore ==
    ASSUME FramesInv, NEW size \in Size
    PROVE  LET s2 == Append(sent, size)
               W == Range(wire)
           IN  /\ s2 \in Seq(Size) /\ WireOK(wire, s2) /\ GotOK(got, W, s2)
               /\ DueOK(due, Arrived, W, partial, s2)
               /\ partial = Nothing \/ \E o : PartialIs(partial, o, W, s2) /\ o \in 1..Len(sent)
               /\ \A o \in fast : IsFrame(o, s2) /\ s2[o] = "small"
               /\ \A o \in Arrived \cup fast : o \in 1..Len(sent)
               /\ \A m \in W : m.frame \in 1..Len(sent)
               /\ \A o \in due : o \in 1..Len(sent)
               /\ open => Chain(Pairs(W, partial), seq, s2)
<1> DEFINE s2 == Append(sent, size)
           W == Range(wire)
<1>1. sent \in Seq(Size)
  BY DEF FramesInv
<1>2. /\ s2 \in Seq(Size)
      /\ \A n : IsFrame(n, sent) => IsFrame(n, s2) /\ s2[n] = sent[n]
      /\ \A m : Sound(m, sent) => Sound(m, s2)
  BY <1>1, SentGrows, FramesGrow
<1>3. open => Chain(Pairs(W, partial), seq, s2)
  BY <1>1, ChainWaits DEF FramesInv
<1> HIDE DEF s2, W
<1>4. WireOK(wire, s2) /\ \A m \in W : m.frame \in 1..Len(sent)
  BY <1>2 DEF FramesInv, WireOK, W, Sound, IsFrame
<1>5. \A n : IsFrame(n, sent) => Whole(n, s2) = Whole(n, sent) /\ n \in 1..Len(sent)
  BY <1>2 DEF Whole, IsFrame
<1>6. GotOK(got, W, s2)
  <2>1. GotOK(got, W, sent)
    BY DEF FramesInv, W
  <2>2. \A k \in 1..Len(got) : IsFrame(got[k].frames[1], s2) /\ got[k].frames = Whole(got[k].frames[1], s2)
    BY <1>2, <1>5, <2>1 DEF GotOK
  <2> QED
    BY <2>1, <2>2 DEF GotOK
<1>7. DueOK(due, Arrived, W, partial, s2) /\ \A o \in due : o \in 1..Len(sent)
  <2>1. DueOK(due, Arrived, W, partial, sent)
    BY DEF FramesInv, W
  <2>2. \A o \in due : IsFrame(o, sent) /\ IsFrame(o, s2) /\ s2[o] = sent[o]
    BY <1>2, <2>1 DEF DueOK
  <2> QED
    BY <2>1, <2>2 DEF DueOK, IsFrame
<1>8. partial = Nothing \/ \E o : PartialIs(partial, o, W, s2) /\ o \in 1..Len(sent)
  <2> SUFFICES ASSUME NEW o, PartialIs(partial, o, W, sent) PROVE PartialIs(partial, o, W, s2) /\ o \in 1..Len(sent)
    BY DEF FramesInv, W
  <2>1. IsFrame(o, sent) /\ IsFrame(o, s2) /\ s2[o] = sent[o]
    BY <1>2 DEF PartialIs
  <2> QED
    BY <2>1 DEF PartialIs, IsFrame
<1>9. \A o \in fast : IsFrame(o, s2) /\ s2[o] = "small" /\ o \in 1..Len(sent)
  BY <1>2 DEF FramesInv, IsFrame
<1>10. \A o \in Arrived : o \in 1..Len(sent)
  <2> SUFFICES ASSUME NEW k \in DOMAIN got PROVE got[k].frames[1] \in 1..Len(sent)
    BY DEF Arrived
  <2>1. k \in 1..Len(got)
    BY DEF FramesInv, GotOK
  <2> QED
    BY <2>1 DEF FramesInv, GotOK, IsFrame
<1> QED
  BY <1>2, <1>3, <1>4, <1>6, <1>7, <1>8, <1>9, <1>10 DEF s2, W

\* A frame that the host drops, or that takes the unreliable channel.
LEMMA SentElsewhere ==
    ASSUME FramesInv, NEW size \in Size, sent' = Append(sent, size),
           fast' = fast \/ (size = "small" /\ fast' = fast \cup {Len(sent) + 1}),
           UNCHANGED <<way, ordered, open, seq, wire, partial, got, due>>
    PROVE  FramesInv'
<1> DEFINE W == Range(wire)
           s2 == Append(sent, size)
<1>1. /\ s2 \in Seq(Size) /\ WireOK(wire, s2) /\ GotOK(got, W, s2)
      /\ DueOK(due, Arrived, W, partial, s2)
      /\ partial = Nothing \/ \E o : PartialIs(partial, o, W, s2) /\ o \in 1..Len(sent)
      /\ \A o \in fast : IsFrame(o, s2) /\ s2[o] = "small"
      /\ \A o \in Arrived \cup fast : o \in 1..Len(sent)
      /\ \A m \in W : m.frame \in 1..Len(sent)
      /\ open => Chain(Pairs(W, partial), seq, s2)
  BY SentMore
<1>2. Arrived' = Arrived
  BY DEF Arrived
<1>3. sent \in Seq(Size) /\ Len(sent) \in Nat /\ ~(Len(sent) + 1 \in 1..Len(sent))
  BY DEF FramesInv
<1>4. size = "small" => IsFrame(Len(sent) + 1, s2) /\ s2[Len(sent) + 1] = "small"
  BY <1>3, FramesGrow, SentGrows
<1> HIDE DEF W, s2
<1>5. \A o \in fast' : IsFrame(o, s2) /\ s2[o] = "small" /\ o \notin Arrived'
  BY <1>1, <1>2, <1>3, <1>4 DEF FramesInv
<1>6. \A x \in W : x.frame \notin Arrived' \cup fast'
  BY <1>1, <1>2, <1>3 DEF FramesInv, W
<1>7. sent' = s2 /\ Range(wire') = W
  BY DEF s2, W
<1>8. seq' \in Numbers /\ (~open' => wire' = <<>>)
  BY DEF FramesInv
<1>9. \A o \in fast' : IsFrame(o, sent') /\ sent'[o] = "small" /\ o \notin Arrived'
  BY <1>5, <1>7
<1>10. /\ sent' \in Seq(Size) /\ WireOK(wire', sent') /\ GotOK(got', Range(wire'), sent')
       /\ DueOK(due', Arrived', Range(wire'), partial', sent')
       /\ open' => Chain(Pairs(Range(wire'), partial'), seq', sent')
  BY <1>1, <1>2, <1>7
<1>11. partial' = Nothing \/ \E o : PartialIs(partial', o, Range(wire'), sent')
  BY <1>1, <1>7
<1>12. \A x \in Range(wire') : x.frame \notin Arrived' \cup fast'
  BY <1>6, <1>7
<1> QED
  BY <1>8, <1>9, <1>10, <1>11, <1>12, Assembled

LEMMA SendFastStep ==
    ASSUME FramesInv, NEW size \in Sizes, Send(size, TRUE), fastOpen
    PROVE  FramesInv'
<1>1. size \in Size
  BY ChunksAre DEF Sizes
<1>2. /\ sent' = Append(sent, size)
      /\ fast' = fast \/ (size = "small" /\ fast' = fast \cup {Len(sent) + 1})
      /\ UNCHANGED <<way, ordered, open, seq, wire, partial, got, due>>
  BY DEF Send, SendFast
<1> QED
  BY <1>1, <1>2, SentElsewhere

\* A frame that takes the main channel: whole, in chunks, or not at all.
LEMMA SendReliableStep ==
    ASSUME FramesInv, NEW size \in Sizes, NEW quick \in BOOLEAN, Send(size, quick), ~(quick /\ fastOpen)
    PROVE  FramesInv'
<1> DEFINE W == Range(wire)
           s2 == Append(sent, size)
           n == Len(sent) + 1
           x == NewMessages(n, size)
           X == Range(x)
           P == Pairs(W, partial)
           next == (seq + 1) % SeqNumbers
<1>1. size \in Size /\ (way = "up" => size # "oversize")
  BY ChunksAre DEF Sizes
<1>2. /\ open /\ sent' = s2 /\ wire' = wire \o x
      /\ size = "oversize" => "oversize" \notin Range(sent)
      /\ ~ordered /\ size # "small" => seq < SeqNumbers - 1
      /\ seq' = IF size = "small" THEN seq ELSE next
      /\ due' = IF size = "oversize" \/ (way = "up" /\ size = "huge") THEN due ELSE due \cup {n}
      /\ UNCHANGED <<way, ordered, open, fast, partial, got>>
  BY DEF Send, SendReliable, NewMessages
<1>3. /\ s2 \in Seq(Size) /\ WireOK(wire, s2) /\ GotOK(got, W, s2)
      /\ DueOK(due, Arrived, W, partial, s2)
      /\ partial = Nothing \/ \E o : PartialIs(partial, o, W, s2) /\ o \in 1..Len(sent)
      /\ \A o \in fast : IsFrame(o, s2) /\ s2[o] = "small"
      /\ \A o \in Arrived \cup fast : o \in 1..Len(sent)
      /\ \A m \in W : m.frame \in 1..Len(sent)
      /\ \A o \in due : o \in 1..Len(sent)
  BY <1>1, SentMore
<1>4. sent \in Seq(Size) /\ Len(sent) \in Nat /\ n \in Nat /\ ~(n \in 1..Len(sent)) /\ \A o \in 1..Len(sent) : o < n
  BY DEF FramesInv
<1>5. s2[n] = size /\ (size # "oversize" => IsFrame(n, s2))
  BY <1>1, <1>4, FramesGrow, SentGrows
<1>6. seq \in Numbers /\ Chain(P, seq, sent)
  BY <1>2 DEF FramesInv
<1> HIDE DEF n, s2, x, next
<1>7. /\ x \in Seq(Piece) /\ Single(x)
      /\ \A m \in X : Sound(m, s2) /\ m.frame = n /\ m.seq = IF size = "small" THEN -1 ELSE seq
      /\ size # "oversize" => \A i \in 1..Chunks[size] : \E m \in X : m.index = i
      /\ size = "oversize" => X = {}
  BY <1>1, <1>4, <1>5, <1>6, Messages DEF x
<1> HIDE DEF X, W, P
<1>8. WireOK(wire', s2) /\ Range(wire') = W \cup X
  <2>1. \A m \in W : Sound(m, s2)
    BY <1>3 DEF WireOK, W
  <2>2. WireOK(wire, sent)
    BY DEF FramesInv
  <2>3. \A m \in X : m.frame = Len(sent) + 1
    BY <1>7 DEF n
  <2>4. (\A m \in Range(wire) : Sound(m, s2)) /\ \A m \in Range(x) : Sound(m, s2) /\ m.frame = Len(sent) + 1
    BY <1>7, <2>1, <2>3 DEF W, X
  <2>5. WireOK(wire \o x, s2) /\ Range(wire \o x) = Range(wire) \cup Range(x)
    BY <1>4, <1>7, <2>2, <2>4, WireGrows
  <2> QED
    BY <1>2, <2>5 DEF W, X
<1> DEFINE U == W \cup X
<1>9. Arrived' = Arrived
  BY <1>2 DEF Arrived
<1>10. partial' = Nothing \/ \E o : PartialIs(partial', o, U, s2)
  <2> SUFFICES ASSUME NEW o, PartialIs(partial, o, W, s2), o \in 1..Len(sent) PROVE PartialIs(partial, o, U, s2)
    BY <1>2, <1>3
  <2>1. \A m \in X : m.frame # o /\ o <= m.frame
    BY <1>4, <1>7
  <2> QED
    BY <2>1 DEF PartialIs
<1>11. GotOK(got', U, s2)
  <2>1. \A k \in 1..Len(got) : \A m \in X : got[k].frames[1] < m.frame
    <3> SUFFICES ASSUME NEW k \in 1..Len(got) PROVE got[k].frames[1] < n
      BY <1>7
    <3>1. got[k].frames[1] \in Arrived
      BY <1>3 DEF GotOK, Arrived
    <3> QED
      BY <1>3, <1>4, <3>1
  <2> QED
    BY <1>2, <1>3, <2>1 DEF GotOK
<1>12. DueOK(due', Arrived', U, partial', s2)
  <2>1. \A o \in due' : IsFrame(o, s2) /\ (way = "up" => s2[o] # "huge")
    <3> SUFFICES ASSUME NEW o \in due' PROVE IsFrame(o, s2) /\ (way = "up" => s2[o] # "huge")
      OBVIOUS
    <3>1. CASE o \in due
      BY <1>3, <3>1 DEF DueOK
    <3>2. CASE o \notin due
      <4>1. o = n /\ size # "oversize" /\ ~(way = "up" /\ size = "huge")
        BY <1>2, <3>2
      <4> QED
        BY <1>5, <4>1
    <3> QED
      BY <3>1, <3>2
  <2>2. ASSUME ordered, NEW o \in due' \ Arrived, NEW j \in 1..Chunks[s2[o]]
        PROVE  \/ \E m \in U : m.frame = o /\ m.index = j
               \/ j \in DOMAIN partial.parts /\ partial.parts[j] = o
    <3>1. CASE o \in due
      BY <1>3, <2>2, <3>1 DEF DueOK
    <3>2. CASE o \notin due
      <4>1. o = n /\ size # "oversize"
        BY <1>2, <2>2, <3>2
      <4> QED
        BY <1>5, <1>7, <2>2, <4>1
    <3> QED
      BY <3>1, <3>2
  <2>3. way' = way /\ ordered' = ordered /\ partial' = partial
    BY <1>2
  <2> HIDE DEF U
  <2> QED
    BY <1>9, <2>1, <2>2, <2>3 DEF DueOK
<1>13. open' => Chain(Pairs(U, partial'), seq', s2)
  <2>1. CASE size = "small"
    <3>1. Marks(U) = Marks(W)
      BY <1>7, <2>1 DEF Marks
    <3>2. Pairs(U, partial') = P
      BY <1>2, <3>1 DEF Pairs, P
    <3>3. Chain(P, seq, s2)
      BY <1>1, <1>4, <1>6, ChainWaits DEF s2
    <3> QED
      BY <1>2, <2>1, <3>2, <3>3
  <2>2. CASE size = "oversize"
    <3>1. U = W
      BY <1>7, <2>2
    <3>2. \A i \in 1..Len(sent) : sent[i] # "oversize"
      BY <1>2, <1>4, <2>2 DEF Range
    <3>3. ~ordered => seq < SeqNumbers - 1
      BY <1>2, <2>2
    <3>4. Chain(P, next, s2)
      BY <1>4, <1>6, <2>2, <3>2, <3>3, ChainSkips DEF s2, next
    <3>5. Pairs(U, partial') = P
      BY <1>2, <3>1 DEF P
    <3> QED
      BY <1>2, <2>2, <3>4, <3>5
  <2>3. CASE size \notin {"small", "oversize"}
    <3>1. Chunks[size] \in 2..3
      BY <1>1, <2>3, ChunksAre
    <3>2. PICK m \in X : m.index = 1
      BY <1>7, <2>3, <3>1
    <3>3. seq # -1 /\ \A z \in X : z.frame = n /\ z.seq = seq
      BY <1>6, <1>7, <2>3, FramesAssumption DEF Numbers
    <3>4. Marks(U) = Marks(W) \cup {<<n, seq>>}
      BY <3>2, <3>3 DEF Marks
    <3>5. Pairs(U, partial') = P \cup {<<n, seq>>}
      BY <1>2, <3>4 DEF Pairs, P
    <3>6. ~ordered => seq < SeqNumbers - 1
      BY <1>2, <2>3
    <3>7. Chain(P \cup {<<n, seq>>}, next, s2)
      BY <1>1, <1>4, <1>6, <3>6, ChainGrows DEF s2, next, n
    <3> QED
      BY <1>2, <2>3, <3>5, <3>7
  <2> QED
    BY <2>1, <2>2, <2>3
<1>14. \A o \in fast' : IsFrame(o, s2) /\ s2[o] = "small" /\ o \notin Arrived'
  BY <1>2, <1>3, <1>9 DEF FramesInv
<1>15. \A m \in U : m.frame \notin Arrived' \cup fast'
  <2>1. \A m \in W : m.frame \notin Arrived \cup fast
    BY DEF FramesInv, W
  <2> QED
    BY <1>2, <1>3, <1>4, <1>7, <1>9, <2>1
<1>16. seq' \in Numbers /\ open'
  BY <1>2, <1>6, NumbersApart DEF next
<1> HIDE DEF U
<1>17. Range(wire') = U /\ sent' = s2
  BY <1>2, <1>8 DEF U
<1>18. WireOK(wire', sent') /\ GotOK(got', Range(wire'), sent') /\ sent' \in Seq(Size)
  BY <1>3, <1>8, <1>11, <1>17
<1>19. DueOK(due', Arrived', Range(wire'), partial', sent')
  BY <1>12, <1>17
<1>20. partial' = Nothing \/ \E o : PartialIs(partial', o, Range(wire'), sent')
  BY <1>10, <1>17
<1>21. open' => Chain(Pairs(Range(wire'), partial'), seq', sent')
  BY <1>13, <1>17
<1>22. /\ \A o \in fast' : IsFrame(o, sent') /\ sent'[o] = "small" /\ o \notin Arrived'
       /\ \A m \in Range(wire') : m.frame \notin Arrived' \cup fast'
  BY <1>14, <1>15, <1>17
<1>23. ordered' = ordered /\ way' = way
  BY <1>2
<1> QED
  BY <1>16, <1>18, <1>19, <1>20, <1>21, <1>22, <1>23, Assembled

LEMMA DropBufferedStep ==
    ASSUME FramesInv, NEW size \in Sizes, DropBuffered(size)
    PROVE  FramesInv'
<1>1. size \in Size
  BY ChunksAre DEF Sizes
<1>2. /\ sent' = Append(sent, size) /\ fast' = fast
      /\ UNCHANGED <<way, ordered, open, seq, wire, partial, got, due>>
  BY DEF DropBuffered, channel
<1> QED
  BY <1>1, <1>2, SentElsewhere

\* A step of the rest of the host.
LEMMA FramesStay ==
    ASSUME FramesInv, UNCHANGED <<way, ordered, channel, history>>
    PROVE  FramesInv'
<1>1. UNCHANGED <<way, ordered, open, seq, wire, fast, partial, sent, got, due>>
  BY DEF channel, history
<1> QED
  BY <1>1, FastLost

LEMMA FramesStep ==
    ASSUME FramesInv, [Next]_vars
    PROVE  FramesInv'
<1>1. CASE Open
  BY <1>1, OpenStep
<1>2. CASE Close
  BY <1>2, ClosesStep DEF Close
<1>3. CASE FastCloses
  BY <1>3, FastLost DEF FastCloses, history
<1>4. CASE Kicked
  BY <1>4, ClosesStep DEF Kicked
<1>5. CASE Evict
  BY <1>5, EvictStep
<1>6. CASE Elsewhere
  BY <1>6, FramesStay DEF Elsewhere
<1>7. ASSUME NEW size \in Sizes, DropBuffered(size) PROVE FramesInv'
  BY <1>7, DropBufferedStep
<1>8. ASSUME NEW size \in Sizes, NEW quick \in BOOLEAN, Send(size, quick) PROVE FramesInv'
  <2>1. CASE quick /\ fastOpen
    <3>1. quick = TRUE
      BY <2>1
    <3> QED
      BY <1>8, <2>1, <3>1, SendFastStep
  <2> QED
    BY <1>8, <2>1, SendReliableStep
<1>9. ASSUME NEW i \in DOMAIN wire, Deliver(i) PROVE FramesInv'
  <2>1. i \in 1..Len(wire)
    BY DEF FramesInv, WireOK
  <2> QED
    BY <1>9, <2>1, DeliverSmall, DeliverChunk, DeliverLast
<1>10. ASSUME NEW n \in fast, DeliverFast(n) PROVE FramesInv'
  BY <1>10, DeliverFastStep
<1>11. ASSUME NEW n \in fast, LoseFast(n) PROVE FramesInv'
  BY <1>11, FastLost DEF LoseFast, history
<1>12. CASE UNCHANGED vars
  BY <1>12, FramesStay DEF vars
<1> QED
  BY <1>1, <1>2, <1>3, <1>4, <1>5, <1>6, <1>7, <1>8, <1>9, <1>10, <1>11, <1>12 DEF Next

LEMMA FramesStart ==
    ASSUME Init
    PROVE  FramesInv
<1>1. /\ open = FALSE /\ seq = 0 /\ wire = <<>> /\ fast = {} /\ partial = Nothing
      /\ sent = <<>> /\ got = <<>> /\ due = {}
  BY DEF Init
<1>2. seq \in Numbers /\ sent \in Seq(Size) /\ Range(wire) = {} /\ got \in Seq(Item) /\ Len(got) = 0
  BY <1>1, FramesAssumption DEF Numbers, Range
<1>3. WireOK(wire, sent)
  BY <1>1, <1>2 DEF WireOK, Single, Sorted
<1>4. GotOK(got, Range(wire), sent) /\ DueOK(due, Arrived, Range(wire), partial, sent)
  BY <1>1, <1>2 DEF GotOK, DueOK
<1> QED
  BY <1>1, <1>2, <1>3, <1>4 DEF FramesInv

\* The invariant says all that the property does.
LEMMA FramesTell ==
    ASSUME FramesInv
    PROVE  Transparent
<1>1. sent \in Seq(Size) /\ DOMAIN sent = 1..Len(sent) /\ GotOK(got, Range(wire), sent) /\ DOMAIN got = 1..Len(got)
  BY DEF FramesInv, GotOK
<1>2. ASSUME NEW k \in DOMAIN got
      PROVE  got[k].frames \in {[i \in 1..Chunks[sent[n]] |-> n] : n \in DOMAIN sent}
  <2>1. IsFrame(got[k].frames[1], sent) /\ got[k].frames = Whole(got[k].frames[1], sent)
    BY <1>1 DEF GotOK
  <2> QED
    BY <1>1, <2>1 DEF IsFrame, Whole
<1>3. ASSUME NEW k \in DOMAIN got, NEW l \in 1..k - 1
      PROVE  /\ got[l].frames[1] # got[k].frames[1]
             /\ ordered /\ ~got[k].quick /\ ~got[l].quick => got[l].frames[1] < got[k].frames[1]
  <2>1. Len(got) \in Nat /\ k \in 1..Len(got) /\ l \in 1..Len(got) /\ l # k
    BY <1>1 DEF GotOK
  <2> QED
    BY <1>1, <2>1 DEF GotOK
<1>4. ASSUME ordered, NEW o \in due, o \notin Arrived
      PROVE  \E m \in Range(wire) : m.frame = o
  <2>1. IsFrame(o, sent) /\ o \in Nat \ {0}
    BY DEF FramesInv, DueOK, IsFrame
  <2>2. Chunks[sent[o]] \in 1..3
    BY <1>1, <2>1, WholeIs
  <2>3. SUFFICES ASSUME ~ \E m \in Range(wire) : m.frame = o PROVE FALSE
    OBVIOUS
  <2>4. \A i \in 1..Chunks[sent[o]] : i \in DOMAIN partial.parts /\ partial.parts[i] = o
    BY <1>4, <2>3 DEF FramesInv, DueOK
  <2>5. partial # Nothing
    BY <2>2, <2>4 DEF Nothing
  <2>6. PICK n : PartialIs(partial, n, Range(wire), sent)
    BY <2>5 DEF FramesInv
  <2>7. n = o
    <3>1. 1 \in DOMAIN partial.parts /\ partial.parts[1] = o
      BY <2>2, <2>4
    <3>2. o \in Range(partial.parts) \ {0}
      BY <2>1, <3>1 DEF Range
    <3> QED
      BY <2>6, <3>2, PairsOfPartial
  <2>8. PICK i \in 1..Chunks[sent[o]] : partial.parts[i] = 0
    BY <2>6, <2>7 DEF PartialIs
  <2> QED
    BY <2>1, <2>4, <2>8
<1> QED
  BY <1>2, <1>3, <1>4 DEF Transparent

\* Chunking is transparent (src/node/README.md:153-155), for every number of frames, sessions and
\* sequence numbers above two: what is handed over is a frame that was sent, whole and
\* once, in order on an ordered channel, and nothing that is due is lost.
THEOREM ChunkingIsTransparent == Spec => []Transparent
<1>1. Init => FramesInv
  BY FramesStart
<1>2. FramesInv /\ [Next]_vars => FramesInv'
  BY FramesStep
<1>3. FramesInv => Transparent
  BY FramesTell
<1> QED
  BY <1>1, <1>2, <1>3, PTL DEF Spec

---------------------------------------------------------------------------
(***************************************************************************)
(* Definitions by recursion.                                               *)
(***************************************************************************)

\* Step computes a value from those of smaller arguments.
Descends(D, V, size, Step) ==
    /\ V # {} /\ size \in [D -> Nat] /\ Step \in [[D -> V] \X D -> V]
    /\ \A f, g \in [D -> V], x \in D :
          (\A y \in D : size[y] < size[x] => f[y] = g[y]) => Step[<<f, x>>] = Step[<<g, x>>]

Solves(D, V, Step, h) == h \in [D -> V] /\ \A x \in D : h[x] = Step[<<h, x>>]

\* A function may be defined in terms of its own values for smaller arguments.
LEMMA Recursion ==
    ASSUME NEW D, NEW V, NEW size, NEW Step, Descends(D, V, size, Step)
    PROVE  \E h : Solves(D, V, Step, h)
<1> USE DEF Descends
<1> PICK v \in V : TRUE
  OBVIOUS
<1> DEFINE Upto(n, f) == f \in [D -> V] /\ \A x \in D : size[x] <= n => f[x] = Step[<<f, x>>]
<1>1. ASSUME NEW n \in Nat, NEW f, NEW g, Upto(n, f), Upto(n, g), NEW x \in D, size[x] <= n
      PROVE  f[x] = g[x]
  <2> DEFINE F == {size[y] : y \in {z \in D : size[z] <= n /\ f[z] # g[z]}}
  <2>1. ASSUME F # {} PROVE FALSE
    <3>1. F \subseteq Nat
      OBVIOUS
    <3>2. PICK k \in F : \A j \in F : k <= j
      <4> HIDE DEF F
      <4> QED
        BY <2>1, <3>1, LeastOne
    <3>3. PICK y \in D : size[y] = k /\ size[y] <= n /\ f[y] # g[y]
      BY <3>2
    <3>4. ASSUME NEW z \in D, size[z] < size[y] PROVE f[z] = g[z]
      <4>1. size[z] \in Nat /\ size[y] \in Nat
        OBVIOUS
      <4>2. size[z] \notin F
        <5> HIDE DEF F
        <5> QED
          BY <3>2, <3>3, <3>4, <4>1
      <4>3. size[z] <= n
        BY <3>3, <3>4, <4>1
      <4> QED
        BY <4>2, <4>3
    <3>5. Step[<<f, y>>] = Step[<<g, y>>]
      BY <1>1, <3>4
    <3> QED
      BY <1>1, <3>3, <3>5
  <2>2. f[x] # g[x] => size[x] \in F
    BY <1>1
  <2> HIDE DEF F
  <2> QED
    BY <2>1, <2>2
<1>2. ASSUME NEW n \in Nat PROVE \E f : Upto(n, f)
  <2> DEFINE F == {k \in Nat : ~ \E f : Upto(k, f)}
  <2>1. ASSUME F # {} PROVE FALSE
    <3>1. PICK k \in F : \A j \in F : k <= j
      <4>1. F \subseteq Nat
        OBVIOUS
      <4> HIDE DEF F
      <4> QED
        BY <2>1, <4>1, LeastOne
    <3>2. \E g \in [D -> V] : \A x \in D : size[x] < k => g[x] = Step[<<g, x>>]
      <4>1. CASE k = 0
        <5>1. [x \in D |-> v] \in [D -> V]
          OBVIOUS
        <5>2. \A x \in D : ~(size[x] < k)
          BY <4>1
        <5> QED
          BY <5>1, <5>2
      <4>2. CASE k # 0
        <5>1. k \in Nat /\ k - 1 \in Nat
          BY <4>2
        <5>2. k - 1 \notin F
          <6> HIDE DEF F
          <6> QED
            BY <3>1, <5>1
        <5>3. PICK g : Upto(k - 1, g)
          BY <5>1, <5>2
        <5>4. \A x \in D : size[x] < k => size[x] <= k - 1
          BY <5>1
        <5> QED
          BY <5>3, <5>4
      <4> QED
        BY <4>1, <4>2
    <3>3. PICK g \in [D -> V] : \A x \in D : size[x] < k => g[x] = Step[<<g, x>>]
      BY <3>2
    <3> DEFINE f == [x \in D |-> IF size[x] < k THEN g[x] ELSE Step[<<g, x>>]]
    <3>4. f \in [D -> V]
      OBVIOUS
    <3>5. \A x \in D : f[x] = IF size[x] < k THEN g[x] ELSE Step[<<g, x>>]
      OBVIOUS
    <3> HIDE DEF f
    <3>6. ASSUME NEW x \in D, size[x] <= k PROVE f[x] = Step[<<f, x>>]
      <4>1. \A y \in D : size[y] < size[x] => size[y] < k
        BY <3>1, <3>6
      <4>2. \A y \in D : size[y] < size[x] => f[y] = g[y]
        BY <3>5, <4>1
      <4>3. Step[<<f, x>>] = Step[<<g, x>>]
        BY <3>4, <4>2
      <4> QED
        BY <3>3, <3>5, <4>3
    <3> QED
      BY <3>1, <3>4, <3>6
  <2> QED
    BY <2>1
<1> DEFINE Part(n) == CHOOSE f : Upto(n, f)
           h == [x \in D |-> Part(size[x])[x]]
<1>3. \A n \in Nat : Upto(n, Part(n))
  BY <1>2
<1>4. \A n, k \in Nat : \A f : k <= n /\ Upto(n, f) => Upto(k, f)
  OBVIOUS
<1> HIDE DEF Part
<1>5. \A x \in D : h[x] = Part(size[x])[x] /\ Part(size[x]) \in [D -> V]
  BY <1>3
<1>6. h \in [D -> V]
  BY <1>5
<1> HIDE DEF h, Upto
<1>7. ASSUME NEW x \in D PROVE h[x] = Step[<<h, x>>]
  <2>1. ASSUME NEW y \in D, size[y] < size[x] PROVE h[y] = Part(size[x])[y]
    <3>1. Upto(size[y], Part(size[y])) /\ Upto(size[y], Part(size[x]))
      BY <1>3, <1>4, <2>1
    <3>2. Part(size[y])[y] = Part(size[x])[y]
      BY <1>1, <3>1
    <3> QED
      BY <1>5, <3>2
  <2>2. Step[<<h, x>>] = Step[<<Part(size[x]), x>>]
    BY <1>5, <1>6, <2>1
  <2>3. Part(size[x])[x] = Step[<<Part(size[x]), x>>]
    <3>1. size[x] \in Nat /\ size[x] <= size[x]
      OBVIOUS
    <3>2. Upto(size[x], Part(size[x]))
      BY <1>3, <3>1
    <3> QED
      BY <3>1, <3>2 DEF Upto
  <2> QED
    BY <1>5, <2>2, <2>3
<1> QED
  BY <1>6, <1>7 DEF Solves

(***************************************************************************)
(* Numbers.                                                                *)
(***************************************************************************)

VarintFrom(f, n) == IF n < 128 THEN <<n>> ELSE <<(n % 128) + 128>> \o f[n \div 128]

LEMMA Halves ==
    ASSUME NEW n \in Nat
    PROVE  /\ n % 128 \in 0..127 /\ n \div 128 \in Nat /\ n = 128 * (n \div 128) + (n % 128)
           /\ n >= 128 => n \div 128 < n /\ n \div 128 # 0
<1>1. n % 128 \in 0..127 /\ n \div 128 \in Nat
  OBVIOUS
<1>2. n = 128 * (n \div 128) + (n % 128)
  OBVIOUS
<1> QED
  BY <1>1, <1>2

LEMMA VarintIs ==
    /\ Varint \in [Nat -> Seq(Byte)]
    /\ \A n \in Nat : Varint[n] = VarintFrom(Varint, n)
<1> DEFINE size == [n \in Nat |-> n]
           Step == [p \in [Nat -> Seq(Byte)] \X Nat |-> VarintFrom(p[1], p[2])]
<1>1. ASSUME NEW f \in [Nat -> Seq(Byte)], NEW n \in Nat PROVE VarintFrom(f, n) \in Seq(Byte)
  <2>1. CASE n < 128
    <3>1. n \in Byte
      BY <2>1 DEF Byte
    <3> QED
      BY <2>1, <3>1 DEF VarintFrom
  <2>2. CASE n >= 128
    <3>1. (n % 128) + 128 \in Byte /\ n \div 128 \in Nat
      BY Halves DEF Byte
    <3>2. f[n \div 128] \in Seq(Byte) /\ <<(n % 128) + 128>> \in Seq(Byte)
      BY <3>1
    <3> QED
      BY <2>2, <3>2 DEF VarintFrom
  <2> QED
    BY <2>1, <2>2
<1>2. Step \in [[Nat -> Seq(Byte)] \X Nat -> Seq(Byte)]
  BY <1>1
<1>3. \A f \in [Nat -> Seq(Byte)], n \in Nat : Step[<<f, n>>] = VarintFrom(f, n)
  OBVIOUS
<1>4. size \in [Nat -> Nat] /\ \A n \in Nat : size[n] = n
  OBVIOUS
<1> HIDE DEF size, Step
<1>5. ASSUME NEW f \in [Nat -> Seq(Byte)], NEW g \in [Nat -> Seq(Byte)], NEW n \in Nat,
             \A k \in Nat : size[k] < size[n] => f[k] = g[k]
      PROVE  Step[<<f, n>>] = Step[<<g, n>>]
  <2>1. n >= 128 => f[n \div 128] = g[n \div 128]
    BY <1>4, <1>5, Halves
  <2>2. VarintFrom(f, n) = VarintFrom(g, n)
    BY <2>1 DEF VarintFrom
  <2> QED
    BY <1>3, <2>2
<1>6. Descends(Nat, Seq(Byte), size, Step)
  <2>1. \A f, g \in [Nat -> Seq(Byte)], n \in Nat :
            (\A k \in Nat : size[k] < size[n] => f[k] = g[k]) => Step[<<f, n>>] = Step[<<g, n>>]
    BY <1>5
  <2>2. Seq(Byte) # {}
    <3>1. <<>> \in Seq(Byte)
      OBVIOUS
    <3> QED
      BY <3>1
  <2> QED
    BY <1>2, <1>4, <2>1, <2>2 DEF Descends
<1>7. PICK h : Solves(Nat, Seq(Byte), Step, h)
  BY <1>6, Recursion
<1>8. h = [n \in Nat |-> IF n < 128 THEN <<n>> ELSE <<(n % 128) + 128>> \o h[n \div 128]]
  <2>1. \A n \in Nat : h[n] = VarintFrom(h, n)
    BY <1>3, <1>7 DEF Solves
  <2>2. h = [n \in Nat |-> h[n]]
    BY <1>7 DEF Solves
  <2> QED
    BY <2>1, <2>2 DEF VarintFrom
<1>9. Varint = [n \in Nat |-> IF n < 128 THEN <<n>> ELSE <<(n % 128) + 128>> \o Varint[n \div 128]]
  BY <1>8 DEF Varint
<1>10. \A n \in Nat : Varint[n] = VarintFrom(Varint, n)
  BY <1>9 DEF VarintFrom
<1>11. ASSUME NEW n \in Nat PROVE Varint[n] \in Seq(Byte)
  <2> DEFINE F == {k \in Nat : Varint[k] \notin Seq(Byte)}
  <2>1. ASSUME F # {} PROVE FALSE
    <3>1. F \subseteq Nat
      OBVIOUS
    <3>2. PICK k \in F : \A j \in F : k <= j
      <4> HIDE DEF F
      <4> QED
        BY <2>1, <3>1, LeastOne
    <3>3. k \in Nat /\ Varint[k] \notin Seq(Byte) /\ \A j \in Nat : j < k => Varint[j] \in Seq(Byte)
      BY <3>2
    <3> HIDE DEF F
    <3>4. CASE k < 128
      <4>1. k \in Byte
        BY <3>3, <3>4 DEF Byte
      <4>2. Varint[k] = <<k>>
        BY <1>10, <3>3, <3>4 DEF VarintFrom
      <4> QED
        BY <3>3, <4>1, <4>2
    <3>5. CASE k >= 128
      <4>1. (k % 128) + 128 \in Byte /\ k \div 128 \in Nat /\ k \div 128 < k
        BY <3>3, <3>5, Halves DEF Byte
      <4>2. Varint[k \div 128] \in Seq(Byte)
        BY <3>3, <4>1
      <4>3. <<(k % 128) + 128>> \in Seq(Byte)
        BY <4>1
      <4>4. Varint[k] = <<(k % 128) + 128>> \o Varint[k \div 128]
        <5>1. k \in Nat /\ ~(k < 128)
          BY <3>3, <3>5
        <5> QED
          BY <1>10, <5>1 DEF VarintFrom
      <4> QED
        BY <3>3, <4>2, <4>3, <4>4
    <3> QED
      BY <3>3, <3>4, <3>5
  <2> QED
    BY <2>1
<1>12. Varint \in [Nat -> Seq(Byte)]
  BY <1>9, <1>11
<1> QED
  BY <1>10, <1>12

LEMMA NonEmpty ==
    ASSUME NEW S, NEW s \in Seq(S), s # <<>>
    PROVE  /\ Len(s) \in Nat /\ Len(s) >= 1 /\ Head(s) = s[1] /\ Head(s) \in S
           /\ Tail(s) \in Seq(S) /\ Len(Tail(s)) = Len(s) - 1
           /\ \A i \in 1..Len(s) - 1 : Tail(s)[i] = s[i + 1]
  OBVIOUS

LEMMA Bytes1 == \A b \in Byte : b \in Nat /\ b % 128 \in Nat /\ (b < 128 => b % 128 = b)
  BY DEF Byte

LEMMA NoneEmpty == \A S : Seq(S) # {}
<1>1. \A S : <<>> \in Seq(S)
  OBVIOUS
<1> QED
  BY <1>1

ValueFrom(f, s) == IF s = <<>> THEN 0 ELSE (Head(s) % 128) + 128 * f[Tail(s)]

LEMMA ValueIs ==
    /\ Value \in [Seq(Byte) -> Nat]
    /\ \A s \in Seq(Byte) : Value[s] = ValueFrom(Value, s)
<1> DEFINE size == [s \in Seq(Byte) |-> Len(s)]
           Step == [p \in [Seq(Byte) -> Nat] \X Seq(Byte) |-> ValueFrom(p[1], p[2])]
<1>1. ASSUME NEW f \in [Seq(Byte) -> Nat], NEW s \in Seq(Byte) PROVE ValueFrom(f, s) \in Nat
  <2>1. CASE s # <<>>
    <3>1. Head(s) \in Byte /\ Tail(s) \in Seq(Byte)
      BY <2>1, NonEmpty
    <3>2. f[Tail(s)] \in Nat
      BY <3>1
    <3>3. Head(s) % 128 \in Nat
      BY <3>1, Bytes1, Zenon
    <3> QED
      BY <2>1, <3>2, <3>3 DEF ValueFrom
  <2> QED
    BY <2>1 DEF ValueFrom
<1>2. Step \in [[Seq(Byte) -> Nat] \X Seq(Byte) -> Nat]
  BY <1>1
<1>3. \A f \in [Seq(Byte) -> Nat], s \in Seq(Byte) : Step[<<f, s>>] = ValueFrom(f, s)
  OBVIOUS
<1>4. size \in [Seq(Byte) -> Nat] /\ \A s \in Seq(Byte) : size[s] = Len(s)
  OBVIOUS
<1> HIDE DEF size, Step
<1>5. ASSUME NEW f \in [Seq(Byte) -> Nat], NEW g \in [Seq(Byte) -> Nat], NEW s \in Seq(Byte),
             \A t \in Seq(Byte) : size[t] < size[s] => f[t] = g[t]
      PROVE  Step[<<f, s>>] = Step[<<g, s>>]
  <2>1. ASSUME s # <<>> PROVE f[Tail(s)] = g[Tail(s)]
    <3>1. Tail(s) \in Seq(Byte) /\ Len(Tail(s)) < Len(s)
      BY <2>1, NonEmpty
    <3>2. size[Tail(s)] < size[s]
      BY <1>4, <3>1
    <3> QED
      BY <1>5, <3>1, <3>2
  <2>2. ValueFrom(f, s) = ValueFrom(g, s)
    BY <2>1 DEF ValueFrom
  <2> QED
    BY <1>3, <2>2
<1>6. Descends(Seq(Byte), Nat, size, Step)
  <2>1. \A f, g \in [Seq(Byte) -> Nat], s \in Seq(Byte) :
            (\A t \in Seq(Byte) : size[t] < size[s] => f[t] = g[t]) => Step[<<f, s>>] = Step[<<g, s>>]
    BY <1>5
  <2>2. Nat # {}
    OBVIOUS
  <2> QED
    BY <1>2, <1>4, <2>1, <2>2 DEF Descends
<1>7. PICK h : Solves(Seq(Byte), Nat, Step, h)
  BY <1>6, Recursion
<1>8. h = [s \in Seq(Byte) |-> IF s = <<>> THEN 0 ELSE (Head(s) % 128) + 128 * h[Tail(s)]]
  <2>1. \A s \in Seq(Byte) : h[s] = ValueFrom(h, s)
    BY <1>3, <1>7 DEF Solves
  <2>2. h = [s \in Seq(Byte) |-> h[s]]
    BY <1>7 DEF Solves
  <2> QED
    BY <2>1, <2>2 DEF ValueFrom
<1>9. Value = [s \in Seq(Byte) |-> IF s = <<>> THEN 0 ELSE (Head(s) % 128) + 128 * Value[Tail(s)]]
  BY <1>8 DEF Value
<1>10. \A s \in Seq(Byte) : Value[s] = ValueFrom(Value, s)
  BY <1>9 DEF ValueFrom
<1>11. ASSUME NEW s \in Seq(Byte) PROVE Value[s] \in Nat
  <2> DEFINE F == {Len(t) : t \in {u \in Seq(Byte) : Value[u] \notin Nat}}
  <2>1. ASSUME F # {} PROVE FALSE
    <3>1. F \subseteq Nat
      OBVIOUS
    <3>2. PICK k \in F : \A j \in F : k <= j
      <4> HIDE DEF F
      <4> QED
        BY <2>1, <3>1, LeastOne
    <3>3. PICK t \in Seq(Byte) : Len(t) = k /\ Value[t] \notin Nat
      BY <3>2
    <3>4. ASSUME NEW u \in Seq(Byte), Len(u) < Len(t) PROVE Value[u] \in Nat
      <4>1. Value[u] \notin Nat => Len(u) \in F
        OBVIOUS
      <4>2. Len(u) \in Nat /\ Len(t) \in Nat
        OBVIOUS
      <4> HIDE DEF F
      <4> QED
        BY <3>2, <3>3, <3>4, <4>1, <4>2
    <3>5. CASE t # <<>>
      <4>1. Head(t) \in Byte /\ Tail(t) \in Seq(Byte) /\ Len(Tail(t)) < Len(t)
        BY <3>5, NonEmpty
      <4>2. Value[Tail(t)] \in Nat
        BY <3>4, <4>1
      <4>4. Head(t) % 128 \in Nat
        BY <4>1, Bytes1, Zenon
      <4>3. Value[t] = (Head(t) % 128) + 128 * Value[Tail(t)]
        BY <1>10, <3>5 DEF ValueFrom
      <4> QED
        BY <3>3, <4>2, <4>3, <4>4
    <3>6. CASE t = <<>>
      BY <1>10, <3>3, <3>6 DEF ValueFrom
    <3> QED
      BY <3>5, <3>6
  <2>2. Value[s] \notin Nat => Len(s) \in F
    OBVIOUS
  <2> HIDE DEF F
  <2> QED
    BY <2>1, <2>2
<1>12. Value \in [Seq(Byte) -> Nat]
  BY <1>9, <1>11
<1> QED
  BY <1>10, <1>12

LEMMA Split ==
    ASSUME NEW S, NEW s \in Seq(S), NEW t \in Seq(S)
    PROVE  /\ s \o t \in Seq(S) /\ Len(s \o t) = Len(s) + Len(t) /\ Len(s) \in Nat /\ Len(t) \in Nat
           /\ SubSeq(s \o t, 1, Len(s)) = s
           /\ SubSeq(s \o t, Len(s) + 1, Len(s \o t)) = t
           /\ \A i \in 1..Len(s) : (s \o t)[i] = s[i]
           /\ \A i \in 1..Len(t) : (s \o t)[Len(s) + i] = t[i]
<1>1. s \o t \in Seq(S) /\ Len(s \o t) = Len(s) + Len(t) /\ Len(s) \in Nat /\ Len(t) \in Nat
  OBVIOUS
<1>2. \A i \in 1..Len(s) : (s \o t)[i] = s[i]
  OBVIOUS
<1>3. \A i \in 1..Len(t) : (s \o t)[Len(s) + i] = t[i]
  OBVIOUS
<1>4. SubSeq(s \o t, 1, Len(s)) = s
  <2>1. SubSeq(s \o t, 1, Len(s)) = [i \in 1..Len(s) |-> (s \o t)[i]]
    BY <1>1
  <2>2. s = [i \in 1..Len(s) |-> s[i]]
    OBVIOUS
  <2> QED
    BY <1>2, <2>1, <2>2
<1>5. SubSeq(s \o t, Len(s) + 1, Len(s \o t)) = t
  <2> DEFINE u == SubSeq(s \o t, Len(s) + 1, Len(s \o t))
  <2>1. u \in Seq(S) /\ Len(u) = Len(t)
    BY <1>1
  <2>2. \A i \in 1..Len(t) : u[i] = t[i]
    BY <1>1, <1>3
  <2> HIDE DEF u
  <2>3. u = t
    BY <2>1, <2>2
  <2> QED
    BY <2>3 DEF u
<1> QED
  BY <1>1, <1>2, <1>3, <1>4, <1>5

\* The continuation bit is set on every byte of a number but the last.
IsNumber(v, n) ==
    /\ v \in Seq(Byte) /\ Len(v) >= 1 /\ Value[v] = n
    /\ v[Len(v)] < 128 /\ \A i \in 1..Len(v) - 1 : v[i] >= 128

LEMMA VarintIsNumber ==
    ASSUME NEW n \in Nat
    PROVE  IsNumber(Varint[n], n)
<1> DEFINE F == {k \in Nat : ~IsNumber(Varint[k], k)}
<1>1. ASSUME F # {} PROVE FALSE
  <2>1. F \subseteq Nat
    OBVIOUS
  <2>2. PICK k \in F : \A j \in F : k <= j
    <3> HIDE DEF F
    <3> QED
      BY <1>1, <2>1, LeastOne
  <2>3. k \in Nat /\ ~IsNumber(Varint[k], k) /\ \A j \in Nat : j < k => IsNumber(Varint[j], j)
    BY <2>2
  <2> HIDE DEF F
  <2> DEFINE v == Varint[k]
  <2>4. v \in Seq(Byte)
    BY <2>3, VarintIs
  <2>5. CASE k < 128
    <3>1. v = <<k>>
      BY <2>3, <2>5, VarintIs DEF VarintFrom
    <3> HIDE DEF v
    <3>2. v # <<>> /\ Head(v) = k /\ Tail(v) = <<>> /\ Len(v) = 1 /\ v[1] = k
      BY <3>1
    <3>3. Value[v] = (k % 128) + 128 * Value[<<>>]
      BY <2>4, <3>2, ValueIs DEF ValueFrom
    <3>4. Value[<<>>] = 0
      <4>1. <<>> \in Seq(Byte)
        OBVIOUS
      <4> QED
        BY <4>1, ValueIs DEF ValueFrom
    <3>5. Value[v] = k
      BY <2>3, <2>5, <3>3, <3>4
    <3>6. IsNumber(v, k)
      BY <2>4, <2>5, <3>2, <3>5 DEF IsNumber
    <3> QED
      BY <2>3, <3>6 DEF v
  <2>6. CASE k >= 128
    <3> DEFINE w == Varint[k \div 128]
               b == (k % 128) + 128
    <3>1. k \div 128 \in Nat /\ k \div 128 < k /\ k % 128 \in 0..127 /\ k = 128 * (k \div 128) + (k % 128)
      BY <2>3, <2>6, Halves
    <3>2. IsNumber(w, k \div 128)
      BY <2>3, <3>1
    <3>3. v = <<b>> \o w
      <4>1. k \in Nat /\ ~(k < 128)
        BY <2>3, <2>6
      <4> QED
        BY <4>1, VarintIs DEF VarintFrom
    <3>4. b \in Nat /\ b >= 128 /\ b % 128 = k % 128
      BY <3>1
    <3> HIDE DEF v, w, b
    <3>5. w \in Seq(Byte) /\ Len(w) >= 1 /\ Len(w) \in Nat
      BY <3>2 DEF IsNumber
    <3>6. v # <<>> /\ Head(v) = b /\ Len(v) = Len(w) + 1 /\ v[1] = b
      BY <3>3, <3>5
    <3>7. \A i \in 1..Len(w) : v[i + 1] = w[i]
      BY <3>3, <3>5
    <3>8. Tail(v) = w
      BY <3>3, <3>5
    <3>9. Value[v] = (b % 128) + 128 * Value[w]
      BY <2>4, <3>6, <3>8, ValueIs DEF ValueFrom
    <3>10. Value[v] = k
      <4>1. Value[w] = k \div 128
        BY <3>2 DEF IsNumber
      <4> QED
        BY <3>1, <3>4, <3>9, <4>1
    <3>11. v[Len(v)] < 128
      <4>1. v[Len(w) + 1] = w[Len(w)]
        BY <3>5, <3>7
      <4> QED
        BY <3>2, <3>6, <4>1 DEF IsNumber
    <3>12. ASSUME NEW i \in 1..Len(v) - 1 PROVE v[i] >= 128
      <4>1. CASE i = 1
        BY <3>4, <3>6, <4>1
      <4>2. CASE i > 1
        <5>1. i - 1 \in 1..Len(w) - 1 /\ i - 1 \in 1..Len(w) /\ (i - 1) + 1 = i
          BY <3>5, <3>6, <4>2
        <5>2. v[i] = w[i - 1]
          BY <3>7, <5>1
        <5> QED
          BY <3>2, <5>1, <5>2 DEF IsNumber
      <4> QED
        BY <4>1, <4>2
    <3>13. IsNumber(v, k)
      BY <2>4, <3>5, <3>6, <3>10, <3>11, <3>12 DEF IsNumber
    <3> QED
      BY <2>3, <3>13 DEF v
  <2> QED
    BY <2>3, <2>5, <2>6
<1> HIDE DEF F
<1>2. ~IsNumber(Varint[n], n) => n \in F
  BY DEF F
<1> QED
  BY <1>1, <1>2

LEMMA TakenIsNoError ==
    ASSUME NEW n \in Nat, NEW b \in Seq(Byte), NEW r \in Seq(Byte)
    PROVE  Taken(n, b, r) # Malformed /\ Taken(n, b, r).num = n /\ Taken(n, b, r).bytes = b /\ Taken(n, b, r).rest = r
<1>1. Taken(n, b, r) \in [num : Nat, bytes : Seq(Byte), rest : Seq(Byte)]
  BY DEF Taken
<1>2. Malformed \notin [num : Nat, bytes : Seq(Byte), rest : Seq(Byte)]
  BY FormatAssumption
<1>3. Taken(n, b, r) # Malformed
  BY <1>1, <1>2, Zenon
<1> QED
  BY <1>3 DEF Taken

LEMMA FoundIsNoError ==
    ASSUME NEW f \in WireField, NEW r \in Seq(Byte)
    PROVE  [field |-> f, rest |-> r] # Malformed
<1>1. [field |-> f, rest |-> r] \in [field : WireField, rest : Seq(Byte)]
  OBVIOUS
<1>2. Malformed \notin [field : WireField, rest : Seq(Byte)]
  BY FormatAssumption
<1> QED
  BY <1>1, <1>2, Zenon

LEMMA FieldsAreNoError ==
    ASSUME NEW s \in Seq(WireField)
    PROVE  s # Malformed
<1>1. Malformed \notin Seq(WireField)
  BY FormatAssumption
<1> QED
  BY <1>1, Zenon

\* A number ends at the first byte without the bit.
LEMMA TakeTheFirst ==
    ASSUME NEW s \in Seq(Byte), NEW e \in 1..Len(s), s[e] < 128, \A i \in 1..e - 1 : s[i] >= 128
    PROVE  TakeVarint(s) = IF e > MaxVarintBytes THEN Malformed
                           ELSE Taken(Value[SubSeq(s, 1, e)], <<>>, SubSeq(s, e + 1, Len(s)))
<1>1. e \in Ends(s)
  BY DEF Ends
<1>2. \A i \in Ends(s) : i \in 1..Len(s) /\ s[i] < 128 /\ s[i] \in Nat
  <2>1. \A i \in Ends(s) : i \in 1..Len(s) /\ s[i] < 128 /\ s[i] \in Byte
    BY DEF Ends
  <2> QED
    BY <2>1, Bytes1, Zenon
<1>3. \A i \in Ends(s) : e <= i
  <2> SUFFICES ASSUME NEW i \in Ends(s), i < e PROVE FALSE
    BY <1>2
  <2>1. i \in 1..e - 1
    BY <1>2
  <2> QED
    BY <1>2, <2>1
<1>4. FirstEnd(s) = e
  <2>1. \A i \in Ends(s) : (\A j \in Ends(s) : i <= j) => i = e
    BY <1>1, <1>2, <1>3
  <2> QED
    BY <1>1, <1>3, <2>1 DEF FirstEnd
<1>5. Ends(s) # {}
  BY <1>1
<1> QED
  BY <1>4, <1>5 DEF TakeVarint, TakeUpTo

LEMMA NothingEnds ==
    ASSUME NEW s \in Seq(Byte), \A i \in 1..Len(s) : s[i] >= 128
    PROVE  TakeVarint(s) = Malformed
<1>1. Ends(s) = {}
  <2> SUFFICES ASSUME NEW i \in Ends(s) PROVE FALSE
    OBVIOUS
  <2>1. i \in 1..Len(s) /\ s[i] < 128 /\ s[i] \in Byte
    BY DEF Ends
  <2>2. s[i] \in Nat /\ s[i] >= 128
    BY <2>1, Bytes1, Zenon
  <2> QED
    BY <2>1, <2>2
<1> QED
  BY <1>1 DEF TakeVarint, TakeUpTo

\* What is taken from a frame is less than the frame.
NumTaken(t, s) == \E n \in Nat, r \in Seq(Byte) : t = Taken(n, <<>>, r) /\ Len(r) < Len(s)
BytesTaken(t, s) == \E b, r \in Seq(Byte) : t = Taken(0, b, r) /\ Len(r) < Len(s)

LEMMA VarintIsTaken ==
    ASSUME NEW s \in Seq(Byte)
    PROVE  TakeVarint(s) = Malformed \/ NumTaken(TakeVarint(s), s)
<1>1. CASE \A i \in 1..Len(s) : s[i] >= 128
  BY <1>1, NothingEnds
<1>2. CASE \E i \in 1..Len(s) : ~(s[i] >= 128)
  <2> DEFINE F == {i \in 1..Len(s) : ~(s[i] >= 128)}
  <2>1. F \subseteq Nat /\ F # {}
    BY <1>2
  <2>2. PICK e \in F : \A i \in F : e <= i
    <3> HIDE DEF F
    <3> QED
      BY <2>1, LeastOne
  <2>3. e \in 1..Len(s) /\ ~(s[e] >= 128) /\ \A i \in 1..Len(s) : ~(s[i] >= 128) => e <= i
    BY <2>2
  <2> HIDE DEF F
  <2>4. s[e] < 128
    <3>1. s[e] \in Byte
      BY <2>3
    <3>2. s[e] \in Nat
      BY <3>1, Bytes1, Zenon
    <3> QED
      BY <2>3, <3>2
  <2>5. \A i \in 1..e - 1 : s[i] >= 128
    BY <2>3
  <2>6. TakeVarint(s) = IF e > MaxVarintBytes THEN Malformed
                        ELSE Taken(Value[SubSeq(s, 1, e)], <<>>, SubSeq(s, e + 1, Len(s)))
    BY <2>3, <2>4, <2>5, TakeTheFirst
  <2>7. SubSeq(s, 1, e) \in Seq(Byte) /\ SubSeq(s, e + 1, Len(s)) \in Seq(Byte)
        /\ Len(SubSeq(s, e + 1, Len(s))) < Len(s)
    BY <2>3
  <2>8. \A t \in Seq(Byte) : Value[t] \in Nat
    BY ValueIs
  <2> QED
    BY <2>6, <2>7, <2>8 DEF NumTaken
<1> QED
  BY <1>1, <1>2

ShortNumber(n) == n \in Nat /\ Len(Varint[n]) <= MaxVarintBytes

\* A number is read back from the front of whatever follows it.
LEMMA NumberReadBack ==
    ASSUME NEW n, ShortNumber(n), NEW rest \in Seq(Byte)
    PROVE  TakeVarint(Varint[n] \o rest) = Taken(n, <<>>, rest)
<1> DEFINE v == Varint[n]
           s == v \o rest
<1>1. IsNumber(v, n) /\ Len(v) <= 8
  BY VarintIsNumber DEF ShortNumber, MaxVarintBytes
<1>2. v \in Seq(Byte) /\ Len(v) \in Nat /\ Len(v) >= 1
  BY <1>1 DEF IsNumber
<1> HIDE DEF v
<1>3. s \in Seq(Byte) /\ Len(s) = Len(v) + Len(rest) /\ Len(rest) \in Nat
      /\ SubSeq(s, 1, Len(v)) = v /\ SubSeq(s, Len(v) + 1, Len(s)) = rest
      /\ \A i \in 1..Len(v) : s[i] = v[i]
  BY <1>2, Split
<1> HIDE DEF s
<1>4. Len(v) \in 1..Len(s)
  BY <1>2, <1>3
<1>5. s[Len(v)] < 128 /\ \A i \in 1..Len(v) - 1 : s[i] >= 128
  BY <1>1, <1>2, <1>3 DEF IsNumber
<1>6. TakeVarint(s) = IF Len(v) > MaxVarintBytes THEN Malformed
                      ELSE Taken(Value[SubSeq(s, 1, Len(v))], <<>>, SubSeq(s, Len(v) + 1, Len(s)))
  BY <1>3, <1>4, <1>5, TakeTheFirst
<1>7. ~(Len(v) > MaxVarintBytes) /\ Value[v] = n
  BY <1>1, <1>2 DEF IsNumber, MaxVarintBytes
<1>8. TakeVarint(s) = Taken(n, <<>>, rest)
  BY <1>3, <1>6, <1>7
<1> QED
  BY <1>8 DEF s, v

\* A number that is cut short is refused.
LEMMA NumberTorn ==
    ASSUME NEW n \in Nat, NEW k \in Nat, k < Len(Varint[n])
    PROVE  TakeVarint(SubSeq(Varint[n], 1, k)) = Malformed
<1> DEFINE v == Varint[n]
           s == SubSeq(v, 1, k)
<1>1. IsNumber(v, n) /\ k < Len(v)
  BY VarintIsNumber
<1> HIDE DEF v
<1>2. v \in Seq(Byte) /\ Len(v) \in Nat
  BY <1>1 DEF IsNumber
<1>3. s \in Seq(Byte) /\ Len(s) = k /\ \A i \in 1..k : s[i] = v[i]
  BY <1>1, <1>2
<1> HIDE DEF s
<1>4. \A i \in 1..Len(s) : s[i] >= 128
  BY <1>1, <1>2, <1>3 DEF IsNumber
<1>5. TakeVarint(s) = Malformed
  BY <1>3, <1>4, NothingEnds
<1> QED
  BY <1>5 DEF s, v

LEMMA PrefixOfBoth ==
    ASSUME NEW S, NEW a \in Seq(S), NEW b \in Seq(S), NEW k \in 0..Len(a) + Len(b)
    PROVE  IF k < Len(a) THEN SubSeq(a \o b, 1, k) = SubSeq(a, 1, k)
           ELSE k - Len(a) \in 0..Len(b) /\ SubSeq(a \o b, 1, k) = a \o SubSeq(b, 1, k - Len(a))
<1>1. a \o b \in Seq(S) /\ Len(a \o b) = Len(a) + Len(b) /\ Len(a) \in Nat /\ Len(b) \in Nat
      /\ (\A i \in 1..Len(a) : (a \o b)[i] = a[i]) /\ (\A i \in 1..Len(b) : (a \o b)[Len(a) + i] = b[i])
  BY Split
<1> DEFINE p == SubSeq(a \o b, 1, k)
           j == k - Len(a)
<1>2. p \in Seq(S) /\ Len(p) = k /\ \A i \in 1..k : p[i] = (a \o b)[i]
  BY <1>1
<1> HIDE DEF p
<1>3. CASE k < Len(a)
  <2> DEFINE q == SubSeq(a, 1, k)
  <2>1. q \in Seq(S) /\ Len(q) = k /\ \A i \in 1..k : q[i] = a[i]
    BY <1>1, <1>3
  <2> HIDE DEF q
  <2>2. p = q
    BY <1>1, <1>2, <1>3, <2>1
  <2> QED
    BY <1>3, <2>2 DEF p, q
<1>4. CASE ~(k < Len(a))
  <2> DEFINE q == SubSeq(b, 1, j)
             r == a \o q
  <2>1. j \in 0..Len(b) /\ k = Len(a) + j
    BY <1>1, <1>4
  <2> HIDE DEF j
  <2>2. q \in Seq(S) /\ Len(q) = j /\ \A i \in 1..j : q[i] = b[i]
    BY <1>1, <2>1
  <2> HIDE DEF q
  <2>3. r \in Seq(S) /\ Len(r) = k /\ (\A i \in 1..Len(a) : r[i] = a[i]) /\ (\A i \in 1..j : r[Len(a) + i] = q[i])
    BY <2>1, <2>2
  <2> HIDE DEF r
  <2>4. ASSUME NEW i \in 1..k PROVE p[i] = r[i]
    <3>1. CASE i <= Len(a)
      BY <1>1, <1>2, <2>3, <3>1
    <3>2. CASE i > Len(a)
      <4>1. i - Len(a) \in 1..j /\ i - Len(a) \in 1..Len(b) /\ i = Len(a) + (i - Len(a))
        BY <1>1, <2>1, <3>2
      <4>2. p[i] = b[i - Len(a)] /\ r[i] = q[i - Len(a)]
        BY <1>1, <1>2, <2>3, <4>1
      <4> QED
        BY <2>2, <4>1, <4>2
    <3> QED
      BY <1>1, <3>1, <3>2
  <2>5. p = r
    BY <1>2, <2>3, <2>4
  <2> QED
    BY <1>4, <2>1, <2>5 DEF p, q, r, j
<1> QED
  BY <1>3, <1>4

LEMMA ThreeParts ==
    ASSUME NEW S, NEW a \in Seq(S), NEW b \in Seq(S), NEW c \in Seq(S)
    PROVE  (a \o b) \o c = a \o (b \o c)
  OBVIOUS

LEMMA VarintTyped ==
    ASSUME NEW n \in Nat
    PROVE  Varint[n] \in Seq(Byte) /\ Len(Varint[n]) \in Nat /\ Len(Varint[n]) >= 1
<1>1. Varint[n] \in Seq(Byte) /\ Len(Varint[n]) >= 1
  BY VarintIsNumber DEF IsNumber
<1> QED
  BY <1>1

LEMMA BytesReadBack ==
    ASSUME NEW s \in Seq(Byte), ShortNumber(Len(s)), NEW rest \in Seq(Byte)
    PROVE  LenBytes(s) \in Seq(Byte) /\ TakeBytes(LenBytes(s) \o rest) = Taken(0, s, rest)
<1> DEFINE v == Varint[Len(s)]
           t == s \o rest
<1>1. v \in Seq(Byte)
  BY VarintTyped
<1>2. t \in Seq(Byte) /\ Len(t) = Len(s) + Len(rest) /\ Len(s) \in Nat /\ Len(rest) \in Nat
      /\ SubSeq(t, 1, Len(s)) = s /\ SubSeq(t, Len(s) + 1, Len(t)) = rest
  BY Split
<1>3. LenBytes(s) = v \o s /\ LenBytes(s) \in Seq(Byte)
  BY <1>1 DEF LenBytes
<1>4. LenBytes(s) \o rest = v \o t
  <2> HIDE DEF v
  <2>1. (v \o s) \o rest = v \o (s \o rest)
    BY <1>1, ThreeParts
  <2> QED
    BY <1>3, <2>1
<1> HIDE DEF t
<1>5. TakeVarint(v \o t) = Taken(Len(s), <<>>, t)
  BY <1>2, NumberReadBack
<1>6. Taken(Len(s), <<>>, t) # Malformed /\ Taken(Len(s), <<>>, t).num = Len(s) /\ Taken(Len(s), <<>>, t).rest = t
  <2>1. <<>> \in Seq(Byte)
    OBVIOUS
  <2>2. Len(s) \in Nat /\ t \in Seq(Byte)
    BY <1>2
  <2> QED
    <3> DEFINE n == Len(s)
               none == <<>>
    <3>1. n \in Nat /\ none \in Seq(Byte)
      BY <2>1, <2>2
    <3> HIDE DEF n, none
    <3>2. Taken(n, none, t) # Malformed /\ Taken(n, none, t).num = n /\ Taken(n, none, t).rest = t
      BY <2>2, <3>1, TakenIsNoError
    <3> QED
      BY <3>2 DEF n, none
<1>7. ~(Len(s) > Len(t))
  BY <1>2
<1>8. TakeBytes(v \o t) = Taken(0, s, rest)
  BY <1>2, <1>5, <1>6, <1>7 DEF TakeBytes, BytesAfter
<1> QED
  BY <1>3, <1>4, <1>8

LEMMA BytesTorn ==
    ASSUME NEW s \in Seq(Byte), ShortNumber(Len(s)), NEW k \in Nat, k < Len(LenBytes(s))
    PROVE  TakeBytes(SubSeq(LenBytes(s), 1, k)) = Malformed
<1> DEFINE v == Varint[Len(s)]
           p == SubSeq(v \o s, 1, k)
<1>1. v \in Seq(Byte) /\ Len(v) \in Nat /\ Len(s) \in Nat
  BY VarintTyped
<1>2. k < Len(v) + Len(s) /\ k \in 0..Len(v) + Len(s)
  BY <1>1 DEF LenBytes
<1>3. CASE k < Len(v)
  <2>1. p = SubSeq(v, 1, k)
    BY <1>1, <1>2, <1>3, PrefixOfBoth
  <2>2. TakeVarint(p) = Malformed
    BY <1>1, <1>3, <2>1, NumberTorn, Zenon
  <2> QED
    BY <2>2 DEF TakeBytes, BytesAfter, LenBytes
<1>4. CASE ~(k < Len(v))
  <2> DEFINE q == SubSeq(s, 1, k - Len(v))
  <2>1. p = v \o q /\ k - Len(v) \in 0..Len(s)
    BY <1>1, <1>2, <1>4, PrefixOfBoth
  <2>2. q \in Seq(Byte) /\ Len(q) = k - Len(v)
    <3> DEFINE j == k - Len(v)
    <3>1. j \in 0..Len(s)
      BY <2>1
    <3> HIDE DEF j
    <3>2. SubSeq(s, 1, j) \in Seq(Byte) /\ Len(SubSeq(s, 1, j)) = j
      BY <3>1
    <3> QED
      BY <3>2 DEF j
  <2> HIDE DEF q
  <2>3. TakeVarint(p) = Taken(Len(s), <<>>, q)
    BY <2>1, <2>2, NumberReadBack
  <2>4. Taken(Len(s), <<>>, q).num = Len(s) /\ Taken(Len(s), <<>>, q).rest = q
    BY DEF Taken
  <2>5. Len(s) > Len(q)
    BY <1>1, <1>2, <2>2
  <2>6. TakeBytes(p) = Malformed
    BY <2>3, <2>4, <2>5 DEF TakeBytes, BytesAfter
  <2> QED
    BY <2>6 DEF LenBytes
<1> QED
  BY <1>3, <1>4

LEMMA BytesIsTaken ==
    ASSUME NEW s \in Seq(Byte)
    PROVE  TakeBytes(s) = Malformed \/ BytesTaken(TakeBytes(s), s)
<1> SUFFICES ASSUME TakeBytes(s) # Malformed PROVE BytesTaken(TakeBytes(s), s)
  OBVIOUS
<1>1. TakeVarint(s) # Malformed
  BY DEF TakeBytes, BytesAfter
<1>2. PICK n \in Nat, r \in Seq(Byte) : TakeVarint(s) = Taken(n, <<>>, r) /\ Len(r) < Len(s)
  BY <1>1, VarintIsTaken DEF NumTaken
<1>3. Taken(n, <<>>, r).num = n /\ Taken(n, <<>>, r).rest = r
  BY DEF Taken
<1>4. ~(n > Len(r)) /\ TakeBytes(s) = Taken(0, SubSeq(r, 1, n), SubSeq(r, n + 1, Len(r)))
  BY <1>1, <1>2, <1>3 DEF TakeBytes, BytesAfter
<1>5. SubSeq(r, 1, n) \in Seq(Byte) /\ SubSeq(r, n + 1, Len(r)) \in Seq(Byte)
      /\ Len(SubSeq(r, n + 1, Len(r))) <= Len(r)
  BY <1>4
<1>6. Len(SubSeq(r, n + 1, Len(r))) < Len(s)
  <2>1. Len(r) \in Nat /\ Len(s) \in Nat /\ Len(SubSeq(r, n + 1, Len(r))) \in Nat
    BY <1>5
  <2> QED
    BY <1>2, <1>5, <2>1
<1> QED
  BY <1>4, <1>5, <1>6 DEF BytesTaken

(***************************************************************************)
(* Fields.                                                                 *)
(***************************************************************************)

ValueBytes(f) == IF f.wire = 0 THEN Varint[f.num] ELSE LenBytes(f.bytes)

LEMMA PartsOfField ==
    ASSUME NEW f \in WireField
    PROVE  /\ f.tag \in Nat /\ f.wire \in {0, 2} /\ f.num \in Nat /\ f.bytes \in Seq(Byte)
           /\ f = [tag |-> f.tag, wire |-> f.wire, num |-> f.num, bytes |-> f.bytes]
           /\ IF f.wire = 0 THEN f.bytes = <<>> ELSE f.num = 0
           /\ 8 * f.tag + f.wire \in Nat
           /\ (8 * f.tag + f.wire) % 8 = f.wire /\ (8 * f.tag + f.wire) \div 8 = f.tag
<1>1. /\ f.tag \in Nat /\ f.wire \in {0, 2} /\ f.num \in Nat /\ f.bytes \in Seq(Byte)
      /\ f = [tag |-> f.tag, wire |-> f.wire, num |-> f.num, bytes |-> f.bytes]
      /\ IF f.wire = 0 THEN f.bytes = <<>> ELSE f.num = 0
  BY DEF WireField
<1>2. \A t \in Nat, w \in {0, 2} : 8 * t + w \in Nat /\ (8 * t + w) % 8 = w /\ (8 * t + w) \div 8 = t
  OBVIOUS
<1> QED
  BY <1>1, <1>2

\* The key, the length and the number of a field are numbers of at most eight bytes.
FieldFits(f) ==
    /\ f \in WireField
    /\ ShortNumber(8 * f.tag + f.wire) /\ ShortNumber(f.num) /\ ShortNumber(Len(f.bytes))

LEMMA BytesOfField ==
    ASSUME NEW f \in WireField
    PROVE  /\ FieldBytes(f) = Varint[8 * f.tag + f.wire] \o ValueBytes(f)
           /\ ValueBytes(f) \in Seq(Byte) /\ Varint[8 * f.tag + f.wire] \in Seq(Byte)
           /\ FieldBytes(f) \in Seq(Byte) /\ Len(FieldBytes(f)) >= 1
<1>1. FieldBytes(f) = Varint[8 * f.tag + f.wire] \o ValueBytes(f)
  BY DEF FieldBytes, ValueBytes
<1>2. f.num \in Nat /\ f.bytes \in Seq(Byte) /\ Len(f.bytes) \in Nat /\ 8 * f.tag + f.wire \in Nat
  BY PartsOfField
<1>3. ValueBytes(f) \in Seq(Byte)
  <2>1. Varint[f.num] \in Seq(Byte) /\ Varint[Len(f.bytes)] \in Seq(Byte)
    BY <1>2, VarintTyped
  <2>2. LenBytes(f.bytes) \in Seq(Byte)
    BY <1>2, <2>1 DEF LenBytes
  <2> QED
    BY <2>1, <2>2 DEF ValueBytes
<1> DEFINE k == Varint[8 * f.tag + f.wire]
           v == ValueBytes(f)
<1>4. k \in Seq(Byte) /\ Len(k) >= 1 /\ Len(k) \in Nat
  BY <1>2, VarintTyped
<1> HIDE DEF k, v
<1>5. v \in Seq(Byte)
  BY <1>3 DEF v
<1>6. k \o v \in Seq(Byte) /\ Len(k \o v) >= 1
  BY <1>4, <1>5
<1> QED
  BY <1>1, <1>4, <1>5, <1>6 DEF k, v

LEMMA ValueReadBack ==
    ASSUME NEW f, FieldFits(f), NEW rest \in Seq(Byte)
    PROVE  Take(f.wire, ValueBytes(f) \o rest) = Taken(f.num, f.bytes, rest)
<1>1. f \in WireField /\ ShortNumber(f.num) /\ ShortNumber(Len(f.bytes))
  BY DEF FieldFits
<1>2. /\ f.wire \in {0, 2} /\ f.bytes \in Seq(Byte)
      /\ IF f.wire = 0 THEN f.bytes = <<>> ELSE f.num = 0
  BY <1>1, PartsOfField
<1>3. CASE f.wire = 0
  <2>1. ValueBytes(f) = Varint[f.num] /\ f.bytes = <<>>
    BY <1>2, <1>3 DEF ValueBytes
  <2>2. TakeVarint(Varint[f.num] \o rest) = Taken(f.num, <<>>, rest)
    BY <1>1, NumberReadBack
  <2>3. Take(0, Varint[f.num] \o rest) = TakeVarint(Varint[f.num] \o rest)
    BY DEF Take
  <2> QED
    BY <1>3, <2>1, <2>2, <2>3
<1>4. CASE f.wire = 2
  <2>1. ValueBytes(f) = LenBytes(f.bytes) /\ f.num = 0
    BY <1>2, <1>4 DEF ValueBytes
  <2>2. TakeBytes(LenBytes(f.bytes) \o rest) = Taken(0, f.bytes, rest)
    BY <1>1, <1>2, BytesReadBack
  <2>3. Take(2, LenBytes(f.bytes) \o rest) = TakeBytes(LenBytes(f.bytes) \o rest)
    BY DEF Take
  <2> QED
    BY <1>4, <2>1, <2>2, <2>3
<1> QED
  BY <1>2, <1>3, <1>4

LEMMA ValueTorn ==
    ASSUME NEW f, FieldFits(f), NEW k \in Nat, k < Len(ValueBytes(f))
    PROVE  Take(f.wire, SubSeq(ValueBytes(f), 1, k)) = Malformed
<1>1. f \in WireField /\ f.num \in Nat /\ ShortNumber(Len(f.bytes))
  BY DEF FieldFits, ShortNumber
<1>2. f.wire \in {0, 2} /\ f.bytes \in Seq(Byte)
  BY <1>1, PartsOfField
<1>3. CASE f.wire = 0
  <2>1. ValueBytes(f) = Varint[f.num]
    BY <1>3 DEF ValueBytes
  <2>2. TakeVarint(SubSeq(Varint[f.num], 1, k)) = Malformed
    BY <1>1, <2>1, NumberTorn
  <2> QED
    BY <1>3, <2>1, <2>2 DEF Take
<1>4. CASE f.wire = 2
  <2>1. ValueBytes(f) = LenBytes(f.bytes)
    BY <1>4 DEF ValueBytes
  <2>2. TakeBytes(SubSeq(LenBytes(f.bytes), 1, k)) = Malformed
    BY <1>1, <1>2, <2>1, BytesTorn
  <2> QED
    BY <1>4, <2>1, <2>2 DEF Take
<1> QED
  BY <1>2, <1>3, <1>4

FieldFound(f, rest) == [field |-> f, rest |-> rest]

\* A field is read back from the front of whatever follows it.
LEMMA FieldReadBack ==
    ASSUME NEW f, FieldFits(f), NEW rest \in Seq(Byte)
    PROVE  TakeField(FieldBytes(f) \o rest) = FieldFound(f, rest)
<1> DEFINE n == 8 * f.tag + f.wire
           k == Varint[n]
           v == ValueBytes(f)
           r == v \o rest
<1>1. f \in WireField /\ ShortNumber(n) /\ n \in Nat
  BY DEF FieldFits, ShortNumber
<1>2. /\ f = [tag |-> f.tag, wire |-> f.wire, num |-> f.num, bytes |-> f.bytes]
      /\ n % 8 = f.wire /\ n \div 8 = f.tag /\ f.num \in Nat /\ f.bytes \in Seq(Byte)
  BY <1>1, PartsOfField
<1>3. FieldBytes(f) = k \o v /\ k \in Seq(Byte) /\ v \in Seq(Byte)
  BY <1>1, BytesOfField
<1>4. Take(f.wire, r) = Taken(f.num, f.bytes, rest)
  BY ValueReadBack
<1> HIDE DEF n, v
<1>5. FieldBytes(f) \o rest = k \o r
  <2> HIDE DEF k
  <2>1. (k \o v) \o rest = k \o (v \o rest)
    BY <1>3, ThreeParts
  <2> QED
    BY <1>3, <2>1
<1>6. r \in Seq(Byte)
  BY <1>3
<1> HIDE DEF r
<1>7. TakeVarint(k \o r) = Taken(n, <<>>, r)
  BY <1>1, <1>6, NumberReadBack
<1> HIDE DEF k
<1>8. Taken(n, <<>>, r) # Malformed /\ Taken(n, <<>>, r).num = n /\ Taken(n, <<>>, r).rest = r
  <2> DEFINE none == <<>>
  <2>1. none \in Seq(Byte)
    OBVIOUS
  <2> HIDE DEF none
  <2>2. Taken(n, none, r) # Malformed /\ Taken(n, none, r).num = n /\ Taken(n, none, r).rest = r
    BY <1>1, <1>6, <2>1, TakenIsNoError
  <2> QED
    BY <2>2 DEF none
<1>9. /\ Taken(f.num, f.bytes, rest) # Malformed
      /\ Taken(f.num, f.bytes, rest).num = f.num /\ Taken(f.num, f.bytes, rest).bytes = f.bytes
      /\ Taken(f.num, f.bytes, rest).rest = rest
  BY <1>2, TakenIsNoError
<1>10. TakeField(k \o r) = [field |-> [tag |-> f.tag, wire |-> f.wire, num |-> f.num, bytes |-> f.bytes], rest |-> rest]
  BY <1>2, <1>4, <1>7, <1>8, <1>9 DEF TakeField, FieldAfter, FieldOf
<1> QED
  BY <1>2, <1>5, <1>10 DEF FieldFound

\* A field that is cut short is refused.
LEMMA FieldTorn ==
    ASSUME NEW f, FieldFits(f), NEW j \in Nat, j < Len(FieldBytes(f))
    PROVE  TakeField(SubSeq(FieldBytes(f), 1, j)) = Malformed
<1> DEFINE n == 8 * f.tag + f.wire
           k == Varint[n]
           v == ValueBytes(f)
           p == SubSeq(k \o v, 1, j)
<1>1. f \in WireField /\ ShortNumber(n) /\ n \in Nat
  BY DEF FieldFits, ShortNumber
<1>2. n % 8 = f.wire
  BY <1>1, PartsOfField
<1>3. FieldBytes(f) = k \o v /\ k \in Seq(Byte) /\ v \in Seq(Byte) /\ Len(k) \in Nat /\ Len(v) \in Nat
  BY <1>1, BytesOfField
<1> HIDE DEF n, v
<1>4. j < Len(k) + Len(v) /\ j \in 0..Len(k) + Len(v)
  <2> HIDE DEF k
  <2> QED
    BY <1>3
<1>5. CASE j < Len(k)
  <2>1. p = SubSeq(k, 1, j)
    <3> HIDE DEF k
    <3> QED
      BY <1>3, <1>4, <1>5, PrefixOfBoth
  <2>2. TakeVarint(p) = Malformed
    BY <1>1, <1>5, <2>1, NumberTorn
  <2> QED
    BY <1>3, <2>2 DEF TakeField, FieldAfter, FieldOf
<1>6. CASE ~(j < Len(k))
  <2> DEFINE i == j - Len(k)
             q == SubSeq(v, 1, i)
  <2>1. p = k \o q /\ i \in 0..Len(v)
    <3> HIDE DEF k
    <3> QED
      BY <1>3, <1>4, <1>6, PrefixOfBoth
  <2>2. i \in Nat /\ i < Len(v)
    <3> HIDE DEF k
    <3> QED
      BY <1>3, <1>4, <1>6
  <2> HIDE DEF i
  <2>3. q \in Seq(Byte)
    BY <1>3, <2>1
  <2>4. Take(f.wire, q) = Malformed
    BY <2>2, ValueTorn DEF v
  <2> HIDE DEF q
  <2>5. TakeVarint(p) = Taken(n, <<>>, q)
    BY <1>1, <2>1, <2>3, NumberReadBack
  <2>6. Taken(n, <<>>, q).num = n /\ Taken(n, <<>>, q).rest = q
    BY DEF Taken
  <2> HIDE DEF p, k
  <2>7. TakeField(p) = Malformed
    BY <1>2, <2>4, <2>5, <2>6 DEF TakeField, FieldAfter, FieldOf
  <2> QED
    BY <1>3, <2>7 DEF p
<1> QED
  BY <1>5, <1>6

\* Whatever a frame holds, what is read from the front of it is a field and less is left.
LEMMA FieldIsTaken ==
    ASSUME NEW s \in Seq(Byte), TakeField(s) # Malformed
    PROVE  \E f \in WireField, r \in Seq(Byte) : TakeField(s) = FieldFound(f, r) /\ Len(r) < Len(s)
<1>1. TakeVarint(s) # Malformed
  BY DEF TakeField, FieldAfter, FieldOf
<1>2. PICK n \in Nat, r \in Seq(Byte) : TakeVarint(s) = Taken(n, <<>>, r) /\ Len(r) < Len(s)
  BY <1>1, VarintIsTaken DEF NumTaken
<1>3. Taken(n, <<>>, r).num = n /\ Taken(n, <<>>, r).rest = r
  BY DEF Taken
<1> DEFINE t == Take(n % 8, r)
           f == [tag |-> n \div 8, wire |-> n % 8, num |-> t.num, bytes |-> t.bytes]
<1>4. t # Malformed /\ TakeField(s) = [field |-> f, rest |-> t.rest]
  BY <1>1, <1>2, <1>3 DEF TakeField, FieldAfter, FieldOf
<1>5. n \div 8 \in Nat /\ n % 8 \in Nat
  OBVIOUS
<1>6. CASE n % 8 = 0
  <2>1. t = TakeVarint(r)
    BY <1>6 DEF Take
  <2>2. PICK m \in Nat, q \in Seq(Byte) : t = Taken(m, <<>>, q) /\ Len(q) < Len(r)
    BY <1>4, <2>1, VarintIsTaken DEF NumTaken
  <2> HIDE DEF t
  <2>3. t.num = m /\ t.bytes = <<>> /\ t.rest = q
    BY <2>2 DEF Taken
  <2>4. f \in WireField
    <3> DEFINE none == <<>>
    <3>1. none \in Seq(Byte) /\ none = <<>>
      OBVIOUS
    <3> HIDE DEF none
    <3>2. f = [tag |-> n \div 8, wire |-> 0, num |-> m, bytes |-> none]
      BY <1>6, <2>3, <3>1
    <3>3. f \in [tag : Nat, wire : {0, 2}, num : Nat, bytes : Seq(Byte)] /\ f.wire = 0 /\ f.bytes = none
      BY <1>5, <3>1, <3>2
    <3> HIDE DEF f
    <3> QED
      BY <3>1, <3>3 DEF WireField
  <2>5. Len(q) < Len(s)
    <3>1. Len(q) \in Nat /\ Len(r) \in Nat /\ Len(s) \in Nat
      OBVIOUS
    <3> QED
      BY <1>2, <2>2, <3>1
  <2> HIDE DEF f
  <2> QED
    BY <1>4, <2>3, <2>4, <2>5 DEF FieldFound
<1>7. CASE n % 8 = 2
  <2>1. t = TakeBytes(r)
    BY <1>7 DEF Take
  <2>2. PICK b \in Seq(Byte), q \in Seq(Byte) : t = Taken(0, b, q) /\ Len(q) < Len(r)
    BY <1>4, <2>1, BytesIsTaken DEF BytesTaken
  <2> HIDE DEF t
  <2>3. t.num = 0 /\ t.bytes = b /\ t.rest = q
    BY <2>2 DEF Taken
  <2>4. f \in WireField
    BY <1>5, <1>7, <2>2, <2>3 DEF WireField
  <2>5. Len(q) < Len(s)
    <3>1. Len(q) \in Nat /\ Len(r) \in Nat /\ Len(s) \in Nat
      OBVIOUS
    <3> QED
      BY <1>2, <2>2, <3>1
  <2> HIDE DEF f
  <2> QED
    BY <1>4, <2>3, <2>4, <2>5 DEF FieldFound
<1>8. CASE n % 8 # 0 /\ n % 8 # 2
  BY <1>4, <1>8 DEF Take
<1> QED
  BY <1>6, <1>7, <1>8

WriteFrom(f, s) == IF s = <<>> THEN <<>> ELSE FieldBytes(Head(s)) \o f[Tail(s)]

LEMMA WriteAllIs ==
    /\ WriteAll \in [Seq(WireField) -> Seq(Byte)]
    /\ \A s \in Seq(WireField) : WriteAll[s] = WriteFrom(WriteAll, s)
<1> DEFINE D == Seq(WireField)
           V == Seq(Byte)
           size == [s \in D |-> Len(s)]
           Step == [p \in [D -> V] \X D |-> WriteFrom(p[1], p[2])]
<1>1. ASSUME NEW f \in [D -> V], NEW s \in D PROVE WriteFrom(f, s) \in V
  <2>1. CASE s # <<>>
    <3>1. Head(s) \in WireField /\ Tail(s) \in D
      BY <2>1, NonEmpty
    <3>2. f[Tail(s)] \in V /\ FieldBytes(Head(s)) \in Seq(Byte)
      BY <3>1, BytesOfField
    <3> QED
      BY <2>1, <3>2 DEF WriteFrom
  <2>2. CASE s = <<>>
    BY <2>2 DEF WriteFrom
  <2> QED
    BY <2>1, <2>2
<1>2. Step \in [[D -> V] \X D -> V]
  BY <1>1
<1>3. \A f \in [D -> V], s \in D : Step[<<f, s>>] = WriteFrom(f, s)
  OBVIOUS
<1>4. size \in [D -> Nat] /\ \A s \in D : size[s] = Len(s)
  OBVIOUS
<1> HIDE DEF size, Step
<1>5. ASSUME NEW f \in [D -> V], NEW g \in [D -> V], NEW s \in D,
             \A t \in D : size[t] < size[s] => f[t] = g[t]
      PROVE  Step[<<f, s>>] = Step[<<g, s>>]
  <2>1. ASSUME s # <<>> PROVE f[Tail(s)] = g[Tail(s)]
    <3>1. Tail(s) \in D /\ Len(Tail(s)) < Len(s)
      BY <2>1, NonEmpty
    <3>2. size[Tail(s)] < size[s]
      BY <1>4, <3>1
    <3> QED
      BY <1>5, <3>1, <3>2
  <2>2. WriteFrom(f, s) = WriteFrom(g, s)
    BY <2>1 DEF WriteFrom
  <2> QED
    BY <1>3, <2>2
<1>6. Descends(D, V, size, Step)
  <2>1. \A f, g \in [D -> V], s \in D :
            (\A t \in D : size[t] < size[s] => f[t] = g[t]) => Step[<<f, s>>] = Step[<<g, s>>]
    BY <1>5
  <2>2. V # {}
    BY NoneEmpty
  <2> QED
    BY <1>2, <1>4, <2>1, <2>2 DEF Descends
<1>7. PICK h : Solves(D, V, Step, h)
  BY <1>6, Recursion
<1>8. h = [s \in Seq(WireField) |-> IF s = <<>> THEN <<>> ELSE FieldBytes(Head(s)) \o h[Tail(s)]]
  <2>1. \A s \in D : h[s] = WriteFrom(h, s)
    BY <1>3, <1>7 DEF Solves
  <2>2. h = [s \in D |-> h[s]]
    BY <1>7 DEF Solves
  <2> QED
    BY <2>1, <2>2 DEF WriteFrom
<1>9. WriteAll = [s \in Seq(WireField) |-> IF s = <<>> THEN <<>> ELSE FieldBytes(Head(s)) \o WriteAll[Tail(s)]]
  BY <1>8 DEF WriteAll
<1>10. \A s \in D : WriteAll[s] = WriteFrom(WriteAll, s)
  BY <1>9 DEF WriteFrom
<1>11. ASSUME NEW s \in D PROVE WriteAll[s] \in V
  <2> DEFINE F == {Len(t) : t \in {u \in D : WriteAll[u] \notin V}}
  <2>1. ASSUME F # {} PROVE FALSE
    <3>1. F \subseteq Nat
      OBVIOUS
    <3>2. PICK k \in F : \A j \in F : k <= j
      <4> HIDE DEF F
      <4> QED
        BY <2>1, <3>1, LeastOne
    <3>3. PICK t \in D : Len(t) = k /\ WriteAll[t] \notin V
      BY <3>2
    <3>4. ASSUME NEW u \in D, Len(u) < Len(t) PROVE WriteAll[u] \in V
      <4>1. WriteAll[u] \notin V => Len(u) \in F
        OBVIOUS
      <4>2. Len(u) \in Nat /\ Len(t) \in Nat
        OBVIOUS
      <4> HIDE DEF F
      <4> QED
        BY <3>2, <3>3, <3>4, <4>1, <4>2
    <3>5. CASE t # <<>>
      <4>1. Head(t) \in WireField /\ Tail(t) \in D /\ Len(Tail(t)) < Len(t)
        BY <3>5, NonEmpty
      <4>2. WriteAll[Tail(t)] \in V
        BY <3>4, <4>1
      <4>3. FieldBytes(Head(t)) \in V
        BY <4>1, BytesOfField
      <4>4. WriteAll[t] = FieldBytes(Head(t)) \o WriteAll[Tail(t)]
        BY <1>10, <3>5 DEF WriteFrom
      <4> QED
        BY <3>3, <4>2, <4>3, <4>4
    <3>6. CASE t = <<>>
      <4>1. WriteAll[t] = <<>>
        BY <1>10, <3>6 DEF WriteFrom
      <4> QED
        BY <3>3, <4>1
    <3> QED
      BY <3>5, <3>6
  <2>2. WriteAll[s] \notin V => Len(s) \in F
    OBVIOUS
  <2> HIDE DEF F
  <2> QED
    BY <2>1, <2>2
<1>12. WriteAll \in [D -> V]
  BY <1>9, <1>11
<1> QED
  BY <1>10, <1>12

Readings == Seq(WireField) \cup {Malformed}

ReadFrom(f, s) ==
    IF s = <<>> THEN <<>>
    ELSE IF TakeField(s) = Malformed THEN Malformed
    ELSE IF f[TakeField(s).rest] = Malformed THEN Malformed
    ELSE <<TakeField(s).field>> \o f[TakeField(s).rest]

LEMMA ReadAllIs == \A s \in Seq(Byte) : ReadAll[s] \in Readings /\ ReadAll[s] = ReadFrom(ReadAll, s)
<1> DEFINE D == Seq(Byte)
           V == Readings
           size == [s \in D |-> Len(s)]
           Step == [p \in [D -> V] \X D |-> ReadFrom(p[1], p[2])]
<1>1. ASSUME NEW s \in D, TakeField(s) # Malformed
      PROVE  TakeField(s).field \in WireField /\ TakeField(s).rest \in D /\ Len(TakeField(s).rest) < Len(s)
  <2>1. PICK f \in WireField, r \in Seq(Byte) : TakeField(s) = FieldFound(f, r) /\ Len(r) < Len(s)
    BY <1>1, FieldIsTaken
  <2>2. FieldFound(f, r).field = f /\ FieldFound(f, r).rest = r
    BY DEF FieldFound
  <2> QED
    BY <2>1, <2>2
<1>2. ASSUME NEW h, NEW s \in D, \A t \in D : Len(t) < Len(s) => h[t] \in V PROVE ReadFrom(h, s) \in V
  <2>1. CASE s = <<>>
    <3>1. <<>> \in Seq(WireField)
      OBVIOUS
    <3> QED
      BY <2>1, <3>1 DEF ReadFrom, Readings
  <2>2. CASE s # <<>> /\ TakeField(s) # Malformed /\ h[TakeField(s).rest] # Malformed
    <3> DEFINE a == TakeField(s).field
               b == h[TakeField(s).rest]
    <3>1. a \in WireField /\ b \in Seq(WireField)
      BY <1>1, <1>2, <2>2 DEF Readings
    <3>2. ReadFrom(h, s) = <<a>> \o b
      BY <2>2 DEF ReadFrom
    <3> HIDE DEF a, b
    <3>3. <<a>> \o b \in Seq(WireField)
      BY <3>1
    <3> QED
      BY <3>2, <3>3 DEF Readings
  <2>3. CASE s # <<>> /\ (TakeField(s) = Malformed \/ h[TakeField(s).rest] = Malformed)
    BY <2>3 DEF ReadFrom, Readings
  <2> QED
    BY <2>1, <2>2, <2>3
<1>3. ASSUME NEW f \in [D -> V], NEW s \in D PROVE ReadFrom(f, s) \in V
  <2>1. \A t \in D : Len(t) < Len(s) => f[t] \in V
    OBVIOUS
  <2> HIDE DEF V
  <2> QED
    BY <1>2, <2>1
<1>4. Step \in [[D -> V] \X D -> V]
  BY <1>3
<1>5. \A f \in [D -> V], s \in D : Step[<<f, s>>] = ReadFrom(f, s)
  OBVIOUS
<1>6. size \in [D -> Nat] /\ \A s \in D : size[s] = Len(s)
  OBVIOUS
<1> HIDE DEF size, Step, V
<1>7. ASSUME NEW f \in [D -> V], NEW g \in [D -> V], NEW s \in D,
             \A t \in D : size[t] < size[s] => f[t] = g[t]
      PROVE  Step[<<f, s>>] = Step[<<g, s>>]
  <2>1. ASSUME TakeField(s) # Malformed PROVE f[TakeField(s).rest] = g[TakeField(s).rest]
    <3>1. size[TakeField(s).rest] < size[s] /\ TakeField(s).rest \in D
      BY <1>1, <1>6, <2>1
    <3> QED
      BY <1>7, <3>1
  <2>2. ReadFrom(f, s) = ReadFrom(g, s)
    BY <2>1 DEF ReadFrom
  <2> QED
    BY <1>5, <2>2
<1>8. Descends(D, V, size, Step)
  <2>1. \A f, g \in [D -> V], s \in D :
            (\A t \in D : size[t] < size[s] => f[t] = g[t]) => Step[<<f, s>>] = Step[<<g, s>>]
    BY <1>7
  <2>2. V # {}
    BY DEF V, Readings
  <2> QED
    BY <1>4, <1>6, <2>1, <2>2 DEF Descends
<1>9. PICK h : Solves(D, V, Step, h)
  BY <1>8, Recursion
<1>10. h = [s \in Seq(Byte) |->
                LET first == TakeField(s)
                    others == h[first.rest]
                IN  IF s = <<>> THEN <<>>
                    ELSE IF first = Malformed THEN Malformed
                    ELSE IF others = Malformed THEN Malformed
                    ELSE <<first.field>> \o others]
  <2>1. \A s \in D : h[s] = ReadFrom(h, s)
    BY <1>5, <1>9 DEF Solves
  <2>2. h = [s \in D |-> h[s]]
    BY <1>9 DEF Solves
  <2> QED
    BY <2>1, <2>2 DEF ReadFrom
<1>11. ReadAll = [s \in Seq(Byte) |->
                LET first == TakeField(s)
                    others == ReadAll[first.rest]
                IN  IF s = <<>> THEN <<>>
                    ELSE IF first = Malformed THEN Malformed
                    ELSE IF others = Malformed THEN Malformed
                    ELSE <<first.field>> \o others]
  BY <1>10 DEF ReadAll
<1>12. \A s \in D : ReadAll[s] = ReadFrom(ReadAll, s)
  BY <1>11 DEF ReadFrom
<1>13. ASSUME NEW s \in D PROVE ReadAll[s] \in V
  <2> DEFINE F == {Len(t) : t \in {u \in D : ReadAll[u] \notin V}}
  <2>1. ASSUME F # {} PROVE FALSE
    <3>1. F \subseteq Nat
      OBVIOUS
    <3>2. PICK k \in F : \A j \in F : k <= j
      <4> HIDE DEF F
      <4> QED
        BY <2>1, <3>1, LeastOne
    <3>3. PICK t \in D : Len(t) = k /\ ReadAll[t] \notin V
      BY <3>2
    <3>4. ASSUME NEW u \in D, Len(u) < Len(t) PROVE ReadAll[u] \in V
      <4>1. ReadAll[u] \notin V => Len(u) \in F
        OBVIOUS
      <4>2. Len(u) \in Nat /\ Len(t) \in Nat
        OBVIOUS
      <4> HIDE DEF F
      <4> QED
        BY <3>2, <3>3, <3>4, <4>1, <4>2
    <3>5. ReadFrom(ReadAll, t) \in V
      BY <1>2, <3>4
    <3> QED
      BY <1>12, <3>3, <3>5
  <2>2. ReadAll[s] \notin V => Len(s) \in F
    OBVIOUS
  <2> HIDE DEF F
  <2> QED
    BY <2>1, <2>2
<1> QED
  BY <1>12, <1>13 DEF V

AllFit(fields) == fields \in Seq(WireField) /\ \A i \in 1..Len(fields) : FieldFits(fields[i])

ReadBack(fields) ==
    /\ ReadAll[WriteAll[fields]] = fields
    /\ \A k \in 0..Len(WriteAll[fields]) :
          LET read == ReadAll[SubSeq(WriteAll[fields], 1, k)]
          IN  read = Malformed \/ \E j \in 0..Len(fields) : read = SubSeq(fields, 1, j)

LEMMA NoFields ==
    /\ ReadBack(<<>>)
    /\ ReadAll[<<>>] = <<>>
<1>1. <<>> \in Seq(WireField) /\ <<>> \in Seq(Byte)
  OBVIOUS
<1>2. WriteAll[<<>>] = <<>>
  BY <1>1, WriteAllIs DEF WriteFrom
<1>3. ReadAll[<<>>] = <<>>
  BY <1>1, ReadAllIs DEF ReadFrom
<1>4. \A k \in 0..Len(<<>>) : SubSeq(<<>>, 1, k) = <<>>
  OBVIOUS
<1>5. 0 \in 0..Len(<<>>) /\ SubSeq(<<>>, 1, 0) = <<>>
  OBVIOUS
<1> QED
  BY <1>2, <1>3, <1>4, <1>5 DEF ReadBack

LEMMA FirstRead ==
    ASSUME NEW f, FieldFits(f), NEW rest \in Seq(Byte)
    PROVE  ReadAll[FieldBytes(f) \o rest] = IF ReadAll[rest] = Malformed THEN Malformed ELSE <<f>> \o ReadAll[rest]
<1> DEFINE b == FieldBytes(f)
           s == b \o rest
<1>1. f \in WireField
  BY DEF FieldFits
<1>2. TakeField(s) = FieldFound(f, rest)
  BY FieldReadBack
<1>3. b \in Seq(Byte) /\ Len(b) >= 1
  BY <1>1, BytesOfField
<1> HIDE DEF b
<1>4. s \in Seq(Byte) /\ s # <<>>
  <2>1. s \in Seq(Byte) /\ Len(s) = Len(b) + Len(rest) /\ Len(b) \in Nat /\ Len(rest) \in Nat
    BY <1>3
  <2>2. Len(s) # 0
    BY <1>3, <2>1
  <2> HIDE DEF s
  <2> QED
    BY <2>1, <2>2
<1> HIDE DEF s
<1>5. FieldFound(f, rest) # Malformed /\ FieldFound(f, rest).field = f /\ FieldFound(f, rest).rest = rest
  BY <1>1, FoundIsNoError DEF FieldFound
<1>6. ReadAll[s] = ReadFrom(ReadAll, s)
  BY <1>4, ReadAllIs
<1>7. ReadAll[s] = IF ReadAll[rest] = Malformed THEN Malformed ELSE <<f>> \o ReadAll[rest]
  BY <1>2, <1>4, <1>5, <1>6 DEF ReadFrom
<1> QED
  BY <1>7 DEF s, b

LEMMA OneMoreReadBack ==
    ASSUME NEW s, AllFit(s), s # <<>>, ReadBack(Tail(s))
    PROVE  ReadBack(s)
<1> DEFINE h == Head(s)
           t == Tail(s)
           a == FieldBytes(h)
           b == WriteAll[t]
<1>1. s \in Seq(WireField) /\ h \in WireField /\ t \in Seq(WireField) /\ Len(t) = Len(s) - 1 /\ Len(s) \in Nat
  BY NonEmpty DEF AllFit
<1>2. FieldFits(h)
  <2>1. Head(s) = s[1] /\ Len(s) >= 1
    BY <1>1, NonEmpty
  <2> QED
    BY <1>1, <2>1 DEF AllFit
<1>3. a \in Seq(Byte) /\ b \in Seq(Byte) /\ WriteAll[s] = a \o b /\ Len(a) \in Nat /\ Len(b) \in Nat
  <2>1. a \in Seq(Byte)
    BY <1>1, BytesOfField
  <2>2. WriteAll[s] = WriteFrom(WriteAll, s) /\ b \in Seq(Byte)
    BY <1>1, WriteAllIs
  <2>3. WriteAll[s] = a \o b
    BY <2>2 DEF WriteFrom
  <2> HIDE DEF a, b
  <2> QED
    BY <2>1, <2>2, <2>3
<1>4. \A j \in 0..Len(t) : j + 1 \in 0..Len(s) /\ <<h>> \o SubSeq(t, 1, j) = SubSeq(s, 1, j + 1)
  <2> HIDE DEF a, b
  <2> SUFFICES ASSUME NEW j \in 0..Len(t)
               PROVE  j + 1 \in 0..Len(s) /\ <<h>> \o SubSeq(t, 1, j) = SubSeq(s, 1, j + 1)
    OBVIOUS
  <2>1. j + 1 \in 0..Len(s)
    BY <1>1
  <2>2. s[1] = h /\ \A i \in 1..Len(t) : s[i + 1] = t[i]
    BY <1>1, NonEmpty
  <2> HIDE DEF h, t
  <2> DEFINE u == SubSeq(t, 1, j)
             v == SubSeq(s, 1, j + 1)
             w == <<h>> \o u
  <2>3. u \in Seq(WireField) /\ Len(u) = j /\ \A i \in 1..j : u[i] = t[i]
    BY <1>1
  <2>4. v \in Seq(WireField) /\ Len(v) = j + 1 /\ \A i \in 1..j + 1 : v[i] = s[i]
    BY <1>1, <2>1
  <2> HIDE DEF u, v
  <2>5. w \in Seq(WireField) /\ Len(w) = j + 1 /\ w[1] = h /\ \A i \in 1..j : w[i + 1] = u[i]
    <3>1. h \in WireField /\ u \in Seq(WireField) /\ Len(u) = j /\ j \in Nat
      BY <1>1, <2>3
    <3> QED
      BY <3>1
  <2> HIDE DEF w
  <2>6. ASSUME NEW i \in 1..j + 1 PROVE v[i] = w[i]
    <3>1. CASE i = 1
      BY <2>2, <2>4, <2>5, <3>1
    <3>2. CASE i # 1
      <4>1. i - 1 \in 1..j /\ i - 1 \in 1..Len(t) /\ (i - 1) + 1 = i
        BY <1>1, <3>2
      <4>2. v[i] = t[i - 1]
        BY <2>2, <2>4, <4>1
      <4>3. w[i] = t[i - 1]
        BY <2>3, <2>5, <4>1
      <4> QED
        BY <4>2, <4>3
    <3> QED
      BY <3>1, <3>2
  <2>7. v = w
    BY <2>4, <2>5, <2>6
  <2> QED
    BY <2>1, <2>7 DEF u, v, w
<1>5. ReadAll[b] = t /\ \A k \in 0..Len(b) :
          ReadAll[SubSeq(b, 1, k)] = Malformed \/ \E j \in 0..Len(t) : ReadAll[SubSeq(b, 1, k)] = SubSeq(t, 1, j)
  BY DEF ReadBack
<1>6. ReadAll[WriteAll[s]] = s
  <2>1. t # Malformed
    BY <1>1, FieldsAreNoError
  <2>2. s = <<h>> \o t
    BY <1>1
  <2> QED
    BY <1>2, <1>3, <1>5, <2>1, <2>2, FirstRead
<1> HIDE DEF h, t, a, b
<1>7. ASSUME NEW k \in 0..Len(a \o b)
      PROVE  \/ ReadAll[SubSeq(a \o b, 1, k)] = Malformed
             \/ \E j \in 0..Len(s) : ReadAll[SubSeq(a \o b, 1, k)] = SubSeq(s, 1, j)
  <2> DEFINE p == SubSeq(a \o b, 1, k)
  <2>1. k \in 0..Len(a) + Len(b)
    BY <1>3
  <2>2. p \in Seq(Byte) /\ Len(p) = k
    BY <1>3
  <2>3. CASE k = 0
    <3>1. p = <<>>
      BY <2>2, <2>3
    <3>2. SubSeq(s, 1, 0) = <<>> /\ 0 \in 0..Len(s)
      BY <1>1
    <3> QED
      BY <3>1, <3>2, NoFields
  <2>4. CASE k # 0 /\ k < Len(a)
    <3>1. p = SubSeq(a, 1, k)
      BY <1>3, <2>1, <2>4, PrefixOfBoth
    <3>2. TakeField(p) = Malformed
      <4>1. k \in Nat /\ k < Len(FieldBytes(h))
        BY <2>4 DEF a
      <4>2. TakeField(SubSeq(FieldBytes(h), 1, k)) = Malformed
        BY <1>2, <4>1, FieldTorn
      <4> QED
        BY <3>1, <4>2 DEF a
    <3> HIDE DEF p
    <3>3. p # <<>>
      BY <2>2, <2>4
    <3>4. ReadAll[p] = ReadFrom(ReadAll, p)
      BY <2>2, ReadAllIs
    <3>5. ReadAll[p] = Malformed
      BY <3>2, <3>3, <3>4 DEF ReadFrom
    <3> QED
      BY <3>5 DEF p
  <2>5. CASE ~(k < Len(a))
    <3> DEFINE i == k - Len(a)
               q == SubSeq(b, 1, i)
    <3>1. p = a \o q /\ i \in 0..Len(b)
      BY <1>3, <2>1, <2>5, PrefixOfBoth
    <3> HIDE DEF i
    <3>2. q \in Seq(Byte)
      BY <1>3, <3>1
    <3>3. ReadAll[q] = Malformed \/ \E j \in 0..Len(t) : ReadAll[q] = SubSeq(t, 1, j)
      BY <1>5, <3>1
    <3> HIDE DEF q
    <3>4. ReadAll[a \o q] = IF ReadAll[q] = Malformed THEN Malformed ELSE <<h>> \o ReadAll[q]
      BY <1>2, <3>2, FirstRead DEF a
    <3> HIDE DEF p
    <3>5. CASE ReadAll[q] # Malformed
      <4>1. PICK j \in 0..Len(t) : ReadAll[q] = SubSeq(t, 1, j)
        BY <3>3, <3>5
      <4>2. j + 1 \in 0..Len(s) /\ ReadAll[p] = SubSeq(s, 1, j + 1)
        BY <1>4, <3>1, <3>4, <3>5, <4>1
      <4> QED
        BY <4>2 DEF p
    <3>6. CASE ReadAll[q] = Malformed
      <4>1. ReadAll[p] = Malformed
        BY <3>1, <3>4, <3>6
      <4> QED
        BY <4>1 DEF p
    <3> QED
      BY <3>5, <3>6
  <2> QED
    BY <2>3, <2>4, <2>5
<1> QED
  BY <1>3, <1>6, <1>7 DEF ReadBack

LEMMA FieldsAreReadBack ==
    ASSUME NEW fields, AllFit(fields)
    PROVE  ReadBack(fields)
<1> DEFINE F == {Len(u) : u \in {w \in Seq(WireField) : AllFit(w) /\ ~ReadBack(w)}}
<1>1. ASSUME F # {} PROVE FALSE
  <2>1. F \subseteq Nat
    OBVIOUS
  <2>2. PICK n \in F : \A j \in F : n <= j
    <3> HIDE DEF F
    <3> QED
      BY <1>1, <2>1, LeastOne
  <2>3. PICK s \in Seq(WireField) : AllFit(s) /\ ~ReadBack(s) /\ Len(s) = n
    BY <2>2
  <2>4. s # <<>>
    BY <2>3, NoFields
  <2>5. Tail(s) \in Seq(WireField) /\ Len(Tail(s)) = Len(s) - 1 /\ Len(s) \in Nat
        /\ \A i \in 1..Len(s) - 1 : Tail(s)[i] = s[i + 1]
    BY <2>4, NonEmpty
  <2>6. AllFit(Tail(s))
    <3>1. ASSUME NEW i \in 1..Len(Tail(s)) PROVE FieldFits(Tail(s)[i])
      <4>1. i \in 1..Len(s) - 1 /\ i + 1 \in 1..Len(s)
        BY <2>5
      <4>2. FieldFits(s[i + 1]) /\ Tail(s)[i] = s[i + 1]
        BY <2>3, <2>5, <4>1 DEF AllFit
      <4> QED
        BY <4>2
    <3> QED
      BY <2>5, <3>1 DEF AllFit
  <2>7. ~ReadBack(Tail(s)) => Len(Tail(s)) \in F
    BY <2>5, <2>6
  <2> HIDE DEF F
  <2>8. ReadBack(Tail(s))
    BY <2>2, <2>3, <2>5, <2>7
  <2> QED
    BY <2>3, <2>4, <2>8, OneMoreReadBack
<1>2. ~ReadBack(fields) => Len(fields) \in F
  BY DEF AllFit
<1> HIDE DEF F
<1> QED
  BY <1>1, <1>2

\* What a writer writes: the key, the number and the length are all less than 2^32
\* (varint.ts, serializer.ts).
Writable(f) == f \in WireField /\ 8 * f.tag + f.wire < Word /\ f.num < Word /\ Len(f.bytes) < Word

LEMMA OneByteLess ==
    ASSUME NEW n \in Nat, NEW m \in Nat, NEW l \in Nat, n < 128 * m,
           n \div 128 < m => Len(Varint[n \div 128]) <= l
    PROVE  Len(Varint[n]) <= l + 1
<1>1. n \div 128 \in Nat /\ n \div 128 < m
  <2>1. n = 128 * (n \div 128) + (n % 128) /\ n % 128 \in 0..127 /\ n \div 128 \in Nat
    BY Halves
  <2> QED
    BY <2>1
<1>2. CASE n < 128
  <2>1. Varint[n] = <<n>>
    BY <1>2, VarintIs DEF VarintFrom
  <2> QED
    BY <2>1
<1>3. CASE ~(n < 128)
  <2> DEFINE w == Varint[n \div 128]
             b == (n % 128) + 128
  <2>1. Varint[n] = <<b>> \o w
    BY <1>3, VarintIs DEF VarintFrom
  <2>2. w \in Seq(Byte) /\ Len(w) \in Nat /\ Len(w) <= l
    BY <1>1, VarintTyped
  <2> HIDE DEF w, b
  <2>3. Len(<<b>> \o w) = Len(w) + 1
    BY <2>2
  <2> QED
    BY <2>1, <2>2, <2>3
<1> QED
  BY <1>2, <1>3

LEMMA FiveBytes ==
    ASSUME NEW n \in Nat, n < Word
    PROVE  ShortNumber(n)
<1>1. Word \in Nat /\ Word \div 16 <= 128 * 128 * 128 * 128
  BY FormatAssumption
<1> DEFINE UpTo(m, l) == \A k \in Nat : k < m => Len(Varint[k]) <= l
           m2 == 128 * 128
           m3 == 128 * m2
           m4 == 128 * m3
           m5 == 128 * m4
<1>2. ASSUME NEW m \in Nat, NEW l \in Nat, UpTo(m, l) PROVE UpTo(128 * m, l + 1)
  <2> SUFFICES ASSUME NEW k \in Nat, k < 128 * m PROVE Len(Varint[k]) <= l + 1
    OBVIOUS
  <2>1. k \div 128 \in Nat
    OBVIOUS
  <2>2. k \div 128 < m => Len(Varint[k \div 128]) <= l
    BY <1>2, <2>1
  <2> QED
    BY <2>2, OneByteLess
<1>3. UpTo(128, 1)
  <2> SUFFICES ASSUME NEW k \in Nat, k < 128 PROVE Len(Varint[k]) <= 1
    OBVIOUS
  <2>1. Varint[k] = <<k>>
    BY VarintIs DEF VarintFrom
  <2> QED
    BY <2>1
<1>4. Word \div 16 <= m4
  BY <1>1
<1> HIDE DEF UpTo
<1>5. m2 \in Nat /\ UpTo(m2, 2)
  <2>1. UpTo(m2, 1 + 1)
    BY <1>2, <1>3
  <2> QED
    BY <2>1
<1> HIDE DEF m2
<1>6. m3 \in Nat /\ UpTo(m3, 3)
  <2>1. UpTo(m3, 2 + 1)
    BY <1>2, <1>5
  <2> QED
    BY <1>5, <2>1
<1> HIDE DEF m3
<1>7. m4 \in Nat /\ UpTo(m4, 4)
  <2>1. UpTo(m4, 3 + 1)
    BY <1>2, <1>6
  <2> QED
    BY <1>6, <2>1
<1> HIDE DEF m4
<1>8. m5 \in Nat /\ UpTo(m5, 5)
  <2>1. UpTo(m5, 4 + 1)
    BY <1>2, <1>7
  <2> QED
    BY <1>7, <2>1
<1>9. n < m5
  <2>1. Word = 16 * (Word \div 16) + (Word % 16) /\ Word % 16 \in 0..15 /\ Word \div 16 \in Nat
    BY <1>1
  <2>2. m4 >= 1
    BY DEF m4, m3, m2
  <2> QED
    BY <1>4, <1>7, <2>1, <2>2
<1> HIDE DEF m5
<1>10. Len(Varint[n]) <= 5
  BY <1>8, <1>9 DEF UpTo
<1> QED
  BY <1>10, VarintTyped DEF ShortNumber, MaxVarintBytes

(***************************************************************************)
(* The theorems.                                                           *)
(***************************************************************************)

LEMMA WordFacts == Word \in Nat /\ Word >= 2 /\ Word \div 2 \in Nat /\ Word = 2 * (Word \div 2)
<1>1. Word \in Nat \ {0} /\ Word % 2 = 0
  BY FormatAssumption
<1>2. \A w \in Nat \ {0} : w % 2 = 0 => w >= 2 /\ w \div 2 \in Nat /\ w = 2 * (w \div 2)
  OBVIOUS
<1> QED
  BY <1>1, <1>2

\* A number that is kept in 32 bits is itself within them.
LEMMA Modulo ==
    ASSUME NEW n \in Int
    PROVE  n % Word \in 0..Word - 1 /\ (n \in 0..Word - 1 => n % Word = n)
<1>1. Word \in Nat /\ Word > 0
  BY WordFacts
<1> QED
  BY <1>1

\* Zig-zag: an int32 is written as a number of 32 bits and read back as it was; a
\* number that is out of the range of an int32 is taken into it, as by | 0
\* (serializer.ts).
THEOREM SignedNumbersReadBack ==
    ASSUME NEW n \in Int
    PROVE  /\ ZigZag(n) \in 0..Word - 1
           /\ UnZigZag(ZigZag(n)) = Signed(n)
           /\ n \in -(Word \div 2)..(Word \div 2) - 1 => Signed(n) = n
<1> DEFINE h == Word \div 2
           r == (n + h) % Word
<1>1. h \in Nat /\ Word = 2 * h /\ Word >= 2
  BY WordFacts
<1>2. r \in 0..Word - 1 /\ (n + h \in 0..Word - 1 => r = n + h)
  BY <1>1, Modulo
<1>3. Signed(n) = r - h
  BY DEF Signed
<1> HIDE DEF h, r
<1> DEFINE x == r - h
<1>4. x \in Int /\ x >= -h /\ x < h
  BY <1>1, <1>2
<1>5. n \in -h..h - 1 => x = n
  BY <1>1, <1>2
<1> HIDE DEF x
<1>6. ZigZag(n) = IF x >= 0 THEN 2 * x ELSE -2 * x - 1
  BY <1>3 DEF ZigZag, x
<1>7. CASE x >= 0
  <2>1. ZigZag(n) = 2 * x /\ (2 * x) % 2 = 0 /\ (2 * x) \div 2 = x
    BY <1>4, <1>6, <1>7
  <2>2. UnZigZag(ZigZag(n)) = x
    BY <2>1 DEF UnZigZag
  <2>3. ZigZag(n) \in 0..Word - 1
    BY <1>1, <1>4, <1>7, <2>1
  <2> QED
    BY <1>3, <1>5, <2>2, <2>3 DEF x, h
<1>8. CASE x < 0
  <2> DEFINE z == -2 * x - 1
  <2>1. z \in Nat /\ z % 2 # 0 /\ (z + 1) \div 2 = -x
    BY <1>4, <1>8
  <2>2. ZigZag(n) = z /\ z \in 0..Word - 1
    BY <1>1, <1>4, <1>6, <1>8
  <2> HIDE DEF z
  <2>3. UnZigZag(z) = x
    BY <1>4, <2>1 DEF UnZigZag
  <2> QED
    BY <1>3, <1>5, <2>2, <2>3 DEF x, h
<1> QED
  BY <1>4, <1>7, <1>8

\* A frame is read back field by field as it was written, whatever the fields, their
\* order and their number; and when only the beginning of it arrives, then it is refused
\* or the first of its fields are read, as they were written: no field is made up, and
\* none is taken for another (serializer.ts, varint.ts).
THEOREM FrameIsReadBack ==
    ASSUME NEW fields \in Seq(WireField), \A i \in 1..Len(fields) : Writable(fields[i])
    PROVE  /\ ReadAll[WriteAll[fields]] = fields
           /\ \A k \in 0..Len(WriteAll[fields]) :
                 LET read == ReadAll[SubSeq(WriteAll[fields], 1, k)]
                 IN  read = Malformed \/ \E j \in 0..Len(fields) : read = SubSeq(fields, 1, j)
<1>1. ASSUME NEW i \in 1..Len(fields) PROVE FieldFits(fields[i])
  <2> DEFINE f == fields[i]
  <2>1. f \in WireField /\ 8 * f.tag + f.wire < Word /\ f.num < Word /\ Len(f.bytes) < Word
    BY DEF Writable
  <2> HIDE DEF f
  <2>2. 8 * f.tag + f.wire \in Nat /\ f.num \in Nat /\ Len(f.bytes) \in Nat
    BY <2>1, PartsOfField
  <2>3. FieldFits(f)
    BY <2>1, <2>2, FiveBytes DEF FieldFits
  <2> QED
    BY <2>3 DEF f
<1>2. ReadBack(fields)
  BY <1>1, FieldsAreReadBack DEF AllFit
<1> QED
  BY <1>2 DEF ReadBack

\* Two messages of different fields are never the same bytes (serializer.ts).
THEOREM FramesTellFieldsApart ==
    ASSUME NEW fields \in Seq(WireField), \A i \in 1..Len(fields) : Writable(fields[i]),
           NEW others \in Seq(WireField), \A i \in 1..Len(others) : Writable(others[i]),
           WriteAll[fields] = WriteAll[others]
    PROVE  fields = others
<1>1. ReadAll[WriteAll[fields]] = fields
  BY FrameIsReadBack
<1>2. ReadAll[WriteAll[others]] = others
  BY FrameIsReadBack
<1> QED
  BY <1>1, <1>2
=============================================================================
