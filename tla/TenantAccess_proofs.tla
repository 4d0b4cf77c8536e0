------------------------ MODULE TenantAccess_proofs ------------------------
(***************************************************************************)
(* Staleness is bounded by the TTL for any keys, requests and limits, any  *)
(* TTL and any clock: every context in flight, in the cache or behind a    *)
(* decision was backed by the tables no earlier than the TTL allows.  And  *)
(* while the limit stays what it is, the requests let through in any       *)
(* interval never exceed the burst, the refill and one burst a restart;    *)
(* a refused caller that waits as long as it was told finds a token.       *)
(***************************************************************************)
EXTENDS TenantAccess, FiniteSetTheorems, WellFoundedInduction, TLAPS

\* The record P backs the context in tick a or later.
BackedBy(P, k, ctx, a) ==
    \E t \in Ticks :
        /\ t >= a
        /\ \E p \in P[t] : p.keyStatus[k] = "active" /\ p.status = ctx.status /\ p.limit = ctx.limit

BackedSince(k, ctx, a) == BackedBy(past, k, ctx, a)

\* The record of the tables holds what they say now and nothing later.
Recorded ==
    /\ Tables(keyStatus, status, limit) \in past[now]
    /\ \A t \in Ticks : t > now => past[t] = {}

FetchedBacked ==
    \A r \in Requests :
        /\ pc[r] # "idle" => key[r] \in Keys /\ arrived[r] <= now
        /\ pc[r] \in {"found", "stamped"} =>
              found[r] \in Context /\ BackedSince(key[r], found[r], arrived[r])

CacheBacked ==
    \A k \in Keys :
        cache[k] # None => BackedSince(k, cache[k].ctx, cache[k].until - CACHE_TTL_SECONDS)

DecisionBacked ==
    decision # None =>
        BackedSince(decision.key, decision.ctx, decision.arrived - CACHE_TTL_SECONDS + 1)

BucketAge == bucket # None => bucket.updated <= now

IInv == TypeOK /\ BucketAge /\ Recorded /\ FetchedBacked /\ CacheBacked /\ DecisionBacked

USE KeyAssumption, LimitAssumption, ClockAssumption

-----------------------------------------------------------------------------
(* Arithmetic of the bucket.                                                *)

LEMMA CeilDivNat ==
  ASSUME NEW a \in Nat, NEW b \in Nat \ {0}
  PROVE  CeilDiv(a, b) \in Nat
BY DEF CeilDiv

LEMMA LevelNat ==
  ASSUME NEW b \in Bucket, now \in Ticks, b.updated <= now
  PROVE  Level(b) \in Nat
<1> b.capacity \in Limits /\ b.tokens \in Nat /\ b.updated \in Ticks
  BY DEF Bucket
<1> \A t \in Ticks : t \in Nat
  BY DEF Ticks
<1> b.capacity \in Nat
  BY LimitAssumption
<1> now \in Nat /\ b.updated \in Nat
  OBVIOUS
<1>1. b.capacity \in Nat /\ b.tokens \in Nat /\ now - b.updated \in Nat
  OBVIOUS
<1>2. b.capacity * MINUTE \in Nat /\ (now - b.updated) * b.capacity \in Nat
  BY <1>1
<1> QED
  BY <1>1, <1>2 DEF Level, Smaller

LEMMA TakeTyped ==
  ASSUME NEW b \in Bucket, TypeOK, b.updated <= now, Take(b)
  PROVE  /\ bucket' \in Bucket /\ bucket'.updated = now
         /\ granted' \in [Ticks -> Nat] /\ retryAt' \in Nat \cup {None}
<1>1. now \in Ticks /\ now \in Nat /\ granted \in [Ticks -> Nat]
  BY DEF TypeOK, Ticks
<1>2. Level(b) \in Nat
  BY <1>1, LevelNat
<1>3. b.capacity \in Limits /\ b.capacity \in Nat \ {0}
  BY LimitAssumption DEF Bucket
<1>4. ASSUME NEW x \in Nat
      PROVE  [b EXCEPT !.tokens = x, !.updated = now] \in Bucket
             /\ [b EXCEPT !.tokens = x, !.updated = now].updated = now
  BY <1>1 DEF Bucket
<1>5. CASE Level(b) >= MINUTE
  <2>1. Level(b) - MINUTE \in Nat
    BY <1>2, <1>5
  <2>2. bucket' = [b EXCEPT !.tokens = Level(b) - MINUTE, !.updated = now]
        /\ granted' = [granted EXCEPT ![now] = granted[now] + 1] /\ retryAt' = None
    BY <1>2, <1>5 DEF Take
  <2>3. bucket' \in Bucket /\ bucket'.updated = now
    BY <1>4, <2>1, <2>2
  <2>4. granted' \in [Ticks -> Nat]
    BY <1>1, <2>2
  <2> QED
    BY <2>2, <2>3, <2>4
<1>6. CASE ~(Level(b) >= MINUTE)
  <2>1. MINUTE - Level(b) \in Nat
    BY <1>2, <1>6
  <2>2. Wait(b) \in Nat
    BY <1>3, <2>1, CeilDivNat DEF Wait
  <2>3. bucket' = [b EXCEPT !.tokens = Level(b), !.updated = now]
        /\ granted' = granted /\ retryAt' = now + Wait(b)
    BY <1>6 DEF Take
  <2>4. bucket' \in Bucket /\ bucket'.updated = now
    BY <1>2, <1>4, <2>3
  <2>5. retryAt' \in Nat
    BY <1>1, <2>2, <2>3
  <2> QED
    BY <1>1, <2>3, <2>4, <2>5
<1> QED
  BY <1>5, <1>6

\* What a decision takes its token from.
LEMMA BucketForTyped ==
  ASSUME TypeOK, BucketAge, NEW ctx \in Context
  PROVE  BucketFor(ctx.limit) \in Bucket /\ BucketFor(ctx.limit).updated <= now
<1>1. now \in Ticks /\ now \in Nat /\ ctx.limit \in Limits /\ ctx.limit \in Nat
  <2>1. now \in Ticks /\ now \in Nat /\ ctx.limit \in Limits
    BY DEF TypeOK, Context, Ticks
  <2> QED
    BY <2>1
<1>2. FullBucket(ctx.limit) \in Bucket /\ FullBucket(ctx.limit).updated = now
  <2>1. ctx.limit * MINUTE \in Nat
    BY <1>1
  <2> QED
    BY <1>1, <2>1 DEF FullBucket, Bucket
<1>3. bucket # None => bucket \in Bucket
  BY DEF TypeOK
<1> QED
  BY <1>1, <1>2, <1>3 DEF BucketFor, BucketAge

LEMMA DecideTyped ==
  ASSUME TypeOK, BucketAge,
         NEW k \in Keys, NEW a \in Ticks, NEW ctx \in Context, Decide(k, a, ctx)
  PROVE  /\ bucket' \in {None} \cup Bucket
         /\ bucket' # None => bucket'.updated <= now
         /\ granted' \in [Ticks -> Nat] /\ retryAt' \in Nat \cup {None}
         /\ decision' = [key |-> k, arrived |-> a, ctx |-> ctx]
         /\ decision' \in [key : Keys, arrived : Ticks, ctx : Context]
<1>1. now \in Ticks /\ now \in Nat /\ ctx.limit \in Limits
  BY DEF TypeOK, Context, Ticks
<1>2. BucketFor(ctx.limit) \in Bucket /\ BucketFor(ctx.limit).updated <= now
  BY BucketForTyped
<1>3. decision' = [key |-> k, arrived |-> a, ctx |-> ctx]
  BY DEF Decide
<1>4. CASE UNCHANGED <<bucket, granted, retryAt>>
  BY <1>3, <1>4 DEF TypeOK, BucketAge
<1>5. CASE Take(BucketFor(ctx.limit))
  BY <1>1, <1>2, <1>3, <1>5, TakeTyped
<1> QED
  BY <1>4, <1>5 DEF Decide

-----------------------------------------------------------------------------
(* The record only grows.                                                   *)

LEMMA BackedGrows ==
  ASSUME NEW P, NEW Q, NEW k, NEW ctx, NEW a,
         \A t \in Ticks : P[t] \subseteq Q[t], BackedBy(P, k, ctx, a)
  PROVE  BackedBy(Q, k, ctx, a)
BY DEF BackedBy

LEMMA BackedEarlier ==
  ASSUME NEW P, NEW k, NEW ctx, NEW a \in Int, NEW b \in Int, b <= a, BackedBy(P, k, ctx, a)
  PROVE  BackedBy(P, k, ctx, b)
<1>1. \A t \in Ticks : t \in Int
  BY DEF Ticks
<1> QED
  BY <1>1 DEF BackedBy

\* What the tables say now is on record.
LEMMA NowBacked ==
  ASSUME TypeOK, Recorded, NEW k \in Keys, keyStatus[k] = "active", NEW a \in Ticks, a <= now
  PROVE  BackedSince(k, [status |-> status, limit |-> limit], a)
<1>1. now \in Ticks /\ now >= a /\ Tables(keyStatus, status, limit) \in past[now]
  BY DEF TypeOK, Recorded, Ticks
<1> QED
  BY <1>1 DEF BackedSince, BackedBy, Tables

LEMMA PastGrows ==
  ASSUME TypeOK, Recorded, [Next]_vars
  PROVE  /\ past' \in [Ticks -> SUBSET Snapshot]
         /\ \A t \in Ticks : past[t] \subseteq past'[t]
         /\ Recorded'
         /\ keyStatus' \in [Keys -> KeyStatuses]
         /\ status' \in {"active", "suspended"} /\ limit' \in Limits
         /\ now' \in Ticks /\ now <= now'
<1> DEFINE Typed == /\ keyStatus' \in [Keys -> KeyStatuses]
                    /\ status' \in {"active", "suspended"} /\ limit' \in Limits
<1>1. now \in Ticks /\ now \in Nat /\ \A t \in Ticks : t \in Nat
  BY DEF TypeOK, Ticks
<1>2. ASSUME Record, now' = now, Typed
      PROVE  /\ past' \in [Ticks -> SUBSET Snapshot]
             /\ \A t \in Ticks : past[t] \subseteq past'[t]
             /\ Recorded'
  <2>1. Tables(keyStatus', status', limit') \in Snapshot
    BY <1>2 DEF Tables, Snapshot
  <2>2. past' = [past EXCEPT ![now] = past[now] \cup {Tables(keyStatus', status', limit')}]
    BY <1>2 DEF Record
  <2> QED
    BY <1>1, <1>2, <2>1, <2>2 DEF TypeOK, Recorded
<1>3. ASSUME Command, Typed
      PROVE  Record /\ now' = now
  BY <1>3 DEF Command, env
<1>4. CASE \E k \in Keys : NewKey(k)
  <2>1. Typed /\ Command
    BY <1>4 DEF NewKey, TypeOK, KeyStatuses
  <2> QED
    BY <1>1, <1>2, <1>3, <2>1
<1>5. CASE \E k \in Keys : RevokeKey(k)
  <2>1. Typed /\ Command
    BY <1>5 DEF RevokeKey, TypeOK, KeyStatuses
  <2> QED
    BY <1>1, <1>2, <1>3, <2>1
<1>6. CASE \E s \in {"active", "suspended"} : SetStatus(s)
  <2>1. Typed /\ Command
    BY <1>6 DEF SetStatus, TypeOK
  <2> QED
    BY <1>1, <1>2, <1>3, <2>1
<1>7. CASE \E l \in Limits : SetLimits(l)
  <2>1. Typed /\ Record /\ now' = now
    BY <1>7 DEF SetLimits, TypeOK
  <2> QED
    BY <1>1, <1>2, <2>1
<1>8. CASE Restart
  <2>1. Typed /\ Record /\ now' = now
    BY <1>8 DEF Restart, Import, TypeOK, KeyStatuses
  <2> QED
    BY <1>1, <1>2, <2>1
<1>8a. CASE ImportCommand
  <2>1. Typed /\ Command
    BY <1>8a DEF ImportCommand, Import, TypeOK, KeyStatuses
  <2> QED
    BY <1>1, <1>2, <1>3, <2>1
<1>9. CASE Tick
  <2>1. /\ now' = now + 1 /\ now' \in Ticks
        /\ past' = [past EXCEPT ![now'] = {Tables(keyStatus, status, limit)}]
        /\ UNCHANGED <<keyStatus, status, limit>>
    BY <1>1, <1>9 DEF Tick, tables, Ticks
  <2>2. past[now'] = {}
    BY <1>1, <2>1 DEF Recorded
  <2>3. Tables(keyStatus, status, limit) \in Snapshot
    BY DEF TypeOK, Tables, Snapshot
  <2>4. ASSUME NEW t \in Ticks, t > now' PROVE past'[t] = {}
    <3>1. t > now /\ t # now'
      BY <1>1, <2>1, <2>4
    <3>2. past'[t] = past[t]
      BY <2>1, <3>1 DEF TypeOK
    <3> QED
      BY <3>1, <3>2 DEF Recorded
  <2> QED
    BY <1>1, <2>1, <2>2, <2>3, <2>4 DEF TypeOK, Recorded
<1>10. CASE UNCHANGED <<keyStatus, status, limit, past, now>>
  BY <1>1, <1>10 DEF TypeOK, Recorded
<1>11. \/ UNCHANGED <<keyStatus, status, limit, past, now>>
       \/ \E k \in Keys : NewKey(k) \/ RevokeKey(k)
       \/ \E s \in {"active", "suspended"} : SetStatus(s)
       \/ \E l \in Limits : SetLimits(l)
       \/ ImportCommand \/ Restart \/ Tick
  BY DEF Next, vars, tables, env, Hit, Arrive, LookUp, StampKey, Finish, RequestFails
<1> QED
  BY <1>4, <1>5, <1>6, <1>7, <1>8, <1>8a, <1>9, <1>10, <1>11

-----------------------------------------------------------------------------
(* The steps of a request.                                                  *)

LEMMA InitIInv == Init => IInv
<1> SUFFICES ASSUME Init PROVE IInv
  OBVIOUS
<1>1. 0 \in Ticks
  BY DEF Ticks
<1>2. Tables(keyStatus, status, limit) \in Snapshot /\ keyStatus \in [Keys -> KeyStatuses]
  BY DEF Init, Tables, Snapshot, KeyStatuses
<1>3. past \in [Ticks -> SUBSET Snapshot]
  BY <1>1, <1>2 DEF Init
<1>4. TypeOK
  BY <1>1, <1>2, <1>3 DEF Init, TypeOK
<1>5. Recorded
  BY <1>1 DEF Init, Recorded, Ticks
<1> QED
  BY <1>4, <1>5 DEF Init, IInv, BucketAge, FetchedBacked, CacheBacked, DecisionBacked

\* An emptied slot is a slot.
LEMMA LeaveTyped ==
  ASSUME TypeOK, NEW r \in Requests, Leave(r)
  PROVE  /\ pc' \in [Requests -> {"idle", "asking", "found", "stamped"}]
         /\ key' \in [Requests -> Keys \cup {None}]
         /\ arrived' \in [Requests -> Ticks]
         /\ found' \in [Requests -> {None} \cup Context]
         /\ \A q \in Requests : pc'[q] # "idle" =>
               pc'[q] = pc[q] /\ key'[q] = key[q] /\ arrived'[q] = arrived[q] /\ found'[q] = found[q]
BY DEF Leave, TypeOK, Ticks

\* What a step that leaves the tables alone leaves of the record.
LEMMA Backings ==
  ASSUME IInv, [Next]_vars
  PROVE  /\ TypeOK /\ BucketAge /\ Recorded
         /\ \A k, ctx, a : BackedSince(k, ctx, a) => BackedBy(past', k, ctx, a)
BY PastGrows, BackedGrows DEF IInv, BackedSince

LEMMA NextIInv == IInv /\ [Next]_vars => IInv'
<1> SUFFICES ASSUME IInv, [Next]_vars PROVE IInv'
  OBVIOUS
<1>1. /\ TypeOK /\ BucketAge /\ Recorded /\ FetchedBacked /\ CacheBacked /\ DecisionBacked
      /\ past' \in [Ticks -> SUBSET Snapshot] /\ Recorded'
      /\ keyStatus' \in [Keys -> KeyStatuses]
      /\ status' \in {"active", "suspended"} /\ limit' \in Limits
      /\ now \in Ticks /\ now' \in Ticks /\ now <= now'
  BY PastGrows DEF IInv, TypeOK
<1>2. \A k, ctx, a : BackedSince(k, ctx, a) => BackedBy(past', k, ctx, a)
  BY Backings
<1>3. \A t \in Ticks : t \in Nat
  BY DEF Ticks
<1> \A t \in Ticks : t <= now => t <= now'
  BY <1>1, <1>3
<1> now <= now
  BY <1>1, <1>3
<1> DEFINE Requesting ==
             /\ pc' \in [Requests -> {"idle", "asking", "found", "stamped"}]
             /\ key' \in [Requests -> Keys \cup {None}]
             /\ arrived' \in [Requests -> Ticks]
             /\ found' \in [Requests -> {None} \cup Context]
             /\ FetchedBacked'
           Caching == cache' \in [Keys -> {None} \cup Entry] /\ CacheBacked'
           Deciding ==
             /\ bucket' \in {None} \cup Bucket /\ BucketAge'
             /\ granted' \in [Ticks -> Nat] /\ retryAt' \in Nat \cup {None}
             /\ decision' \in {None} \cup [key : Keys, arrived : Ticks, ctx : Context]
             /\ DecisionBacked'
           Stamping == lastUsed' \in [Keys -> Ticks \cup {None}]
<1>4. ASSUME Requesting, Caching, Deciding, Stamping PROVE IInv'
  BY <1>1, <1>4 DEF IInv, TypeOK
<1>5. ASSUME UNCHANGED request PROVE Requesting
  BY <1>1, <1>2, <1>5 DEF request, TypeOK, FetchedBacked, BackedSince
<1>6. ASSUME UNCHANGED cache PROVE Caching
  BY <1>1, <1>2, <1>6 DEF TypeOK, CacheBacked, BackedSince
<1>7. ASSUME UNCHANGED <<bucket, history>> PROVE Deciding
  <2>1. BucketAge'
    <3>1. bucket # None => bucket.updated \in Ticks
      BY <1>1 DEF TypeOK, Bucket
    <3> QED
      BY <1>1, <1>3, <1>7, <3>1 DEF BucketAge
  <2> QED
    BY <1>1, <1>2, <1>7, <2>1 DEF history, TypeOK, DecisionBacked, BackedSince
<1>8. ASSUME UNCHANGED lastUsed PROVE Stamping
  BY <1>1, <1>8 DEF TypeOK
<1>9. ASSUME NEW r \in Requests, Leave(r) PROVE Requesting
  <2>1. \A q \in Requests : pc'[q] # "idle" =>
          pc'[q] = pc[q] /\ key'[q] = key[q] /\ arrived'[q] = arrived[q] /\ found'[q] = found[q]
    BY <1>1, <1>9, LeaveTyped
  <2>2. \A q \in Requests : pc'[q] # "idle" => key'[q] \in Keys /\ arrived'[q] <= now'
    BY <1>1, <2>1 DEF FetchedBacked, TypeOK
  <2>3. FetchedBacked'
    BY <1>1, <1>2, <2>1, <2>2 DEF FetchedBacked, BackedSince
  <2> QED
    BY <1>1, <1>9, <2>3, LeaveTyped
<1>10. ASSUME NEW k \in Keys, NEW a \in Ticks, NEW ctx \in Context,
              Decide(k, a, ctx), now' = now,
              BackedSince(k, ctx, a - CACHE_TTL_SECONDS + 1)
       PROVE  Deciding
  <2>1. /\ bucket' \in {None} \cup Bucket
        /\ bucket' # None => bucket'.updated <= now
        /\ granted' \in [Ticks -> Nat] /\ retryAt' \in Nat \cup {None}
        /\ decision' = [key |-> k, arrived |-> a, ctx |-> ctx]
        /\ decision' \in [key : Keys, arrived : Ticks, ctx : Context]
    BY <1>1, <1>10, DecideTyped
  <2>2. DecisionBacked'
    BY <1>2, <1>10, <2>1 DEF DecisionBacked, BackedSince
  <2> QED
    BY <1>10, <2>1, <2>2 DEF BucketAge
<1>11. ASSUME NEW k \in Keys, Hit(k) PROVE IInv'
  <2>1. /\ cache[k] # None /\ cache[k].until > now /\ Decide(k, now, cache[k].ctx)
        /\ UNCHANGED <<tables, cache, request, env, past>>
    BY <1>11 DEF Hit, Fresh
  <2>2. cache[k].ctx \in Context /\ cache[k].until \in Nat
    BY <1>1, <2>1 DEF TypeOK, Entry
  <2>3. BackedSince(k, cache[k].ctx, cache[k].until - CACHE_TTL_SECONDS)
    BY <1>1, <2>1 DEF CacheBacked
  <2>4. BackedSince(k, cache[k].ctx, now - CACHE_TTL_SECONDS + 1)
    <3>1. now \in Int /\ CACHE_TTL_SECONDS \in Int
      BY <1>1, <1>3, ClockAssumption
    <3>2. /\ cache[k].until - CACHE_TTL_SECONDS \in Int
          /\ now - CACHE_TTL_SECONDS + 1 \in Int
          /\ now - CACHE_TTL_SECONDS + 1 <= cache[k].until - CACHE_TTL_SECONDS
      BY <2>1, <2>2, <3>1
    <3> QED
      BY <2>3, <3>2, BackedEarlier DEF BackedSince
  <2>5. now' = now /\ lastUsed' = lastUsed
    BY <2>1 DEF env, tables
  <2>6. Deciding
    BY <1>1, <1>10, <2>1, <2>2, <2>4, <2>5
  <2> QED
    BY <1>4, <1>5, <1>6, <1>8, <2>1, <2>5, <2>6
<1>12. ASSUME NEW r \in Requests, NEW k \in Keys, Arrive(r, k) PROVE IInv'
  <2>1. /\ pc' = [pc EXCEPT ![r] = "asking"] /\ key' = [key EXCEPT ![r] = k]
        /\ arrived' = [arrived EXCEPT ![r] = now] /\ found' = found
        /\ UNCHANGED <<lastUsed, cache, bucket, history>>
    BY <1>12 DEF Arrive, tables
  <2>2. FetchedBacked'
    BY <1>1, <1>2, <2>1 DEF FetchedBacked, BackedSince, TypeOK
  <2>3. Requesting
    BY <1>1, <2>1, <2>2 DEF TypeOK
  <2>4. Caching /\ Stamping
    BY <1>6, <1>8, <2>1
  <2>5. Deciding
    BY <1>7, <2>1
  <2> QED
    BY <1>4, <2>3, <2>4, <2>5
<1>13. ASSUME NEW r \in Requests, LookUp(r) PROVE IInv'
  <2>1. pc[r] = "asking" /\ UNCHANGED <<lastUsed, cache, bucket, history>>
    BY <1>13 DEF LookUp, tables
  <2>2. CASE Leave(r)
    <3>1. Requesting
      BY <1>9, <2>2
    <3>2. Caching /\ Stamping
      BY <1>6, <1>8, <2>1
    <3>3. Deciding
      BY <1>7, <2>1
    <3> QED
      BY <1>4, <3>1, <3>2, <3>3
  <2>3. CASE ~Leave(r)
    <3> DEFINE ctx == [status |-> status, limit |-> limit]
    <3>1. /\ keyStatus[key[r]] = "active"
          /\ pc' = [pc EXCEPT ![r] = "found"] /\ found' = [found EXCEPT ![r] = ctx]
          /\ UNCHANGED <<key, arrived>>
      BY <1>13, <2>3 DEF LookUp
    <3>2. key[r] \in Keys /\ ctx \in Context /\ arrived[r] \in Ticks /\ arrived[r] <= now
      BY <1>1, <2>1 DEF FetchedBacked, TypeOK, Context
    <3>3. BackedSince(key[r], ctx, arrived[r])
      BY <1>1, <3>1, <3>2, NowBacked
    <3>4. FetchedBacked'
      BY <1>1, <1>2, <3>1, <3>2, <3>3 DEF FetchedBacked, BackedSince, TypeOK
    <3>5. Requesting
      BY <1>1, <3>1, <3>2, <3>4 DEF TypeOK
    <3>6. Caching /\ Stamping
      BY <1>6, <1>8, <2>1
    <3>7. Deciding
      BY <1>7, <2>1
    <3> QED
      BY <1>4, <3>5, <3>6, <3>7
  <2> QED
    BY <2>2, <2>3
<1>14. ASSUME NEW r \in Requests, StampKey(r) PROVE IInv'
  <2>1. /\ pc[r] = "found" /\ pc' = [pc EXCEPT ![r] = "stamped"]
        /\ lastUsed' = [lastUsed EXCEPT ![key[r]] = now]
        /\ UNCHANGED <<cache, bucket, key, arrived, found, history>>
    BY <1>14 DEF StampKey
  <2>2. FetchedBacked'
    BY <1>1, <1>2, <2>1 DEF FetchedBacked, BackedSince, TypeOK
  <2>3. Requesting
    BY <1>1, <2>1, <2>2 DEF TypeOK
  <2>4. Stamping
    BY <1>1, <2>1 DEF TypeOK
  <2>5. Caching
    BY <1>6, <2>1
  <2>6. Deciding
    BY <1>7, <2>1
  <2> QED
    BY <1>4, <2>3, <2>4, <2>5, <2>6
<1>15. ASSUME NEW r \in Requests, Finish(r) PROVE IInv'
  <2>1. /\ pc[r] = "stamped" /\ Decide(key[r], arrived[r], found[r]) /\ Leave(r)
        /\ cache' = [cache EXCEPT ![key[r]] =
                        [ctx |-> found[r], until |-> arrived[r] + CACHE_TTL_SECONDS]]
        /\ now' = now /\ lastUsed' = lastUsed
    BY <1>15 DEF Finish, Remember, tables, env
  <2>2. /\ key[r] \in Keys /\ found[r] \in Context /\ arrived[r] \in Ticks
        /\ BackedSince(key[r], found[r], arrived[r])
    BY <1>1, <2>1 DEF FetchedBacked, TypeOK
  <2>3. /\ arrived[r] \in Nat /\ arrived[r] + CACHE_TTL_SECONDS \in Nat
        /\ arrived[r] - CACHE_TTL_SECONDS + 1 \in Int
        /\ arrived[r] - CACHE_TTL_SECONDS + 1 <= arrived[r]
    BY <1>3, <2>2, ClockAssumption
  <2>4. Deciding
    <3>1. BackedSince(key[r], found[r], arrived[r] - CACHE_TTL_SECONDS + 1)
      BY <2>2, <2>3, BackedEarlier DEF BackedSince
    <3> QED
      BY <1>10, <2>1, <2>2, <3>1
  <2>5. Caching
    <3> DEFINE e == [ctx |-> found[r], until |-> arrived[r] + CACHE_TTL_SECONDS]
    <3>1. e \in Entry
      BY <2>2, <2>3 DEF Entry
    <3>2. cache' \in [Keys -> {None} \cup Entry]
      BY <1>1, <2>1, <2>2, <3>1 DEF TypeOK
    <3>3. BackedBy(past', key[r], e.ctx, e.until - CACHE_TTL_SECONDS)
      <4>1. e.until - CACHE_TTL_SECONDS = arrived[r] /\ e.ctx = found[r]
        BY <2>3, ClockAssumption
      <4> QED
        BY <1>2, <2>2, <4>1
    <3>4. cache'[key[r]] = e /\ \A k \in Keys \ {key[r]} : cache'[k] = cache[k]
      BY <1>1, <2>1, <2>2 DEF TypeOK
    <3>5. ASSUME NEW k \in Keys, cache'[k] # None
          PROVE  BackedBy(past', k, cache'[k].ctx, cache'[k].until - CACHE_TTL_SECONDS)
      <4>1. CASE k = key[r]
        BY <3>3, <3>4, <4>1
      <4>2. CASE k # key[r]
        BY <1>1, <1>2, <3>4, <3>5, <4>2 DEF CacheBacked
      <4> QED
        BY <4>1, <4>2
    <3> QED
      BY <3>2, <3>5 DEF CacheBacked, BackedSince
  <2>6. Requesting
    BY <1>9, <2>1
  <2>7. Stamping
    BY <1>8, <2>1
  <2> QED
    BY <1>4, <2>4, <2>5, <2>6, <2>7
<1>16. ASSUME NEW r \in Requests, RequestFails(r) PROVE IInv'
  <2>1. Leave(r) /\ UNCHANGED <<lastUsed, cache, bucket, history>>
    BY <1>16 DEF RequestFails, tables
  <2>2. Requesting
    BY <1>9, <2>1
  <2>3. Caching /\ Stamping
    BY <1>6, <1>8, <2>1
  <2>4. Deciding
    BY <1>7, <2>1
  <2> QED
    BY <1>4, <2>2, <2>3, <2>4
<1>17. ASSUME UNCHANGED <<lastUsed, cache, bucket, request, history>> PROVE IInv'
  <2>1. Requesting
    BY <1>5, <1>17
  <2>2. Caching /\ Stamping
    BY <1>6, <1>8, <1>17
  <2>3. Deciding
    BY <1>7, <1>17
  <2> QED
    BY <1>4, <2>1, <2>2, <2>3
<1>18. ASSUME Restart PROVE IInv'
  <2>1. /\ cache' = [k \in Keys |-> None] /\ bucket' = None
        /\ pc' = [r \in Requests |-> "idle"] /\ key' = [r \in Requests |-> None]
        /\ arrived' = [r \in Requests |-> 0] /\ found' = [r \in Requests |-> None]
        /\ UNCHANGED <<lastUsed, history>>
    BY <1>18 DEF Restart
  <2>2. Requesting
    BY <2>1 DEF FetchedBacked, Ticks
  <2>3. Caching
    BY <2>1 DEF CacheBacked
  <2>4. Stamping
    BY <1>8, <2>1
  <2>5. Deciding
    BY <1>1, <1>2, <2>1 DEF BucketAge, history, TypeOK, DecisionBacked, BackedSince
  <2> QED
    BY <1>4, <2>2, <2>3, <2>4, <2>5
<1>19. ASSUME \/ \E k \in Keys : NewKey(k) \/ RevokeKey(k)
              \/ \E s \in {"active", "suspended"} : SetStatus(s)
              \/ \E l \in Limits : SetLimits(l)
              \/ ImportCommand
              \/ Tick
              \/ UNCHANGED vars
       PROVE  UNCHANGED <<lastUsed, cache, bucket, request, history>>
  BY <1>19 DEF NewKey, RevokeKey, SetStatus, SetLimits, ImportCommand, Command, Tick, vars, tables
<1> QED
  BY <1>11, <1>12, <1>13, <1>14, <1>15, <1>16, <1>17, <1>18, <1>19 DEF Next

\* Every context in flight, cached or decided on is backed (auth.py 47-76).
THEOREM Invariance == Spec => []IInv
BY InitIInv, NextIInv, PTL DEF Spec

\* Tables, cache, bucket and requests hold what the code puts there.
THEOREM TypeCorrect == Spec => []TypeOK
<1>1. IInv => TypeOK
  BY DEF IInv
<1> QED
  BY <1>1, Invariance, PTL

\* A revocation, a suspension or a new limit is in force one TTL later: every
\* request is decided on a context the tables held less than a TTL before it
\* arrived, or later (auth.py 47-76).
THEOREM StalenessBounded == Spec => []DecisionsFresh
<1>1. IInv => DecisionsFresh
  <2> SUFFICES ASSUME IInv, decision # None
               PROVE  \E t \in Ticks : t > decision.arrived - CACHE_TTL_SECONDS
                                       /\ Backed(decision.key, decision.ctx, t)
    BY DEF DecisionsFresh
  <2>1. decision.arrived \in Int /\ CACHE_TTL_SECONDS \in Int /\ \A t \in Ticks : t \in Int
    BY DEF IInv, TypeOK, Ticks
  <2>2. BackedBy(past, decision.key, decision.ctx, decision.arrived - CACHE_TTL_SECONDS + 1)
    BY DEF IInv, DecisionBacked, BackedSince
  <2> QED
    BY <2>1, <2>2 DEF BackedBy, Backed
<1> QED
  BY <1>1, Invariance, PTL

\* A revoked key stays revoked through commands, imports and restarts
\* (tenants 61-75, 99-123).
THEOREM KeysRevokedForGood == Spec => RevokedForGood
<1>1. TypeOK /\ [Next]_vars =>
        \A k \in Keys : keyStatus[k] = "revoked" => keyStatus'[k] = "revoked"
  <2> SUFFICES ASSUME TypeOK, [Next]_vars, NEW k \in Keys, keyStatus[k] = "revoked"
               PROVE  keyStatus'[k] = "revoked"
    OBVIOUS
  <2>1. CASE \E j \in Keys : NewKey(j) \/ RevokeKey(j)
    BY <2>1 DEF NewKey, RevokeKey, TypeOK
  <2>2. CASE Restart \/ ImportCommand
    BY <2>2 DEF Restart, ImportCommand, Import, TypeOK
  <2>3. CASE keyStatus' = keyStatus
    BY <2>3
  <2>4. (\E j \in Keys : NewKey(j) \/ RevokeKey(j)) \/ Restart \/ ImportCommand \/ keyStatus' = keyStatus
    BY DEF Next, vars, tables, Hit, Arrive, LookUp, StampKey, Finish, RequestFails, SetStatus,
           SetLimits, Tick
  <2> QED
    BY <2>1, <2>2, <2>3, <2>4
<1> QED
  BY <1>1, TypeCorrect, PTL DEF Spec, RevokedForGood

-----------------------------------------------------------------------------
(* Retry-After.                                                             *)

LEMMA CeilDivEnough ==
  ASSUME NEW a \in Nat, NEW b \in Nat \ {0}
  PROVE  CeilDiv(a, b) * b >= a
<1> DEFINE q == (a + b - 1) \div b
<1>1. q \in Nat /\ a + b - 1 < b * (q + 1)
  OBVIOUS
<1>2. b * (q + 1) = q * b + b
  BY <1>1
<1> QED
  BY <1>1, <1>2 DEF CeilDiv

\* Once the promised seconds are over, the refill has brought a token.
WaitEnough ==
    retryAt # None /\ bucket # None =>
        bucket.tokens + (retryAt - bucket.updated) * bucket.capacity >= MINUTE

\* A refusal promises a wait after which there is a token.
LEMMA TakeWaitsEnough ==
  ASSUME TypeOK, NEW b \in Bucket, b.updated <= now, Take(b)
  PROVE  WaitEnough'
<1>1. now \in Ticks /\ now \in Nat
  BY DEF TypeOK, Ticks
<1>2. Level(b) \in Nat /\ b.capacity \in Nat \ {0}
  BY <1>1, LevelNat DEF Bucket
<1>3. CASE Level(b) >= MINUTE
  BY <1>2, <1>3 DEF Take, WaitEnough
<1>4. CASE ~(Level(b) >= MINUTE)
  <2>1. /\ bucket'.tokens = Level(b) /\ bucket'.updated = now /\ bucket'.capacity = b.capacity
        /\ retryAt' = now + Wait(b)
    BY <1>4 DEF Take, Bucket
  <2>2. MINUTE - Level(b) \in Nat
    BY <1>2, <1>4
  <2>3. Wait(b) \in Nat /\ Wait(b) * b.capacity >= MINUTE - Level(b)
    BY <1>2, <2>2, CeilDivNat, CeilDivEnough DEF Wait
  <2>4. retryAt' - bucket'.updated = Wait(b)
    BY <1>1, <2>1, <2>3
  <2>5. bucket'.tokens + (retryAt' - bucket'.updated) * bucket'.capacity
          = Level(b) + Wait(b) * b.capacity
    BY <2>1, <2>4
  <2>6. Level(b) + Wait(b) * b.capacity >= MINUTE
    <3> DEFINE w == Wait(b) * b.capacity
    <3>1. w \in Nat /\ w >= MINUTE - Level(b)
      BY <1>2, <2>3
    <3> HIDE DEF w
    <3>2. Level(b) + w >= MINUTE
      BY <1>2, <3>1
    <3> QED
      BY <3>2 DEF w
  <2> QED
    BY <2>5, <2>6 DEF WaitEnough
<1> QED
  BY <1>3, <1>4

\* Only decisions and restarts touch the bucket and the promise.
LEMMA BucketSteps ==
  ASSUME IInv, [Next]_vars
  PROVE  \/ UNCHANGED <<bucket, granted, retryAt>>
         \/ Restart
         \/ \E k \in Keys, a \in Ticks, ctx \in Context :
                /\ ctx.status = "active" /\ Take(BucketFor(ctx.limit))
                /\ \/ Hit(k) /\ ctx = cache[k].ctx
                   \/ \E r \in Requests : Finish(r) /\ ctx = found[r]
<1>1. TypeOK /\ FetchedBacked /\ now \in Ticks
  BY DEF IInv, TypeOK
<1>2. ASSUME NEW k \in Keys, Hit(k)
      PROVE  \/ UNCHANGED <<bucket, granted, retryAt>>
             \/ \E a \in Ticks, ctx \in Context :
                   ctx.status = "active" /\ Take(BucketFor(ctx.limit)) /\ ctx = cache[k].ctx
  <2>1. cache[k].ctx \in Context
    BY <1>1, <1>2 DEF Hit, Fresh, TypeOK, Entry
  <2> QED
    BY <1>1, <1>2, <2>1 DEF Hit, Decide
<1>3. ASSUME NEW r \in Requests, Finish(r)
      PROVE  \/ UNCHANGED <<bucket, granted, retryAt>>
             \/ \E k \in Keys, a \in Ticks, ctx \in Context :
                   ctx.status = "active" /\ Take(BucketFor(ctx.limit)) /\ ctx = found[r]
  <2>1. found[r] \in Context /\ key[r] \in Keys
    BY <1>1, <1>3 DEF Finish, FetchedBacked
  <2> QED
    BY <1>1, <1>3, <2>1 DEF Finish, Decide
<1>4. \/ \E k \in Keys : Hit(k)
      \/ \E r \in Requests : Finish(r)
      \/ Restart
      \/ UNCHANGED <<bucket, granted, retryAt>>
  BY DEF Next, vars, history, Arrive, LookUp, StampKey, RequestFails, NewKey, RevokeKey, SetStatus,
         SetLimits, ImportCommand, Command, Tick
<1> QED
  BY <1>2, <1>3, <1>4

LEMMA NextWaitEnough == IInv /\ WaitEnough /\ [Next]_vars => WaitEnough'
<1> SUFFICES ASSUME IInv, WaitEnough, [Next]_vars PROVE WaitEnough'
  OBVIOUS
<1>1. CASE UNCHANGED <<bucket, granted, retryAt>>
  BY <1>1 DEF WaitEnough
<1>2. CASE Restart
  BY <1>2 DEF Restart, WaitEnough
<1>3. ASSUME NEW ctx \in Context, Take(BucketFor(ctx.limit)) PROVE WaitEnough'
  BY <1>3, BucketForTyped, TakeWaitsEnough DEF IInv
<1> QED
  BY <1>1, <1>2, <1>3, BucketSteps

\* A refused caller that waits as long as it was told finds a token, unless
\* another request of its tenant took it (ratelimit.py 20-30, 45-51).
THEOREM RetryAfterHolds == Spec => []RetryAfterKept
<1>1. Init => WaitEnough
  BY DEF Init, WaitEnough
<1>2. IInv /\ WaitEnough => RetryAfterKept
  <2> SUFFICES ASSUME IInv, WaitEnough, retryAt # None, bucket # None, now >= retryAt
               PROVE  Level(bucket) >= MINUTE
    BY DEF RetryAfterKept
  <2>1. /\ bucket \in Bucket /\ retryAt \in Nat /\ now \in Nat
        /\ bucket.capacity \in Nat \ {0} /\ bucket.tokens \in Nat /\ bucket.updated \in Nat
    <3>1. TypeOK /\ bucket \in Bucket /\ retryAt \in Nat
      BY DEF IInv, TypeOK
    <3>2. now \in Nat
      BY <3>1 DEF TypeOK, Ticks
    <3>3. bucket.capacity \in Limits /\ bucket.tokens \in Nat /\ bucket.updated \in Nat
      BY <3>1 DEF Bucket, Ticks
    <3> QED
      BY <3>1, <3>2, <3>3
  <2> DEFINE c == bucket.capacity
             x == (retryAt - bucket.updated) * c
             y == (now - bucket.updated) * c
             z == c * MINUTE
  <2>2. x \in Int /\ y \in Int /\ z \in Int
    BY <2>1
  <2>3. x <= y
    <3>1. \A i, j \in Int, n \in Nat : i <= j => i * n <= j * n
      OBVIOUS
    <3> QED
      BY <2>1, <3>1
  <2>4. z >= MINUTE
    BY <2>1
  <2>5. bucket.tokens + x >= MINUTE
    BY DEF WaitEnough
  <2>6. Level(bucket) = Smaller(z, bucket.tokens + y)
    BY DEF Level
  <2> HIDE DEF x, y, z
  <2>7. bucket.tokens + y >= MINUTE
    BY <2>1, <2>2, <2>3, <2>5
  <2> QED
    BY <2>4, <2>6, <2>7 DEF Smaller
<1> QED
  BY <1>1, <1>2, NextWaitEnough, Invariance, PTL DEF Spec

-----------------------------------------------------------------------------
(* Sums over an interval. What let through counts is a recursive function;  *)
(* induction comes from the least element of a set of numbers.              *)

LEMMA LessIsARelation == OpToRel(<, Nat) = {p \in Nat \X Nat : p[1] < p[2]}
  BY Zenon DEF OpToRel

\* A nonempty set of natural numbers has a least element.
LEMMA LeastElement ==
  ASSUME NEW S \in SUBSET Nat, S # {}
  PROVE  \E n \in S : \A m \in S : n <= m
<1> DEFINE Less == {p \in Nat \X Nat : p[1] < p[2]}
<1>1. PICK n \in S : \A m \in S : <<m, n>> \notin Less
  <2>1. IsWellFoundedOn(Less, Nat)
    BY NatLessThanWellFounded, LessIsARelation, Zenon
  <2> HIDE DEF Less
  <2> QED
    BY <2>1, WFMin
<1>2. ASSUME NEW m \in S PROVE n <= m
  <2>1. <<m, n>> \in Nat \X Nat
    OBVIOUS
  <2>2. <<m, n>> \in Less <=> m < n
    BY <2>1
  <2> QED
    BY <1>1, <2>2
<1> QED
  BY <1>2

\* A set with 0 and the successor of each of its numbers holds every number.
LEMMA InductionOnNat ==
  ASSUME NEW S \in SUBSET Nat, 0 \in S, \A n \in S : n + 1 \in S
  PROVE  Nat \subseteq S
<1> SUFFICES ASSUME Nat \ S # {} PROVE FALSE
  OBVIOUS
<1>1. PICK n \in Nat \ S : \A m \in Nat \ S : n <= m
  BY LeastElement
<1>2. n - 1 \in Nat /\ n - 1 + 1 = n
  BY <1>1
<1>3. n - 1 \in S
  BY <1>1, <1>2
<1> QED
  BY <1>1, <1>2, <1>3

\* f sums up what u holds from s to e.
SumsUp(f, u, s, e) == f = [t \in s..e |-> u[t] + (IF t = s THEN 0 ELSE f[t - 1])]

SumOf(u, s, e) ==
    LET upTo[t \in s..e] == u[t] + (IF t = s THEN 0 ELSE upTo[t - 1])
    IN  upTo[e]

\* Such a function exists.
LEMMA SumExists ==
  ASSUME NEW u, NEW s \in Nat, NEW e \in Nat, s <= e
  PROVE  \E f : SumsUp(f, u, s, e)
<1> DEFINE S == {k \in Nat : \E f : SumsUp(f, u, s, s + k)}
<1>1. 0 \in S
  <2>1. SumsUp([t \in s..s |-> u[s] + 0], u, s, s)
    BY DEF SumsUp
  <2>2. s + 0 = s
    OBVIOUS
  <2> QED
    BY <2>1, <2>2
<1>2. ASSUME NEW k \in S PROVE k + 1 \in S
  <2>1. PICK f : SumsUp(f, u, s, s + k)
    OBVIOUS
  <2> DEFINE n == s + k
             g == [t \in s..(n + 1) |-> IF t = n + 1 THEN u[n + 1] + f[n] ELSE f[t]]
  <2>2. SumsUp(g, u, s, n + 1)
    <3>1. n \in Nat /\ s <= n /\ f = [t \in s..n |-> u[t] + (IF t = s THEN 0 ELSE f[t - 1])]
      BY <2>1 DEF SumsUp
    <3> HIDE DEF n
    <3>2. ASSUME NEW t \in s..(n + 1) PROVE g[t] = u[t] + (IF t = s THEN 0 ELSE g[t - 1])
      <4>1. CASE t = n + 1
        <5>1. t # s /\ t - 1 = n /\ n \in s..(n + 1) /\ n # n + 1
          BY <3>1, <4>1
        <5> QED
          BY <4>1, <5>1
      <4>2. CASE t # n + 1
        <5>1. t \in s..n /\ (t # s => t - 1 \in s..(n + 1) /\ t - 1 # n + 1)
          BY <3>1, <4>2
        <5>2. f[t] = u[t] + (IF t = s THEN 0 ELSE f[t - 1])
          BY <3>1, <5>1
        <5> QED
          BY <4>2, <5>1, <5>2
      <4> QED
        BY <4>1, <4>2
    <3> QED
      BY <3>2 DEF SumsUp
  <2>3. n + 1 = s + (k + 1)
    OBVIOUS
  <2> HIDE DEF g, n
  <2> QED
    BY <2>2, <2>3
<1>3. S \in SUBSET Nat
  OBVIOUS
<1>4. e - s \in Nat /\ s + (e - s) = e
  OBVIOUS
<1> HIDE DEF S
<1>5. e - s \in S
  BY <1>1, <1>2, <1>3, <1>4, InductionOnNat
<1> QED
  BY <1>4, <1>5 DEF S

LEMMA SumSums ==
  ASSUME NEW u, NEW s \in Nat, NEW e \in Nat, s <= e
  PROVE  \E f : SumsUp(f, u, s, e) /\ SumOf(u, s, e) = f[e]
<1> DEFINE f == CHOOSE upTo : upTo = [t \in s..e |-> u[t] + (IF t = s THEN 0 ELSE upTo[t - 1])]
<1>1. SumsUp(f, u, s, e)
  <2>1. PICK g : SumsUp(g, u, s, e)
    BY SumExists
  <2>2. f = [t \in s..e |-> u[t] + (IF t = s THEN 0 ELSE f[t - 1])]
    BY <2>1 DEF SumsUp
  <2> QED
    BY <2>2 DEF SumsUp
<1>2. SumOf(u, s, e) = f[e]
  BY DEF SumOf
<1> QED
  BY <1>1, <1>2

Agree(u, v, s, k) == \A t \in s..k : u[t] = v[t]

\* Sums of what is the same up to k are the same up to k, wherever they end.
LEMMA SumsAgree ==
  ASSUME NEW u, NEW v, NEW s \in Nat, NEW k \in Nat, NEW e \in Nat, NEW d \in Nat,
         k <= e, k <= d, Agree(u, v, s, k),
         NEW f, NEW g, SumsUp(f, u, s, e), SumsUp(g, v, s, d)
  PROVE  Agree(f, g, s, k)
<1> DEFINE S == {t \in Nat : t \in s..k => f[t] = g[t]}
<1>1. \A t \in s..k : /\ f[t] = u[t] + (IF t = s THEN 0 ELSE f[t - 1])
                      /\ g[t] = u[t] + (IF t = s THEN 0 ELSE g[t - 1])
  BY DEF SumsUp, Agree
<1>2. 0 \in S
  <2>1. 0 \in s..k => s = 0
    OBVIOUS
  <2> QED
    BY <1>1, <2>1
<1>3. ASSUME NEW t \in S PROVE t + 1 \in S
  <2> DEFINE n == t + 1
  <2>1. n \in Nat /\ n - 1 = t /\ (n \in s..k => n = s \/ t \in s..k)
    OBVIOUS
  <2>2. t \in s..k => f[t] = g[t]
    OBVIOUS
  <2> HIDE DEF n
  <2>3. n \in s..k => f[n] = g[n]
    BY <1>1, <2>1, <2>2
  <2> QED
    BY <2>1, <2>3 DEF n
<1>4. S \in SUBSET Nat
  OBVIOUS
<1> HIDE DEF S
<1>5. \A t \in s..k : t \in S
  BY <1>2, <1>3, <1>4, InductionOnNat
<1> QED
  BY <1>5 DEF S, Agree

LEMMA SumStart ==
  ASSUME NEW u, NEW s \in Nat, u[s] \in Int
  PROVE  SumOf(u, s, s) = u[s]
<1>1. PICK f : SumsUp(f, u, s, s) /\ SumOf(u, s, s) = f[s]
  BY SumSums
<1>2. f[s] = u[s] + 0
  BY <1>1 DEF SumsUp
<1> QED
  BY <1>1, <1>2

\* A sum adds its last summand to the sum of the others.
LEMMA SumNext ==
  ASSUME NEW u, NEW s \in Nat, NEW e \in Nat, s <= e
  PROVE  SumOf(u, s, e + 1) = u[e + 1] + SumOf(u, s, e)
<1>1. PICK f : SumsUp(f, u, s, e) /\ SumOf(u, s, e) = f[e]
  BY SumSums
<1> DEFINE n == e + 1
<1>2. n \in Nat /\ s <= n /\ n # s /\ n - 1 = e /\ e <= n /\ e <= e /\ n \in s..n
  OBVIOUS
<1> HIDE DEF n
<1>3. PICK g : SumsUp(g, u, s, n) /\ SumOf(u, s, n) = g[n]
  BY <1>2, SumSums
<1>4. Agree(u, u, s, e)
  BY DEF Agree
<1>5. Agree(f, g, s, e)
  BY <1>1, <1>2, <1>3, <1>4, SumsAgree
<1>6. f[e] = g[e]
  BY <1>5 DEF Agree
<1>7. g[n] = u[n] + g[e]
  BY <1>2, <1>3 DEF SumsUp
<1> QED
  BY <1>1, <1>3, <1>6, <1>7 DEF n

LEMMA SumSame ==
  ASSUME NEW u, NEW v, NEW s \in Nat, NEW e \in Nat, s <= e, Agree(u, v, s, e)
  PROVE  SumOf(u, s, e) = SumOf(v, s, e)
<1>1. PICK f : SumsUp(f, u, s, e) /\ SumOf(u, s, e) = f[e]
  BY SumSums
<1>2. PICK g : SumsUp(g, v, s, e) /\ SumOf(v, s, e) = g[e]
  BY SumSums
<1>3. e <= e /\ e \in s..e
  OBVIOUS
<1>4. Agree(f, g, s, e)
  BY <1>1, <1>2, <1>3, SumsAgree
<1> QED
  BY <1>1, <1>2, <1>3, <1>4 DEF Agree

LEMMA SumNat ==
  ASSUME NEW u, NEW s \in Nat, NEW e \in Nat, s <= e, \A t \in s..e : u[t] \in Nat
  PROVE  SumOf(u, s, e) \in Nat
<1>1. PICK f : SumsUp(f, u, s, e) /\ SumOf(u, s, e) = f[e]
  BY SumSums
<1> DEFINE S == {t \in Nat : t \in s..e => f[t] \in Nat}
<1>2. \A t \in s..e : f[t] = u[t] + (IF t = s THEN 0 ELSE f[t - 1])
  BY <1>1 DEF SumsUp
<1>3. 0 \in S
  <2>1. 0 \in s..e => s = 0
    OBVIOUS
  <2> QED
    BY <1>2, <2>1
<1>4. ASSUME NEW t \in S PROVE t + 1 \in S
  <2> DEFINE n == t + 1
  <2>1. n \in Nat /\ n - 1 = t /\ (n \in s..e => n = s \/ t \in s..e)
    OBVIOUS
  <2>2. t \in s..e => f[t] \in Nat
    OBVIOUS
  <2> HIDE DEF n
  <2>3. n \in s..e => f[n] \in Nat
    BY <1>2, <2>1, <2>2
  <2> QED
    BY <2>1, <2>3 DEF n
<1>5. S \in SUBSET Nat
  OBVIOUS
<1>6. e \in s..e
  OBVIOUS
<1> HIDE DEF S
<1>7. e \in S
  BY <1>3, <1>4, <1>5, InductionOnNat
<1> QED
  BY <1>1, <1>6, <1>7 DEF S

\* v holds what u holds up to e, and one more at e.
OneMoreAt(v, u, s, e) == v[e] = u[e] + 1 /\ \A t \in s..(e - 1) : v[t] = u[t]

\* One more at the end is one more in total.
LEMMA SumOneMore ==
  ASSUME NEW u, NEW v, NEW s \in Nat, NEW e \in Nat, s <= e,
         \A t \in s..e : u[t] \in Nat, OneMoreAt(v, u, s, e)
  PROVE  SumOf(v, s, e) = SumOf(u, s, e) + 1
<1>1. u[e] \in Nat /\ v[e] = u[e] + 1
  BY DEF OneMoreAt
<1>2. CASE s = e
  BY <1>1, <1>2, SumStart
<1>3. CASE s # e
  <2> DEFINE d == e - 1
  <2>1. d \in Nat /\ s <= d /\ d + 1 = e /\ \A t \in s..d : t \in s..e
    BY <1>3
  <2>2. Agree(u, v, s, d)
    BY DEF OneMoreAt, Agree
  <2> HIDE DEF d
  <2>3. SumOf(u, s, d) = SumOf(v, s, d)
    BY <2>1, <2>2, SumSame
  <2>4. SumOf(u, s, d) \in Nat
    BY <2>1, SumNat
  <2>5. SumOf(u, s, e) = u[e] + SumOf(u, s, d) /\ SumOf(v, s, e) = v[e] + SumOf(v, s, d)
    BY <2>1, SumNext
  <2> QED
    BY <1>1, <2>3, <2>4, <2>5
<1> QED
  BY <1>2, <1>3

-----------------------------------------------------------------------------
(* The rate. What was let through and what is left in the bucket never      *)
(* exceed the bursts and the refill of one limit.                           *)

\* While the limit stays what it is, every context and the bucket go by it.
OneLimit ==
    /\ \A r \in Requests : pc[r] \in {"found", "stamped"} => found[r].limit = limit
    /\ \A k \in Keys : cache[k] # None => cache[k].ctx.limit = limit
    /\ bucket # None => bucket.capacity = limit

Left == IF bucket = None THEN limit * MINUTE ELSE Level(bucket)

NothingLater == \A t \in Ticks : t > now => granted[t] = 0

WithinBudget ==
    \A s \in 0..now :
        MINUTE * GrantedIn(s, now) + Left <= limit * (MINUTE * (1 + restarts) + (now - s))

RateInv ==
    /\ restarts \in Nat /\ limitChanges \in Nat
    /\ NothingLater
    /\ limitChanges = 0 => OneLimit /\ WithinBudget

LEMMA GrantedInIsSum == \A s, e : GrantedIn(s, e) = SumOf(granted, s, e)
  BY DEF GrantedIn, SumOf

\* The numbers of a state.
LEMMA Numbers ==
  ASSUME TypeOK
  PROVE  /\ now \in Nat /\ now \in Ticks /\ limit \in Nat \ {0}
         /\ \A s \in 0..now : s \in Nat /\ s <= now
         /\ \A s \in 0..now : \A t \in s..now : t \in Ticks /\ granted[t] \in Nat
<1>1. now \in Ticks /\ limit \in Limits /\ granted \in [Ticks -> Nat]
  BY DEF TypeOK
<1>2. now \in Nat /\ now <= MaxTime
  BY <1>1 DEF Ticks
<1>3. \A s \in 0..now : \A t \in s..now : t \in Ticks
  BY <1>2 DEF Ticks
<1> QED
  BY <1>1, <1>2, <1>3

\* What a request takes its token from holds what is left.
LEMMA BucketForLeft ==
  ASSUME TypeOK, BucketAge, OneLimit, NEW ctx \in Context, ctx.limit = limit
  PROVE  /\ BucketFor(ctx.limit).capacity = limit
         /\ Level(BucketFor(ctx.limit)) = Left
<1>1. now \in Nat /\ limit \in Nat
  BY Numbers
<1>2. CASE bucket = None
  <2>1. BucketFor(ctx.limit) = FullBucket(limit)
    BY <1>2 DEF BucketFor
  <2>2. Level(FullBucket(limit)) = limit * MINUTE
    <3>1. Level(FullBucket(limit)) = Smaller(limit * MINUTE, limit * MINUTE + (now - now) * limit)
      BY DEF Level, FullBucket
    <3>2. limit * MINUTE \in Nat /\ (now - now) * limit = 0
      BY <1>1
    <3> QED
      BY <3>1, <3>2 DEF Smaller
  <2> QED
    BY <1>2, <2>1, <2>2 DEF Left, FullBucket
<1>3. CASE bucket # None
  <2>1. bucket.capacity = limit
    BY <1>3 DEF OneLimit
  <2>2. BucketFor(ctx.limit) = bucket
    BY <1>3, <2>1 DEF BucketFor
  <2> QED
    BY <1>3, <2>1, <2>2 DEF Left
<1> QED
  BY <1>2, <1>3

\* A bucket never holds more than its burst, and a take leaves what it found or
\* a token less.
LEMMA TakeLeaves ==
  ASSUME TypeOK, NEW b \in Bucket, b.updated <= now, Take(b), now' = now
  PROVE  /\ bucket' # None /\ bucket'.capacity = b.capacity
         /\ \/ /\ granted' = [granted EXCEPT ![now] = @ + 1]
               /\ Level(bucket)' = Level(b) - MINUTE
            \/ granted' = granted /\ Level(bucket)' = Level(b)
<1>1. now \in Nat /\ now \in Ticks
  BY Numbers
<1>2. Level(b) \in Nat /\ b.capacity \in Nat \ {0}
  BY <1>1, LevelNat DEF Bucket
<1>3. bucket' # None
  <2>1. bucket' \in Bucket
    BY TakeTyped
  <2> QED
    BY <2>1, NoneAssumption DEF Bucket, Ticks
<1>4. Level(b) <= b.capacity * MINUTE /\ b.capacity * MINUTE \in Nat
  <2> DEFINE x == b.capacity * MINUTE  y == b.tokens + (now - b.updated) * b.capacity
  <2>1. x \in Nat /\ y \in Int
    BY <1>1, <1>2 DEF Bucket, Ticks
  <2>2. Level(b) = Smaller(x, y)
    BY DEF Level
  <2> HIDE DEF x, y
  <2>3. Level(b) <= x
    BY <2>1, <2>2 DEF Smaller
  <2> QED
    BY <2>1, <2>3 DEF x
<1>5. ASSUME NEW x \in Int, x <= Level(b),
             bucket' = [b EXCEPT !.tokens = x, !.updated = now]
      PROVE  bucket'.capacity = b.capacity /\ Level(bucket)' = x
  <2>1. bucket'.capacity = b.capacity /\ bucket'.tokens = x /\ bucket'.updated = now
    BY <1>5 DEF Bucket
  <2>2. Level(bucket)' = Smaller(b.capacity * MINUTE, x + (now - now) * b.capacity)
    BY <2>1 DEF Level
  <2>3. (now - now) * b.capacity = 0
    BY <1>1, <1>2
  <2>4. x <= b.capacity * MINUTE
    BY <1>2, <1>4, <1>5
  <2> QED
    BY <1>4, <2>1, <2>2, <2>3, <2>4 DEF Smaller
<1>6. CASE Level(b) >= MINUTE
  <2>1. Level(b) - MINUTE \in Int /\ Level(b) - MINUTE <= Level(b)
    BY <1>2
  <2>2. /\ bucket' = [b EXCEPT !.tokens = Level(b) - MINUTE, !.updated = now]
        /\ granted' = [granted EXCEPT ![now] = granted[now] + 1]
    BY <1>2, <1>6 DEF Take
  <2>3. bucket'.capacity = b.capacity /\ Level(bucket)' = Level(b) - MINUTE
    BY <1>5, <2>1, <2>2
  <2> QED
    BY <1>3, <2>2, <2>3
<1>7. CASE ~(Level(b) >= MINUTE)
  <2>1. Level(b) \in Int /\ Level(b) <= Level(b)
    BY <1>2
  <2>2. /\ bucket' = [b EXCEPT !.tokens = Level(b), !.updated = now]
        /\ granted' = granted
    BY <1>2, <1>7 DEF Take
  <2>3. bucket'.capacity = b.capacity /\ Level(bucket)' = Level(b)
    BY <1>5, <2>1, <2>2
  <2> QED
    BY <1>3, <2>2, <2>3
<1> QED
  BY <1>6, <1>7

\* A decision spends what it lets through.
LEMMA DecisionWithinBudget ==
  ASSUME TypeOK, BucketAge, OneLimit, WithinBudget, restarts \in Nat,
         NEW ctx \in Context, ctx.limit = limit, Take(BucketFor(ctx.limit)),
         UNCHANGED <<now, limit, restarts>>
  PROVE  /\ bucket' # None /\ bucket'.capacity = limit
         /\ \A t \in Ticks : t > now => granted'[t] = granted[t]
         /\ WithinBudget'
<1> DEFINE b == BucketFor(ctx.limit)
<1>1. b \in Bucket /\ b.updated <= now /\ b.capacity = limit /\ Level(b) = Left
  BY BucketForTyped, BucketForLeft
<1>2. /\ now \in Nat /\ now \in Ticks /\ granted \in [Ticks -> Nat] /\ Left \in Nat
  BY <1>1, Numbers, LevelNat DEF TypeOK
<1>3. /\ bucket' # None /\ bucket'.capacity = limit
      /\ \/ granted' = [granted EXCEPT ![now] = @ + 1] /\ Left' = Left - MINUTE
         \/ granted' = granted /\ Left' = Left
  <2> HIDE DEF b
  <2>1. /\ bucket' # None /\ bucket'.capacity = b.capacity
        /\ \/ granted' = [granted EXCEPT ![now] = @ + 1] /\ Level(bucket)' = Level(b) - MINUTE
           \/ granted' = granted /\ Level(bucket)' = Level(b)
    BY <1>1, TakeLeaves DEF b
  <2> QED
    BY <1>1, <2>1 DEF Left
<1>4. \A t \in Ticks : t > now => granted'[t] = granted[t]
  BY <1>2, <1>3
<1>5. ASSUME NEW s \in 0..now
      PROVE  MINUTE * SumOf(granted', s, now) + Left' = MINUTE * SumOf(granted, s, now) + Left
  <2>1. s \in Nat /\ s <= now /\ \A t \in s..now : t \in Ticks /\ granted[t] \in Nat
    BY Numbers
  <2>2. SumOf(granted, s, now) \in Nat
    BY <1>2, <2>1, SumNat
  <2>3. CASE granted' = granted /\ Left' = Left
    BY <2>3
  <2>4. CASE granted' = [granted EXCEPT ![now] = @ + 1] /\ Left' = Left - MINUTE
    <3>1. OneMoreAt(granted', granted, s, now)
      BY <1>2, <2>1, <2>4 DEF OneMoreAt
    <3>2. SumOf(granted', s, now) = SumOf(granted, s, now) + 1
      BY <1>2, <2>1, <3>1, SumOneMore
    <3> DEFINE x == SumOf(granted, s, now)
    <3>3. MINUTE * (x + 1) = MINUTE * x + MINUTE /\ MINUTE * x \in Nat
      BY <2>2
    <3> HIDE DEF x
    <3>4. MINUTE * (x + 1) + (Left - MINUTE) = MINUTE * x + Left
      BY <1>2, <3>3
    <3> QED
      BY <2>4, <3>2, <3>4 DEF x
  <2> QED
    BY <1>3, <2>3, <2>4
<1>6. WithinBudget'
  <2> SUFFICES ASSUME NEW s \in 0..now
               PROVE  MINUTE * GrantedIn(s, now)' + Left'
                        <= limit * (MINUTE * (1 + restarts) + (now - s))
    BY DEF WithinBudget
  <2>1. GrantedIn(s, now)' = SumOf(granted', s, now)
    BY DEF GrantedIn, SumOf
  <2>2. GrantedIn(s, now) = SumOf(granted, s, now)
    BY GrantedInIsSum
  <2> QED
    BY <1>5, <2>1, <2>2 DEF WithinBudget
<1> QED
  BY <1>3, <1>4, <1>6

\* A second refills at most one limit.
LEMMA TickWithinBudget ==
  ASSUME TypeOK, BucketAge, OneLimit, NothingLater, WithinBudget, restarts \in Nat, Tick
  PROVE  WithinBudget'
<1>1. /\ now' = now + 1 /\ now' \in Ticks
      /\ bucket' = bucket /\ granted' = granted /\ limit' = limit /\ restarts' = restarts
  BY Numbers DEF Tick, tables, history, Ticks
<1>2. now \in Nat /\ now \in Ticks /\ limit \in Nat \ {0} /\ granted \in [Ticks -> Nat]
  BY Numbers DEF TypeOK
<1>3. granted[now'] = 0
  BY <1>1, <1>2 DEF NothingLater
<1>4. Left \in Int /\ Left' \in Int /\ Left' <= Left + limit /\ Left' <= limit * MINUTE
  <2>1. CASE bucket = None
    BY <1>1, <1>2, <2>1 DEF Left
  <2>2. CASE bucket # None
    <3>1. bucket \in Bucket /\ bucket.capacity = limit
      BY <2>2 DEF TypeOK, OneLimit
    <3> DEFINE x == limit * MINUTE
               y == bucket.tokens + (now - bucket.updated) * limit
    <3>2. x \in Int /\ y \in Int /\ bucket.tokens \in Nat /\ now - bucket.updated \in Int
      BY <1>2, <3>1 DEF Bucket, Ticks
    <3>3. Left = Smaller(x, y)
      BY <2>2, <3>1 DEF Left, Level
    <3>4. Left' = Smaller(x, bucket.tokens + (now' - bucket.updated) * limit)
      BY <1>1, <2>2, <3>1 DEF Left, Level
    <3>5. bucket.tokens + (now' - bucket.updated) * limit = y + limit
      <4>1. bucket.updated \in Nat
        BY <3>1 DEF Bucket, Ticks
      <4>2. \A d \in Int : (d + 1) * limit = d * limit + limit
        BY <1>2
      <4>3. now' - bucket.updated = (now - bucket.updated) + 1
        BY <1>1, <1>2, <4>1
      <4>4. (now - bucket.updated) * limit \in Int
        BY <1>2, <4>1
      <4> QED
        BY <1>2, <3>2, <4>2, <4>3, <4>4
    <3> HIDE DEF x, y
    <3>6. Left \in Int /\ Left' \in Int /\ Left' <= Left + limit /\ Left' <= x
      BY <1>2, <3>2, <3>3, <3>4, <3>5 DEF Smaller
    <3> QED
      BY <3>6 DEF x
  <2> QED
    BY <2>1, <2>2
<1>5. WithinBudget'
  <2> SUFFICES ASSUME NEW s \in 0..now'
               PROVE  MINUTE * GrantedIn(s, now)' + Left'
                        <= limit * (MINUTE * (1 + restarts) + (now' - s))
    BY <1>1 DEF WithinBudget
  <2>1. GrantedIn(s, now)' = SumOf(granted, s, now')
    BY <1>1 DEF GrantedIn, SumOf
  <2>2. CASE s = now'
    <3>1. GrantedIn(s, now)' = 0
      BY <1>1, <1>2, <1>3, <2>1, <2>2, SumStart
    <3> DEFINE r == MINUTE * (1 + restarts)
    <3>2. r \in Nat /\ r >= MINUTE
      BY <1>2
    <3> HIDE DEF r
    <3>3. limit * r >= limit * MINUTE /\ limit * r \in Nat
      BY <1>2, <3>2
    <3>4. r + (now' - s) = r
      BY <1>1, <1>2, <2>2, <3>2
    <3>5. MINUTE * 0 + Left' <= limit * r
      BY <1>2, <1>4, <3>3
    <3> QED
      BY <3>1, <3>4, <3>5 DEF r
  <2>3. CASE s # now'
    <3>1. s \in 0..now /\ s \in Nat /\ s <= now
      BY <1>1, <1>2, <2>3
    <3>2. SumOf(granted, s, now') = SumOf(granted, s, now)
      <4>1. SumOf(granted, s, now + 1) = granted[now + 1] + SumOf(granted, s, now)
        BY <1>2, <3>1, SumNext
      <4>2. SumOf(granted, s, now) \in Nat
        <5>1. \A t \in s..now : granted[t] \in Nat
          BY <3>1, Numbers
        <5> QED
          BY <1>2, <3>1, <5>1, SumNat
      <4> QED
        BY <1>1, <1>3, <4>1, <4>2
    <3>3. MINUTE * GrantedIn(s, now) + Left <= limit * (MINUTE * (1 + restarts) + (now - s))
      BY <3>1 DEF WithinBudget
    <3>4. GrantedIn(s, now) = SumOf(granted, s, now) /\ SumOf(granted, s, now) \in Nat
      <4>1. \A t \in s..now : granted[t] \in Nat
        BY <3>1, Numbers
      <4> QED
        BY <1>2, <3>1, <4>1, SumNat, GrantedInIsSum
    <3> DEFINE g == MINUTE * SumOf(granted, s, now)
               r == MINUTE * (1 + restarts) + (now - s)
    <3>5. g \in Int /\ r \in Int
      BY <1>2, <3>1, <3>4
    <3>6. r + 1 = MINUTE * (1 + restarts) + (now' - s)
      BY <1>1, <1>2, <3>1
    <3> HIDE DEF r
    <3>7. limit * (r + 1) = limit * r + limit /\ limit * r \in Int
      BY <1>2, <3>5
    <3>8. g + Left <= limit * r
      BY <3>3, <3>4 DEF r
    <3> HIDE DEF g
    <3>9. g + Left' <= limit * (r + 1)
      <4> DEFINE p == limit * r  q == limit * (r + 1)
      <4>1. p \in Int /\ q = p + limit /\ g + Left <= p
        BY <3>7, <3>8
      <4>2. /\ g \in Int /\ limit \in Int /\ Left \in Int /\ Left' \in Int
            /\ Left' <= Left + limit
        BY <1>2, <1>4, <3>5
      <4> HIDE DEF p, q
      <4>3. \A i, j, k, l, m \in Int : i + j <= k /\ l <= j + m => i + l <= k + m
        OBVIOUS
      <4>4. g + Left' <= p + limit
        BY <4>1, <4>2, <4>3
      <4>5. g + Left' <= q
        BY <4>1, <4>4
      <4> QED
        BY <4>5 DEF q
    <3> QED
      BY <2>1, <3>2, <3>6, <3>9 DEF g
  <2> QED
    BY <2>2, <2>3
<1> QED
  BY <1>5

\* A restart fills the bucket: one burst.
LEMMA RestartWithinBudget ==
  ASSUME TypeOK, BucketAge, WithinBudget, restarts \in Nat, Restart
  PROVE  WithinBudget'
<1>1. /\ now' = now /\ bucket' = None /\ granted' = granted /\ limit' = limit
      /\ restarts' = restarts + 1
  BY DEF Restart, history
<1>2. now \in Nat /\ now \in Ticks /\ limit \in Nat \ {0}
  BY Numbers
<1>3. Left \in Nat
  <2>1. bucket # None => bucket \in Bucket /\ bucket.updated <= now
    BY DEF TypeOK, BucketAge
  <2> QED
    BY <1>2, <2>1, LevelNat DEF Left
<1> SUFFICES ASSUME NEW s \in 0..now
             PROVE  MINUTE * GrantedIn(s, now)' + Left'
                      <= limit * (MINUTE * (1 + (restarts + 1)) + (now - s))
  BY <1>1 DEF WithinBudget
<1>4. GrantedIn(s, now)' = SumOf(granted, s, now) /\ GrantedIn(s, now) = SumOf(granted, s, now)
  BY <1>1, GrantedInIsSum DEF GrantedIn, SumOf
<1>5. SumOf(granted, s, now) \in Nat
  <2>1. s \in Nat /\ s <= now /\ \A t \in s..now : granted[t] \in Nat
    BY Numbers
  <2> QED
    BY <1>2, <2>1, SumNat
<1> DEFINE g == MINUTE * SumOf(granted, s, now)
           r == MINUTE * (1 + restarts) + (now - s)
<1>6. g \in Nat /\ r \in Int /\ r + MINUTE = MINUTE * (1 + (restarts + 1)) + (now - s)
  <2>1. MINUTE * (1 + (restarts + 1)) = MINUTE * (1 + restarts) + MINUTE
        /\ MINUTE * (1 + restarts) \in Nat
    OBVIOUS
  <2> QED
    BY <1>2, <1>5, <2>1
<1>7. g + Left <= limit * r
  BY <1>4 DEF WithinBudget
<1> HIDE DEF g, r
<1>8. limit * (r + MINUTE) = limit * r + limit * MINUTE /\ limit * r \in Int /\ limit * MINUTE \in Int
  BY <1>2, <1>6
<1>9. g + limit * MINUTE <= limit * (r + MINUTE)
  BY <1>3, <1>6, <1>7, <1>8
<1>10. Left' = limit * MINUTE
  BY <1>1 DEF Left
<1> QED
  BY <1>4, <1>6, <1>9, <1>10 DEF g

\* Until the limit changes, all that is cached, fetched and counted goes by it.
LEMMA OneLimitKept ==
  ASSUME IInv, OneLimit, [Next]_vars, limitChanges \in Nat, limitChanges' = limitChanges
  PROVE  limit' = limit /\ OneLimit'
<1>1. TypeOK /\ BucketAge /\ FetchedBacked /\ now' \in Ticks
  BY PastGrows DEF IInv
<1>2. \A l \in Limits : ~SetLimits(l)
  BY DEF SetLimits
<1>3. limit' = limit
  BY <1>2 DEF Next, vars, tables, Hit, Arrive, LookUp, StampKey, Finish, RequestFails, NewKey,
              RevokeKey, SetStatus, ImportCommand, Command, Restart, Tick
<1>4. \A r \in Requests : pc'[r] \in {"found", "stamped"} => found'[r].limit = limit
  <2>1. ASSUME NEW q \in Requests, Leave(q), NEW r \in Requests, pc'[r] \in {"found", "stamped"}
        PROVE  found'[r].limit = limit
    <3>1. pc'[r] = pc[r] /\ found'[r] = found[r]
      BY <1>1, <2>1, LeaveTyped
    <3> QED
      BY <2>1, <3>1 DEF OneLimit
  <2>2. ASSUME NEW q \in Requests, LookUp(q), ~Leave(q),
               NEW r \in Requests, pc'[r] \in {"found", "stamped"}
        PROVE  found'[r].limit = limit
    <3>1. /\ pc' = [pc EXCEPT ![q] = "found"]
          /\ found' = [found EXCEPT ![q] = [status |-> status, limit |-> limit]]
      BY <2>2 DEF LookUp
    <3>2. CASE r = q
      BY <1>1, <3>1, <3>2 DEF TypeOK
    <3>3. CASE r # q
      BY <1>1, <2>2, <3>1, <3>3 DEF TypeOK, OneLimit
    <3> QED
      BY <3>2, <3>3
  <2>3. ASSUME NEW q \in Requests, StampKey(q) PROVE pc[q] = "found" /\ found' = found
                                                   /\ pc' = [pc EXCEPT ![q] = "stamped"]
    BY <2>3 DEF StampKey
  <2>4. ASSUME NEW q \in Requests, NEW k \in Keys, Arrive(q, k)
        PROVE  found' = found /\ pc' = [pc EXCEPT ![q] = "asking"]
    BY <2>4 DEF Arrive
  <2>5. CASE Restart
    BY <2>5 DEF Restart
  <2>6. CASE UNCHANGED request
    BY <2>6 DEF request, OneLimit
  <2>7. \/ UNCHANGED request \/ Restart
        \/ \E q \in Requests : Leave(q) \/ LookUp(q) \/ StampKey(q) \/ \E k \in Keys : Arrive(q, k)
    BY DEF Next, vars, Hit, Finish, RequestFails, NewKey, RevokeKey, SetStatus, SetLimits,
           ImportCommand, Command, Tick
  <2>8. CASE \E q \in Requests : Leave(q)
    BY <2>1, <2>8
  <2>9. CASE \E q \in Requests : LookUp(q)
    BY <2>1, <2>2, <2>9
  <2>10. CASE \E q \in Requests : StampKey(q)
    BY <1>1, <2>3, <2>10 DEF TypeOK, OneLimit
  <2>11. CASE \E q \in Requests : \E k \in Keys : Arrive(q, k)
    BY <1>1, <2>4, <2>11 DEF TypeOK, OneLimit
  <2> QED
    BY <2>5, <2>6, <2>7, <2>8, <2>9, <2>10, <2>11
<1>5. \A k \in Keys : cache'[k] # None => cache'[k].ctx.limit = limit
  <2>1. ASSUME NEW r \in Requests, Finish(r), NEW k \in Keys, cache'[k] # None
        PROVE  cache'[k].ctx.limit = limit
    <3>1. /\ pc[r] = "stamped"
          /\ cache' = [cache EXCEPT ![key[r]] =
                          [ctx |-> found[r], until |-> arrived[r] + CACHE_TTL_SECONDS]]
      BY <2>1 DEF Finish, Remember
    <3>2. found[r].limit = limit
      BY <3>1 DEF OneLimit
    <3>3. CASE k = key[r]
      BY <1>1, <3>1, <3>2, <3>3 DEF TypeOK
    <3>4. CASE k # key[r]
      BY <1>1, <2>1, <3>1, <3>4 DEF TypeOK, OneLimit
    <3> QED
      BY <3>3, <3>4
  <2>2. CASE cache' = [k \in Keys |-> None]
    BY <2>2
  <2>3. CASE cache' = cache
    BY <2>3 DEF OneLimit
  <2>4. cache' = cache \/ cache' = [k \in Keys |-> None] \/ \E r \in Requests : Finish(r)
    BY DEF Next, vars, Hit, Arrive, LookUp, StampKey, RequestFails, NewKey, RevokeKey, SetStatus,
           SetLimits, ImportCommand, Command, Restart, Tick
  <2> QED
    BY <2>1, <2>2, <2>3, <2>4
<1>6. bucket' # None => bucket'.capacity = limit
  <2>1. ASSUME NEW ctx \in Context, ctx.limit = limit, Take(BucketFor(ctx.limit)), now' = now
        PROVE  bucket'.capacity = limit
    <3>1. BucketFor(ctx.limit) \in Bucket /\ BucketFor(ctx.limit).updated <= now
      BY <1>1, <2>1, BucketForTyped
    <3>2. BucketFor(ctx.limit).capacity = limit
      BY <1>1, <2>1, BucketForLeft
    <3> QED
      BY <1>1, <2>1, <3>1, <3>2, TakeLeaves
  <2>2. CASE UNCHANGED <<bucket, granted, retryAt>>
    BY <2>2 DEF OneLimit
  <2>3. CASE Restart
    BY <2>3 DEF Restart
  <2>4. ASSUME NEW k \in Keys, NEW ctx \in Context, Hit(k), ctx = cache[k].ctx
        PROVE  ctx.limit = limit /\ now' = now
    BY <2>4 DEF Hit, Fresh, OneLimit, env
  <2>5. ASSUME NEW r \in Requests, NEW ctx \in Context, Finish(r), ctx = found[r]
        PROVE  ctx.limit = limit /\ now' = now
    BY <2>5 DEF Finish, OneLimit, env
  <2> QED
    BY <2>1, <2>2, <2>3, <2>4, <2>5, BucketSteps
<1> QED
  BY <1>3, <1>4, <1>5, <1>6 DEF OneLimit

LEMMA InitRateInv == Init => RateInv
<1> SUFFICES ASSUME Init PROVE RateInv
  OBVIOUS
<1>1. /\ TypeOK /\ now = 0 /\ restarts = 0 /\ limitChanges = 0 /\ bucket = None
      /\ granted = [t \in Ticks |-> 0]
  BY InitIInv DEF Init, IInv
<1>2. OneLimit
  BY DEF Init, OneLimit
<1>3. WithinBudget
  <2> SUFFICES ASSUME NEW s \in 0..now
               PROVE  MINUTE * GrantedIn(s, now) + Left <= limit * (MINUTE * (1 + restarts) + (now - s))
    BY DEF WithinBudget
  <2>1. s = 0 /\ limit \in Nat /\ granted[0] = 0
    BY <1>1, Numbers DEF Ticks
  <2>2. GrantedIn(s, now) = 0
    BY <1>1, <2>1, GrantedInIsSum, SumStart
  <2>3. Left = limit * MINUTE
    BY <1>1 DEF Left
  <2>4. MINUTE * (1 + restarts) + (now - s) = MINUTE
    BY <1>1, <2>1
  <2>5. limit * MINUTE \in Nat
    BY <2>1
  <2> QED
    BY <2>2, <2>3, <2>4, <2>5
<1> QED
  BY <1>1, <1>2, <1>3 DEF RateInv, NothingLater

LEMMA NextRateInv == IInv /\ RateInv /\ [Next]_vars => RateInv'
<1> SUFFICES ASSUME IInv, RateInv, [Next]_vars PROVE RateInv'
  OBVIOUS
<1>1. /\ TypeOK /\ BucketAge /\ NothingLater /\ restarts \in Nat /\ limitChanges \in Nat
      /\ now \in Nat /\ now \in Ticks /\ granted \in [Ticks -> Nat]
  BY Numbers DEF IInv, RateInv, TypeOK
<1>2. restarts' \in Nat /\ limitChanges' \in Nat /\ (limitChanges' = limitChanges \/ limitChanges' # 0)
  <2>1. \/ UNCHANGED <<restarts, limitChanges>>
        \/ restarts' = restarts + 1 /\ limitChanges' = limitChanges
        \/ restarts' = restarts /\ limitChanges' = limitChanges + 1
    BY DEF Next, vars, env, Hit, Arrive, LookUp, StampKey, Finish, RequestFails, NewKey, RevokeKey,
           SetStatus, SetLimits, ImportCommand, Command, Restart, Tick
  <2> QED
    BY <1>1, <2>1
<1>3. now' \in Ticks /\ now <= now'
  BY <1>1, PastGrows DEF IInv
<1>4. NothingLater'
  <2>1. CASE UNCHANGED granted
    <3>1. \A t \in Ticks : t > now' => t > now
      BY <1>1, <1>3 DEF Ticks
    <3> QED
      BY <2>1, <3>1, <1>1 DEF NothingLater
  <2>2. ASSUME NEW ctx \in Context, Take(BucketFor(ctx.limit)) PROVE NothingLater'
    <3>1. granted' = granted \/ granted' = [granted EXCEPT ![now] = granted[now] + 1]
      BY <2>2 DEF Take
    <3>2. ASSUME NEW t \in Ticks, t > now' PROVE t > now /\ t # now
      BY <1>1, <1>3, <3>2 DEF Ticks
    <3> QED
      BY <1>1, <3>1, <3>2 DEF NothingLater
  <2>3. Restart => UNCHANGED granted
    BY DEF Restart, history
  <2> QED
    BY <2>1, <2>2, <2>3, BucketSteps
<1>5. ASSUME limitChanges' = 0 PROVE OneLimit' /\ WithinBudget'
  <2>1. limitChanges = 0 /\ limitChanges' = limitChanges /\ OneLimit /\ WithinBudget
    BY <1>2, <1>5 DEF RateInv
  <2>2. limit' = limit /\ OneLimit'
    BY <1>1, <2>1, OneLimitKept
  <2>3. CASE Tick
    BY <1>1, <2>1, <2>2, <2>3, TickWithinBudget
  <2>4. CASE Restart
    BY <1>1, <2>1, <2>2, <2>4, RestartWithinBudget
  <2>5. CASE UNCHANGED <<bucket, granted, retryAt>> /\ ~Tick /\ ~Restart
    <3>1. UNCHANGED <<now, restarts>>
      BY <2>5 DEF Next, vars, env, Hit, Arrive, LookUp, StampKey, Finish, RequestFails, NewKey,
                  RevokeKey, SetStatus, SetLimits, ImportCommand, Command
    <3>2. Left' = Left
      BY <2>2, <2>5, <3>1 DEF Left, Level
    <3>3. \A s : GrantedIn(s, now)' = GrantedIn(s, now)
      BY <2>5, <3>1 DEF GrantedIn
    <3> QED
      BY <2>1, <2>2, <3>1, <3>2, <3>3 DEF WithinBudget
  <2>6. ASSUME NEW ctx \in Context, ctx.limit = limit, Take(BucketFor(ctx.limit)),
               UNCHANGED <<now, restarts>>
        PROVE  WithinBudget'
    BY <1>1, <2>1, <2>2, <2>6, DecisionWithinBudget
  <2>7. ASSUME NEW k \in Keys, NEW ctx \in Context, Hit(k), ctx = cache[k].ctx
        PROVE  ctx.limit = limit /\ UNCHANGED <<now, restarts>>
    BY <2>1, <2>7 DEF Hit, Fresh, OneLimit, env
  <2>8. ASSUME NEW r \in Requests, NEW ctx \in Context, Finish(r), ctx = found[r]
        PROVE  ctx.limit = limit /\ UNCHANGED <<now, restarts>>
    BY <2>1, <2>8 DEF Finish, OneLimit, env
  <2> QED
    BY <2>2, <2>3, <2>4, <2>5, <2>6, <2>7, <2>8, BucketSteps
<1> QED
  BY <1>2, <1>4, <1>5 DEF RateInv

HasHighest(T) == T = {} \/ \E l \in T : \A m \in T : m <= l

LEMMA FiniteHasHighest ==
  ASSUME NEW T \in SUBSET Nat, IsFiniteSet(T)
  PROVE  HasHighest(T)
<1> DEFINE S == {n \in Nat : \A U \in SUBSET Nat :
                               IsFiniteSet(U) /\ Cardinality(U) = n => HasHighest(U)}
<1>1. 0 \in S
  BY FS_EmptySet DEF HasHighest
<1>2. ASSUME NEW n \in S PROVE n + 1 \in S
  <2> SUFFICES ASSUME NEW U \in SUBSET Nat, IsFiniteSet(U), Cardinality(U) = n + 1
               PROVE  HasHighest(U)
    OBVIOUS
  <2>1. CASE U = {}
    BY <2>1 DEF HasHighest
  <2>2. CASE U # {}
    <3>1. PICK x \in U : TRUE
      BY <2>2
    <3> DEFINE V == U \ {x}
    <3>2. V \in SUBSET Nat /\ IsFiniteSet(V) /\ Cardinality(V) = n
      <4>1. IsFiniteSet(V) /\ Cardinality(V) = Cardinality(U) - 1
        BY <3>1, FS_RemoveElement
      <4> QED
        BY <4>1
    <3>3. HasHighest(V)
      BY <3>2
    <3>4. CASE V = {}
      <4>1. \A m \in U : m = x
        BY <3>4
      <4>2. x \in Nat /\ x <= x
        BY <3>1
      <4> QED
        BY <3>1, <4>1, <4>2 DEF HasHighest
    <3>5. CASE V # {}
      <4>1. PICK l \in V : \A m \in V : m <= l
        BY <3>3, <3>5 DEF HasHighest
      <4>2. CASE x <= l
        <5>1. l \in U /\ \A m \in U : m <= l
          BY <4>1, <4>2
        <5> QED
          BY <5>1 DEF HasHighest
      <4>3. CASE ~(x <= l)
        <5>1. \A m \in V : m \in Nat /\ m <= l
          BY <4>1
        <5>2. x \in U /\ \A m \in U : m <= x
          BY <3>1, <4>3, <5>1
        <5> QED
          BY <5>2 DEF HasHighest
      <4> QED
        BY <4>2, <4>3
    <3> QED
      BY <3>4, <3>5
  <2> QED
    BY <2>1, <2>2
<1> HIDE DEF S
<1>3. Nat \subseteq S
  BY <1>1, <1>2, InductionOnNat DEF S
<1>4. Cardinality(T) \in Nat
  BY FS_CardinalityType
<1> QED
  BY <1>3, <1>4 DEF S

\* In every interval at most the burst and the refill of a bucket get through,
\* plus one burst for each restart, while the limit stays what it is: for any
\* limits, any minute and any clock (ratelimit.py 20-44).
THEOREM RateHolds == Spec => []RateHeld
<1>1. IInv /\ RateInv => RateHeld
  <2> SUFFICES ASSUME IInv, RateInv, limitChanges = 0, NEW s \in 0..now
               PROVE  MINUTE * GrantedIn(s, now) <=
                        Highest * (MINUTE * (1 + restarts + limitChanges) + (now - s))
    BY DEF RateHeld, WithinRate
  <2>1. /\ TypeOK /\ BucketAge /\ restarts \in Nat /\ WithinBudget /\ limit \in Limits
        /\ now \in Nat /\ limit \in Nat \ {0}
    BY Numbers DEF IInv, RateInv, TypeOK
  <2>2. Highest \in Limits /\ limit <= Highest
    <3>1. HasHighest(Limits)
      BY FiniteHasHighest
    <3>2. \E l \in Limits : \A m \in Limits : m <= l
      BY <2>1, <3>1 DEF HasHighest
    <3> QED
      BY <2>1, <3>2 DEF Highest
  <2>3. Left \in Nat
    <3>1. bucket # None => bucket \in Bucket /\ bucket.updated <= now
      BY <2>1 DEF TypeOK, BucketAge
    <3>2. limit * MINUTE \in Nat
      BY <2>1
    <3> QED
      BY <2>1, <3>1, <3>2, LevelNat, Numbers DEF Left
  <2>4. GrantedIn(s, now) \in Nat
    <3>1. s \in Nat /\ s <= now /\ \A t \in s..now : granted[t] \in Nat
      BY <2>1, Numbers
    <3> QED
      BY <2>1, <3>1, SumNat, GrantedInIsSum
  <2> DEFINE g == MINUTE * GrantedIn(s, now)
             r == MINUTE * (1 + restarts) + (now - s)
  <2>5. g \in Nat /\ r \in Nat
    <3>1. now - s \in Nat /\ MINUTE * (1 + restarts) \in Nat
      BY <2>1
    <3> QED
      BY <2>4, <3>1
  <2>6. g + Left <= limit * r
    BY <2>1 DEF WithinBudget
  <2>7. MINUTE * (1 + restarts + limitChanges) + (now - s) = r
    BY <2>1
  <2> HIDE DEF g, r
  <2>8. limit * r <= Highest * r /\ limit * r \in Nat /\ Highest * r \in Nat
    <3>1. \A i, j, n \in Nat : i <= j => i * n <= j * n
      OBVIOUS
    <3>2. Highest \in Nat
      BY <2>2
    <3> QED
      BY <2>1, <2>2, <2>5, <3>1, <3>2
  <2> DEFINE p == limit * r  q == Highest * r
  <2>9. p \in Nat /\ q \in Nat /\ p <= q /\ g + Left <= p
    BY <2>6, <2>8
  <2> HIDE DEF p, q
  <2>10. g <= q
    BY <2>3, <2>5, <2>9
  <2> QED
    BY <2>7, <2>10 DEF g, q
<1> QED
  BY <1>1, InitRateInv, NextRateInv, Invariance, PTL DEF Spec
=============================================================================
