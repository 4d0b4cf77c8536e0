---------------------------- MODULE TenantAccess ----------------------------
(***************************************************************************)
(* How a request gets past the door: API keys and their process-local      *)
(* cache (app/core/auth.py), the token bucket of the tenant                *)
(* (app/core/ratelimit.py), and the commands that change what both go by   *)
(* (app/tenants, app/routers/admin.py).                                    *)
(*                                                                         *)
(* One tenant with several keys: tenants share neither cache entries nor   *)
(* buckets.  A request is split where it awaits the database; everything   *)
(* from the write of the cache entry to the bucket runs without a pause.   *)
(***************************************************************************)
EXTENDS Integers, FiniteSets

CONSTANTS
    Keys,
    EnvKeys,            \* keys API_KEYS may list
    Requests,           \* concurrent requests
    Limits,             \* values rpm_limit may take
    None,               \* nothing there
    CACHE_TTL_SECONDS,
    MINUTE,             \* seconds in the (scaled) minute
    MaxTime,            \* bound on the clock: ticks 0..MaxTime, one a second
    MaxCommands,        \* bound on status and key commands
    MaxLimitChanges,    \* bound on set_limits
    MaxRestarts         \* bound on process restarts

ASSUME KeyAssumption == EnvKeys \subseteq Keys
ASSUME LimitAssumption == Limits \subseteq Nat \ {0} /\ IsFiniteSet(Limits)
ASSUME NoneAssumption == None \notin [capacity : Limits, tokens : Nat, updated : Nat]
ASSUME ClockAssumption ==
    /\ CACHE_TTL_SECONDS \in Nat \ {0} /\ MINUTE \in Nat \ {0}
    /\ MaxTime \in Nat /\ MaxCommands \in Nat
    /\ MaxLimitChanges \in Nat /\ MaxRestarts \in Nat

Ticks == 0..MaxTime

VARIABLES
    \* tables api_keys and tenants
    keyStatus,  \* absent, active, revoked
    status,     \* of the tenant: active, suspended
    limit,      \* rpm_limit of the tenant
    lastUsed,   \* last_used_at of each key, None before its first use
    \* the process
    cache,      \* _cache: a context and its expiry, or None
    bucket,     \* the tenant's TokenBucket, or None
    pc, key, arrived, found,  \* each request: where it is, its key, the clock
                              \* it read on arrival, the context it fetched
    \* the environment
    now, commands, limitChanges, restarts,
    \* history
    past,       \* past[t]: what the tables said at some time in tick t
    decision,   \* the last decision made on a context, or None
    granted,    \* granted[t]: requests let through in tick t
    retryAt     \* the time the last refused caller was told to come back at

tables  == <<keyStatus, status, limit, lastUsed>>
request == <<pc, key, arrived, found>>
env     == <<now, commands, limitChanges, restarts>>
history == <<decision, granted, retryAt>>
vars    == <<tables, cache, bucket, request, env, past, history>>

Context == [status : {"active", "suspended"}, limit : Limits]

\* What the tables say, and its record in the current tick.
Tables(ks, s, l) == [keyStatus |-> ks, status |-> s, limit |-> l]
Record == past' = [past EXCEPT ![now] = @ \cup {Tables(keyStatus', status', limit')}]

CeilDiv(a, b) == (a + b - 1) \div b

Smaller(a, b) == IF a < b THEN a ELSE b

-----------------------------------------------------------------------------
(* The token bucket, in units of 1/MINUTE token: a tick refills "capacity"  *)
(* units and a request takes MINUTE units.                                  *)

FullBucket(capacity) ==
    [capacity |-> capacity, tokens |-> capacity * MINUTE, updated |-> now]

\* The bucket the request finds: a new or a changed limit starts a full one.
BucketFor(capacity) ==
    IF bucket = None THEN FullBucket(capacity)
    ELSE IF bucket.capacity # capacity THEN FullBucket(capacity)
    ELSE bucket

Level_Uncapped(b) == b.tokens + (now - b.updated) * b.capacity

Level(b) ==
    Smaller(b.capacity * MINUTE, b.tokens + (now - b.updated) * b.capacity)

Wait_RoundedDown(b) == (MINUTE - Level(b)) \div b.capacity

\* The Retry-After header: whole seconds, rounded up.
Wait(b) == CeilDiv(MINUTE - Level(b), b.capacity)

\* try_take and its caller enforce_rate_limit.
Take(b) ==
    \/ /\ Level(b) >= MINUTE
       /\ bucket' = [b EXCEPT !.tokens = Level(b) - MINUTE, !.updated = now]
       /\ granted' = [granted EXCEPT ![now] = @ + 1]
       /\ retryAt' = None
    \/ /\ Level(b) < MINUTE
       /\ bucket' = [b EXCEPT !.tokens = Level(b), !.updated = now]
       /\ retryAt' = now + Wait(b)
       /\ UNCHANGED granted

-----------------------------------------------------------------------------
Init ==
    /\ keyStatus \in [Keys -> {"absent", "active"}]
    /\ status = "active"
    /\ limit \in Limits
    /\ lastUsed = [k \in Keys |-> None]
    /\ cache = [k \in Keys |-> None]
    /\ bucket = None
    /\ pc = [r \in Requests |-> "idle"]
    /\ key = [r \in Requests |-> None]
    /\ arrived = [r \in Requests |-> 0]
    /\ found = [r \in Requests |-> None]
    /\ now = 0 /\ commands = 0 /\ limitChanges = 0 /\ restarts = 0
    /\ past = [t \in Ticks |-> IF t = 0 THEN {Tables(keyStatus, status, limit)} ELSE {}]
    /\ decision = None
    /\ granted = [t \in Ticks |-> 0]
    /\ retryAt = None

\* The context decides: 403 for a suspended tenant, else the bucket.
Decide(k, arrival, ctx) ==
    /\ decision' = [key |-> k, arrived |-> arrival, ctx |-> ctx]
    /\ \/ /\ ctx.status # "active"
          /\ UNCHANGED <<bucket, granted, retryAt>>
       \/ /\ ctx.status = "active"
          /\ Take(BucketFor(ctx.limit))

\* A request is over; its slot can serve the next one.
Leave(r) ==
    /\ pc' = [pc EXCEPT ![r] = "idle"]
    /\ key' = [key EXCEPT ![r] = None]
    /\ arrived' = [arrived EXCEPT ![r] = 0]
    /\ found' = [found EXCEPT ![r] = None]

\* cached is not None and cached[1] > now
Fresh(k) == cache[k] # None /\ cache[k].until > now

\* A fresh entry decides at once.
Hit(k) ==
    /\ Fresh(k)
    /\ Decide(k, now, cache[k].ctx)
    /\ UNCHANGED <<tables, cache, request, env, past>>

\* Otherwise the request goes to the database.
Arrive(r, k) ==
    /\ pc[r] = "idle"
    /\ ~Fresh(k)
    /\ pc' = [pc EXCEPT ![r] = "asking"]
    /\ key' = [key EXCEPT ![r] = k]
    /\ arrived' = [arrived EXCEPT ![r] = now]
    /\ UNCHANGED <<tables, cache, bucket, found, env, past, history>>

\* One query joins the active key to its tenant; no row is a 401.
LookUp(r) ==
    /\ pc[r] = "asking"
    /\ \/ /\ keyStatus[key[r]] # "active"
          /\ Leave(r)
       \/ /\ keyStatus[key[r]] = "active"
          /\ pc' = [pc EXCEPT ![r] = "found"]
          /\ found' = [found EXCEPT ![r] = [status |-> status, limit |-> limit]]
          /\ UNCHANGED <<key, arrived>>
    /\ UNCHANGED <<tables, cache, bucket, env, past, history>>

\* last_used_at is written and committed.
StampKey(r) ==
    /\ pc[r] = "found"
    /\ lastUsed' = [lastUsed EXCEPT ![key[r]] = now]
    /\ pc' = [pc EXCEPT ![r] = "stamped"]
    /\ UNCHANGED <<keyStatus, status, limit, cache, bucket, key, arrived, found, env, past,
                   history>>

Remember_FromNow(r) ==
    cache' = [cache EXCEPT ![key[r]] = [ctx |-> found[r], until |-> now + CACHE_TTL_SECONDS]]

\* The entry expires a TTL after the arrival, however long the database took.
Remember(r) ==
    cache' = [cache EXCEPT ![key[r]] =
                [ctx |-> found[r], until |-> arrived[r] + CACHE_TTL_SECONDS]]

\* Back from the commit: the entry is cached and decides.
Finish(r) ==
    /\ pc[r] = "stamped"
    /\ Remember(r)
    /\ Decide(key[r], arrived[r], found[r])
    /\ Leave(r)
    /\ UNCHANGED <<tables, env, past>>

\* The query, the update or the commit raises: nothing is cached.
RequestFails(r) ==
    /\ pc[r] # "idle"
    /\ Leave(r)
    /\ UNCHANGED <<tables, cache, bucket, env, past, history>>

-----------------------------------------------------------------------------
(* Commands of the admin API and the CLI; PATCH runs SetLimits and then     *)
(* SetStatus, each with a commit of its own.                                *)

Command ==
    /\ commands < MaxCommands
    /\ commands' = commands + 1
    /\ Record
    /\ UNCHANGED <<lastUsed, cache, bucket, request, now, limitChanges, restarts, history>>

\* A new key is random: none that API_KEYS lists.
NewKey(k) ==
    /\ k \notin EnvKeys
    /\ keyStatus[k] = "absent"
    /\ keyStatus' = [keyStatus EXCEPT ![k] = "active"]
    /\ UNCHANGED <<status, limit>>
    /\ Command

RevokeKey(k) ==
    /\ keyStatus[k] # "absent"
    /\ keyStatus' = [keyStatus EXCEPT ![k] = "revoked"]
    /\ UNCHANGED <<status, limit>>
    /\ Command

SetStatus(s) ==
    /\ status' = s
    /\ UNCHANGED <<keyStatus, limit>>
    /\ Command

SetLimits(l) ==
    /\ l # limit
    /\ limitChanges < MaxLimitChanges
    /\ limitChanges' = limitChanges + 1
    /\ limit' = l
    /\ UNCHANGED <<keyStatus, status>>
    /\ Record
    /\ UNCHANGED <<lastUsed, cache, bucket, request, now, commands, restarts, history>>

Import_Reactivates(configured) ==
    keyStatus' = [k \in Keys |-> IF k \in configured THEN "active" ELSE keyStatus[k]]

\* import_env_keys: a key that has a row, whatever its status, is left alone.
Import(configured) ==
    keyStatus' = [k \in Keys |->
        IF k \in configured /\ keyStatus[k] = "absent" THEN "active" ELSE keyStatus[k]]

\* The command import-env-keys, run beside the live process.
ImportCommand ==
    /\ \E configured \in SUBSET EnvKeys : Import(configured)
    /\ UNCHANGED <<status, limit>>
    /\ Command

\* The process starts again and imports what API_KEYS now lists: cache, buckets
\* and open requests are gone.
Restart ==
    /\ restarts < MaxRestarts
    /\ restarts' = restarts + 1
    /\ \E configured \in SUBSET EnvKeys : Import(configured)
    /\ cache' = [k \in Keys |-> None]
    /\ bucket' = None
    /\ pc' = [r \in Requests |-> "idle"]
    /\ key' = [r \in Requests |-> None]
    /\ arrived' = [r \in Requests |-> 0]
    /\ found' = [r \in Requests |-> None]
    /\ UNCHANGED <<status, limit, lastUsed, now, commands, limitChanges, history>>
    /\ Record

\* One second passes.
Tick ==
    /\ now < MaxTime
    /\ now' = now + 1
    /\ past' = [past EXCEPT ![now'] = {Tables(keyStatus, status, limit)}]
    /\ UNCHANGED <<tables, cache, bucket, request, commands, limitChanges, restarts, history>>

Next ==
    \/ \E k \in Keys : Hit(k) \/ NewKey(k) \/ RevokeKey(k) \/ \E r \in Requests : Arrive(r, k)
    \/ \E r \in Requests : LookUp(r) \/ StampKey(r) \/ Finish(r) \/ RequestFails(r)
    \/ \E s \in {"active", "suspended"} : SetStatus(s)
    \/ \E l \in Limits : SetLimits(l)
    \/ ImportCommand \/ Restart \/ Tick

Spec == Init /\ [][Next]_vars
-----------------------------------------------------------------------------
KeyStatuses == {"absent", "active", "revoked"}

Snapshot == [keyStatus : [Keys -> KeyStatuses], status : {"active", "suspended"}, limit : Limits]

Entry == [ctx : Context, until : Nat]

Bucket == [capacity : Limits, tokens : Nat, updated : Ticks]

\* Tables, cache, bucket and requests hold what the code puts there.
TypeOK ==
    /\ keyStatus \in [Keys -> KeyStatuses]
    /\ status \in {"active", "suspended"}
    /\ limit \in Limits
    /\ lastUsed \in [Keys -> Ticks \cup {None}]
    /\ cache \in [Keys -> {None} \cup Entry]
    /\ bucket \in {None} \cup Bucket
    /\ pc \in [Requests -> {"idle", "asking", "found", "stamped"}]
    /\ key \in [Requests -> Keys \cup {None}]
    /\ arrived \in [Requests -> Ticks]
    /\ found \in [Requests -> {None} \cup Context]
    /\ now \in Ticks
    /\ past \in [Ticks -> SUBSET Snapshot]
    /\ decision \in {None} \cup [key : Keys, arrived : Ticks, ctx : Context]
    /\ granted \in [Ticks -> Nat]
    /\ retryAt \in Nat \cup {None}

\* Did the tables back this context for this key in tick t?
Backed(k, ctx, t) ==
    \E p \in past[t] :
        /\ p.keyStatus[k] = "active"
        /\ p.status = ctx.status
        /\ p.limit = ctx.limit

\* Every request is decided on a context the tables held less than a TTL
\* before it arrived, or later: however slow the lookups, however they overtake
\* each other and overwrite each other's entries, a revocation, a suspension or
\* a new limit is in force one TTL later (auth.py 47-76).
DecisionsFresh ==
    decision # None =>
        \E t \in Ticks :
            /\ t > decision.arrived - CACHE_TTL_SECONDS
            /\ Backed(decision.key, decision.ctx, t)

\* A revoked key stays revoked, whatever is imported at a start (tenants 99-123).
RevokedForGood ==
    [][\A k \in Keys : keyStatus[k] = "revoked" => keyStatus'[k] = "revoked"]_vars

\* Requests let through from tick s to tick e.
GrantedIn(s, e) ==
    LET upTo[t \in s..e] == granted[t] + (IF t = s THEN 0 ELSE upTo[t - 1])
    IN  upTo[e]

Highest == CHOOSE l \in Limits : \A m \in Limits : m <= l

\* In every interval at most the burst and the refill of a bucket get through,
\* plus one burst for each restart and each change of the limit.
WithinRate ==
    \A s \in 0..now :
        MINUTE * GrantedIn(s, now) <=
            Highest * (MINUTE * (1 + restarts + limitChanges) + (now - s))

\* While the limit stays what it is, so do its bursts: revocations, suspensions,
\* restarts and stale cache entries buy nobody extra requests (ratelimit.py 20-44).
RateHeld == limitChanges = 0 => WithinRate

\* A caller that waits as long as Retry-After said finds a token, unless another
\* request of the tenant took it (ratelimit.py 20-30, 45-51).
RetryAfterKept ==
    (retryAt # None /\ bucket # None) =>
        (now >= retryAt => Level(bucket) >= MINUTE)
=============================================================================
