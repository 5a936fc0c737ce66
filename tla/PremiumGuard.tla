---------------------------- MODULE PremiumGuard ----------------------------
(***************************************************************************)
(* common/guards/premium.guard.ts on top of Subscription: requests that    *)
(* consult the positive cache, then the subscription row, then RevenueCat, *)
(* while webhooks and syncs change the row and announce it with            *)
(* subscription.changed, on which the guard evicts the user.               *)
(*                                                                         *)
(* Each await of canActivate ends a step.  The circuit breaker around the  *)
(* fetch is CircuitBreaker; what it can do to a request, make the answer   *)
(* null, is one outcome of FetchRc.                                        *)
(***************************************************************************)
EXTENDS Subscription

CONSTANTS
    Requests,   \* guarded HTTP requests in flight
    CacheTtl    \* CACHE_TTL_MS, in ticks

ASSUME CacheTtlAssumption == CacheTtl \in Nat \ {0}
ASSUME NoneAssumption == None \notin Workers

VARIABLES
    cache,      \* per user, until when access is granted without a read
    step,       \* step of each request
    user,       \* the user it authenticated
    sync,       \* the worker that runs its applyRcGroundTruth
    overtaken,  \* has an eviction overtaken the row the request has read?
    readAt,     \* the moment the request read the row it is about to cache
    lastActive  \* last moment the committed row of a user gave access

guardVars == <<cache, step, user, sync, overtaken, readAt, lastActive>>
allVars == <<vars, guardVars>>

\* An entry remembers whether the fill that made it had been overtaken, and how
\* long that fill had waited since its read.
NoEntry == [until |-> 0, overtaken |-> FALSE, lag |-> 0]
Cached(u) == cache[u].until > now
Active(u) == IsSubscriptionActive(subs[u])
LastActive(u) == IF Active(u) THEN now ELSE lastActive[u]

GuardInit ==
    /\ Init
    /\ cache = [u \in Users |-> NoEntry]
    /\ step = [r \in Requests |-> "none"]
    /\ user = [r \in Requests |-> None]
    /\ sync = [r \in Requests |-> None]
    /\ overtaken = [r \in Requests |-> FALSE]
    /\ readAt = [r \in Requests |-> 0]
    /\ lastActive = [u \in Users |-> 0]

-----------------------------------------------------------------------------
(* canActivate, await by await. *)

GoTo(r, s) == step' = [step EXCEPT ![r] = s]

CanActivateFaulty(r, u) ==
    /\ step[r] = "none"
    /\ user' = [user EXCEPT ![r] = u]
    /\ GoTo(r, IF Cached(u) THEN "hot" ELSE "read")
    /\ cache' = IF Cached(u) THEN [cache EXCEPT ![u].until = now + CacheTtl] ELSE cache
    /\ UNCHANGED <<vars, sync, overtaken, readAt>>

\* Hot path: a live entry grants at once.
CanActivate(r, u) ==
    /\ step[r] = "none"
    /\ user' = [user EXCEPT ![r] = u]
    /\ GoTo(r, IF Cached(u) THEN "hot" ELSE "read")
    /\ UNCHANGED <<vars, cache, sync, overtaken, readAt>>

\* getUserSubscription, before and after a sync.  After a sync the request is
\* granted in any case: RevenueCat has confirmed the entitlement.
ReadRow(r) ==
    /\ step[r] \in {"read", "reread"}
    /\ GoTo(r, IF Active(user[r]) THEN "fill" ELSE IF step[r] = "read" THEN "fetch" ELSE "granted")
    /\ overtaken' = [overtaken EXCEPT ![r] = FALSE]
    /\ readAt' = [readAt EXCEPT ![r] = IF Active(user[r]) THEN now ELSE 0]
    /\ UNCHANGED <<vars, cache, user, sync>>

\* The continuation of the read, whenever the answer arrives: cache.set, with
\* the lifetime counted from the moment of the fill, and grant.
FillCache(r) ==
    /\ step[r] = "fill"
    /\ cache' = [cache EXCEPT ![user[r]] =
                   [until |-> now + CacheTtl, overtaken |-> overtaken[r],
                    lag |-> now - readAt[r]]]
    /\ readAt' = [readAt EXCEPT ![r] = 0]
    /\ GoTo(r, "granted")
    /\ UNCHANGED <<vars, user, sync, overtaken>>

\* getSubscriber: null (an error, an open breaker) or no entitlement denies,
\* an entitlement is synced into the row first.
FetchDenied(r) ==
    /\ step[r] = "fetch"
    /\ GoTo(r, "denied")
    /\ UNCHANGED <<vars, cache, user, sync, overtaken, readAt>>

FetchRc(r) ==
    /\ step[r] = "fetch"
    /\ \E w \in Workers, p \in world.payloads :
         /\ p.active /\ p.ids = <<user[r]>>
         /\ SyncFromRc(w, p)
         /\ sync' = [sync EXCEPT ![r] = w]
    /\ GoTo(r, "sync")
    /\ UNCHANGED <<cache, user, overtaken, readAt>>

Respond(r) ==
    /\ step[r] \in {"hot", "granted", "denied"}
    /\ GoTo(r, "none")
    /\ user' = [user EXCEPT ![r] = None]
    /\ UNCHANGED <<vars, cache, sync, overtaken, readAt>>

-----------------------------------------------------------------------------
(* The steps of Subscription, as the guard sees them. *)

EvictedFaulty(w) ==
    [u \in Users |-> IF \E v \in touched[w] : v > u THEN cache[u]
                     ELSE IF u \in touched[w] THEN NoEntry ELSE cache[u]]

\* handleSubscriptionChanged for every announced user.
Evicted(w) == [u \in Users |-> IF u \in touched[w] THEN NoEntry ELSE cache[u]]

\* A sync ends: the request it belongs to reads again, or is granted at once
\* when the sync threw.
Resume(w, s) ==
    /\ step' = [r \in Requests |-> IF sync[r] = w THEN s ELSE step[r]]
    /\ sync' = [r \in Requests |-> IF sync[r] = w THEN None ELSE sync[r]]
    /\ UNCHANGED user

Announce(w) ==
    /\ EmitChanged(w)
    /\ cache' = Evicted(w)
    /\ overtaken' = [r \in Requests |->
                       overtaken[r] \/ (step[r] = "fill" /\ user[r] \in touched[w])]
    /\ Resume(w, "reread")
    /\ UNCHANGED readAt

SyncFails(w) ==
    /\ Fail(w)
    /\ Resume(w, "granted")
    /\ UNCHANGED <<cache, overtaken, readAt>>

\* A crash takes the cache and the requests with it.
GuardCrash ==
    /\ Crash
    /\ cache' = [u \in Users |-> NoEntry]
    /\ step' = [r \in Requests |-> "none"]
    /\ user' = [r \in Requests |-> None]
    /\ sync' = [r \in Requests |-> None]
    /\ overtaken' = [r \in Requests |-> FALSE]
    /\ readAt' = [r \in Requests |-> 0]

\* Time passes for requests at every await, those between a read and the fill
\* that follows it among them.
GuardTick ==
    /\ Tick
    /\ UNCHANGED <<cache, step, user, sync, overtaken, readAt>>

OtherWork ==
    /\ \/ \E w \in Workers, e \in world.events : AckOnly(w, e) \/ ProcessWebhook(w, e)
       \/ \E w \in Workers, p \in world.payloads : SyncFromRc(w, p)
       \/ \E w \in Workers : LockRow(w) \/ Write(w)
    /\ UNCHANGED <<cache, step, user, sync, overtaken, readAt>>

GuardNext ==
    /\ \/ \E r \in Requests, u \in Users : CanActivate(r, u)
       \/ \E r \in Requests :
            ReadRow(r) \/ FillCache(r) \/ FetchDenied(r) \/ FetchRc(r) \/ Respond(r)
       \/ \E w \in Workers : Announce(w) \/ SyncFails(w)
       \/ OtherWork \/ GuardCrash \/ GuardTick
    /\ lastActive' = [u \in Users |-> LastActive(u)]

GuardSpec == GuardInit /\ [][GuardNext]_allVars

-----------------------------------------------------------------------------

Revoked(u) == subs[u] = NoRow \/ subs[u].status # "ACTIVE"
Announcing(u) == \E w \in Workers : pc[w] = "committed" /\ u \in touched[w]

\* The cache never grants later than CACHE_TTL_MS after the row last gave
\* access, plus the time the request that filled it waited between its read and
\* its fill (the code bounds no query's latency), however reads, fills,
\* evictions, revocations and the clock interleave.
StaleGrantBounded ==
    [][\A r \in Requests :
         step[r] = "none" /\ step'[r] = "hot" =>
           LET u == user'[r] IN now < LastActive(u) + CacheTtl + cache[u].lag]_allVars

\* A revoked user stays cached only until the revocation is announced, unless
\* the announcement overtook a request between its read and its fill.
CacheFollowsRevocation ==
    \A u \in Users : Cached(u) /\ Revoked(u) => Announcing(u) \/ cache[u].overtaken

=============================================================================
