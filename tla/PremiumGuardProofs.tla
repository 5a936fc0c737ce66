------------------------- MODULE PremiumGuardProofs -------------------------
(***************************************************************************)
(* Proofs about PremiumGuard, for any number of requests, users and        *)
(* workers and any lifetime of a cache entry.                              *)
(*                                                                         *)
(* A step of the guard is a step of Subscription or leaves its variables   *)
(* alone, so IndInv and what follows from it hold under the guard too.     *)
(* What the cache promises rests on the requests between a read and the    *)
(* fill that follows it: FillHeard and FillFresh say what may have         *)
(* happened to the row meanwhile.                                          *)
(***************************************************************************)
EXTENDS PremiumGuard, SubscriptionProofs

Steps == {"none", "hot", "read", "fill", "fetch", "sync", "reread", "granted", "denied"}

\* The types of the guard's own state.
GuardTypes ==
    /\ cache \in [Users -> [until : Nat, overtaken : BOOLEAN, lag : Nat]]
    /\ step \in [Requests -> Steps]
    /\ overtaken \in [Requests -> BOOLEAN]
    /\ readAt \in [Requests -> Nat]
    /\ \A r \in Requests : step[r] # "none" => user[r] \in Users
    /\ user \in [Requests -> Users \cup {None}]
    /\ sync \in [Requests -> Workers \cup {None}]
    /\ \A r \in Requests : sync[r] \in Workers => step[r] = "sync"
    /\ lastActive \in [Users -> Nat]

\* A row lost its status under a request that has yet to fill the cache: the
\* announcement is still to come, or has already overtaken the request.
FillHeard ==
    \A r \in Requests : step[r] = "fill" /\ Revoked(user[r]) =>
      Announcing(user[r]) \/ overtaken[r]

\* The row gave access when a request that is due to fill the cache read it, and
\* may have given it since.
FillFresh ==
    \A r \in Requests :
      step[r] = "fill" => readAt[r] <= now /\ readAt[r] <= LastActive(user[r])

\* An entry ends at most one lifetime after the row last gave access, plus the
\* time its fill waited.
EntryBounded ==
    \A u \in Users : /\ lastActive[u] <= now
                     /\ cache[u].until <= LastActive(u) + CacheTtl + cache[u].lag

\* CacheFollowsRevocation says nothing of a request that is about to fill, and
\* EntryBounded holds after a fill only if the row gave access at the read.
GuardInv ==
    /\ IndInv /\ GuardTypes
    /\ CacheFollowsRevocation /\ FillHeard
    /\ FillFresh /\ EntryBounded

-----------------------------------------------------------------------------
(* The guard and Subscription. *)

\* Every step of the guard is one of Subscription, or none.
LEMMA GuardStep == [GuardNext]_allVars => [Next]_vars
<1> SUFFICES ASSUME [GuardNext]_allVars PROVE [Next]_vars
  OBVIOUS
<1>1. CASE UNCHANGED allVars
  BY <1>1 DEF allVars
<1>2. ASSUME NEW r \in Requests, FetchRc(r) PROVE Next
  BY <1>2 DEF FetchRc, Next
<1>3. ASSUME NEW w \in Workers, Announce(w) \/ SyncFails(w) PROVE Next
  BY <1>3 DEF Announce, SyncFails, Answer, Next
<1>4. CASE OtherWork \/ GuardCrash \/ GuardTick
  BY <1>4 DEF OtherWork, GuardCrash, GuardTick, Next
<1>5. ASSUME NEW r \in Requests,
             \/ \E u \in Users : CanActivate(r, u)
             \/ ReadRow(r) \/ FillCache(r) \/ FetchDenied(r) \/ Respond(r)
      PROVE  UNCHANGED vars
  BY <1>5 DEF CanActivate, ReadRow, FillCache, FetchDenied, Respond
<1> QED
  BY <1>1, <1>2, <1>3, <1>4, <1>5 DEF GuardNext

\* The guard drives Subscription and never changes a row by itself: its
\* behaviours are behaviours of Subscription, whose theorems hold of them.
THEOREM GuardImplementsSubscription == GuardSpec => Spec
<1>1. GuardInit => Init
  BY DEF GuardInit
<1> QED
  BY <1>1, GuardStep, PTL DEF GuardSpec, Spec

-----------------------------------------------------------------------------
(* What a step does to the rows the guard watches. *)

\* A row is in one of three statuses, or there is none.
LEMMA RowTypes ==
  ASSUME IndInv, NEW u \in Users
  PROVE  /\ now \in Nat /\ (subs[u] # NoRow => subs[u] \in Row)
         /\ Revoked(u) => ~Active(u)
BY BoundsAssumption DEF IndInv, TypeOK, Revoked, Active, IsSubscriptionActive

\* A transaction that takes a row out of the status ACTIVE announces its user
\* when it commits; and no announcement is dropped by another worker's step.
LEMMA OtherWorkHeard ==
  ASSUME IndInv, OtherWork, NEW u \in Users
  PROVE  /\ now' = now
         /\ Announcing(u) => Announcing(u)'
         /\ Revoked(u)' => Revoked(u) \/ Announcing(u)'
<1>1. ASSUME NEW w \in Workers, Write(w)
      PROVE  /\ now' = now
             /\ Announcing(u) => Announcing(u)'
             /\ Revoked(u)' => Revoked(u) \/ Announcing(u)'
  <2>1. CASE pc[w] = "tx" /\ Rollback(w)
    BY <2>1 DEF Rollback, Close, Announcing, Revoked, IndInv, TypeOK
  <2>2. ASSUME NEW rows, NEW ids \in SUBSET Users, Legal(w, rows, ids), Commit(w, rows, ids),
               pc[w] = "tx"
        PROVE  /\ now' = now
               /\ Announcing(u) => Announcing(u)'
               /\ Revoked(u)' => Revoked(u) \/ Announcing(u)'
    <3>1. /\ now' = now /\ subs' = rows
          /\ \A v \in Workers : v # w => pc'[v] = pc[v] /\ touched'[v] = touched[v]
          /\ pc'[w] = "committed" /\ touched'[w] = ids
      BY <2>2 DEF Commit, Close, IndInv, TypeOK
    <3>2. Announcing(u) => Announcing(u)'
      BY <2>2, <3>1 DEF Announcing
    <3>3. u \in ids => Announcing(u)'
      BY <3>1 DEF Announcing
    <3>4. u \notin ids /\ ~Revoked(u) => ~Revoked(u)'
      BY <2>2, <3>1 DEF Legal, Revoked
    <3> QED
      BY <3>1, <3>2, <3>3, <3>4
  <2> QED
    BY <1>1, <2>1, <2>2, WriteEnds DEF Ends
<1>2. ASSUME NEW w \in Workers, NEW next \in {"tx", "committed"}, pc[w] \in {"idle", "tx"},
             pc' = [pc EXCEPT ![w] = next], UNCHANGED <<now, subs, touched>>
      PROVE  /\ now' = now
             /\ Announcing(u) => Announcing(u)'
             /\ Revoked(u)' => Revoked(u) \/ Announcing(u)'
  BY <1>2 DEF Announcing, Revoked, IndInv, TypeOK
<1>3. ASSUME NEW w \in Workers, NEW e \in world.events, AckOnly(w, e)
      PROVE  pc[w] = "idle" /\ pc' = [pc EXCEPT ![w] = "committed"] /\ UNCHANGED <<now, subs, touched>>
  BY <1>3 DEF AckOnly, Admitted, Arrived
<1>4. ASSUME NEW w \in Workers, NEW e \in world.events, ProcessWebhook(w, e)
      PROVE  pc[w] = "idle" /\ pc' = [pc EXCEPT ![w] = "tx"] /\ UNCHANGED <<now, subs, touched>>
  BY <1>4 DEF ProcessWebhook, Admitted, Arrived, Open
<1>5. ASSUME NEW w \in Workers, NEW p \in world.payloads, SyncFromRc(w, p)
      PROVE  pc[w] = "idle" /\ pc' = [pc EXCEPT ![w] = "tx"] /\ UNCHANGED <<now, subs, touched>>
  BY <1>5 DEF SyncFromRc, Open
<1>6. ASSUME NEW w \in Workers, LockRow(w)
      PROVE  UNCHANGED <<pc, now, subs, touched>>
  BY <1>6 DEF LockRow
<1>7. ASSUME UNCHANGED <<pc, now, subs, touched>>
      PROVE  /\ now' = now
             /\ Announcing(u) => Announcing(u)'
             /\ Revoked(u)' => Revoked(u) \/ Announcing(u)'
  BY <1>7 DEF Announcing, Revoked
<1> QED
  BY <1>1, <1>2, <1>3, <1>4, <1>5, <1>6, <1>7 DEF OtherWork

\* The clock never goes back, and neither does the last moment of access.
LEMMA LastActiveRises ==
  ASSUME IndInv, GuardTypes, EntryBounded, GuardNext, NEW u \in Users
  PROVE  /\ now \in Nat /\ now' \in Nat /\ now <= now'
         /\ lastActive'[u] = LastActive(u) /\ LastActive(u) \in Nat /\ LastActive(u)' \in Nat
         /\ LastActive(u) <= now /\ LastActive(u) <= LastActive(u)'
<1>1. /\ lastActive' = [v \in Users |-> LastActive(v)]
      /\ now \in Nat /\ LastActive(u) \in Nat /\ LastActive(u) <= now
  BY BoundsAssumption DEF GuardNext, IndInv, TypeOK, GuardTypes, EntryBounded, LastActive
<1>2. now' \in Nat /\ now <= now'
  <2>1. [Next]_vars /\ IndInv'
    BY GuardStep, NextInv
  <2>2. now' = now \/ now' = now + 1
    BY <2>1, OtherWorkHeard DEF GuardNext, OtherWork, GuardCrash, GuardTick, Crash, Tick, Announce, SyncFails, EmitChanged, Fail, Rest,
       CanActivate, ReadRow, FillCache, FetchDenied, FetchRc, SyncFromRc, Open, Respond, vars
  <2> QED
    BY <1>1, <2>2
<1>3. LastActive(u)' = now' \/ LastActive(u)' = LastActive(u)
  BY <1>1 DEF LastActive
<1> QED
  BY <1>1, <1>2, <1>3

-----------------------------------------------------------------------------
(* The invariant is inductive. *)

\* Before the first request nothing is cached and nobody waits.
LEMMA GuardInitInv == GuardInit => GuardInv
<1> SUFFICES ASSUME GuardInit PROVE GuardInv
  OBVIOUS
<1> USE DEF GuardInit
<1>1. IndInv /\ now = 0
  BY InitInv DEF Init
<1>2. GuardTypes
  BY NoneAssumption DEF GuardTypes, NoEntry, Steps
<1>3. CacheFollowsRevocation /\ FillHeard /\ FillFresh
  BY <1>1 DEF CacheFollowsRevocation, FillHeard, FillFresh, Cached, NoEntry
<1>4. EntryBounded
  BY <1>1, CacheTtlAssumption DEF EntryBounded, LastActive, NoEntry
<1> QED
  BY <1>1, <1>2, <1>3, <1>4 DEF GuardInv

\* The steps of a request keep it.
LEMMA RequestInv ==
  ASSUME GuardInv, GuardNext, NEW r \in Requests,
         \/ \E u \in Users : CanActivate(r, u)
         \/ ReadRow(r) \/ FillCache(r) \/ FetchDenied(r) \/ Respond(r)
  PROVE  GuardTypes' /\ CacheFollowsRevocation' /\ FillHeard' /\ FillFresh' /\ EntryBounded'
<1>1. UNCHANGED vars
  BY DEF CanActivate, ReadRow, FillCache, FetchDenied, Respond
<1>2. /\ now' = now /\ now \in Nat
      /\ \A u \in Users : /\ Revoked(u)' = Revoked(u) /\ Announcing(u)' = Announcing(u)
                          /\ Active(u)' = Active(u)
  BY <1>1 DEF vars, GuardInv, IndInv, TypeOK, Revoked, Announcing, Active, IsSubscriptionActive
<1>3. \A u \in Users :
         /\ lastActive'[u] = LastActive(u) /\ LastActive(u) \in Nat /\ LastActive(u)' \in Nat
         /\ LastActive(u) <= now /\ LastActive(u)' = LastActive(u)
  BY <1>2, LastActiveRises DEF GuardInv, LastActive
<1> lastActive' \in [Users -> Nat]
  BY <1>3 DEF GuardNext
<1>4. \A u \in Users : ~Revoked(u) \/ ~Active(u)
  BY RowTypes DEF GuardInv
<1> USE DEF GuardInv, GuardTypes, GoTo
<1>5. ASSUME NEW u \in Users, CanActivate(r, u)
      PROVE  GuardTypes' /\ CacheFollowsRevocation' /\ FillHeard' /\ FillFresh' /\ EntryBounded'
  <2> USE <1>5 DEF CanActivate
  <2>1. GuardTypes'
    BY <1>3 DEF Steps
  <2>2. CacheFollowsRevocation'
    BY <1>2 DEF CacheFollowsRevocation, Cached
  <2>3. \A q \in Requests : step'[q] = "fill" => step[q] = "fill" /\ user'[q] = user[q]
    OBVIOUS
  <2>4. FillHeard' /\ FillFresh'
    BY <1>2, <1>3, <2>3 DEF FillHeard, FillFresh
  <2>5. EntryBounded'
    BY <1>2, <1>3 DEF EntryBounded
  <2> QED
    BY <2>1, <2>2, <2>4, <2>5
<1>6. CASE ReadRow(r)
  <2> USE <1>6 DEF ReadRow
  <2>1. GuardTypes'
    BY <1>2, <1>3 DEF Steps
  <2>2. CacheFollowsRevocation'
    BY <1>2 DEF CacheFollowsRevocation, Cached
  <2>3. \A q \in Requests : step'[q] = "fill" =>
          \/ step[q] = "fill" /\ overtaken'[q] = overtaken[q] /\ readAt'[q] = readAt[q]
          \/ user[q] \in Users /\ Active(user[q]) /\ readAt'[q] = now
    OBVIOUS
  <2>4. FillHeard' /\ FillFresh'
    BY <1>2, <1>3, <1>4, <2>3 DEF FillHeard, FillFresh, LastActive
  <2>5. EntryBounded'
    BY <1>2, <1>3 DEF EntryBounded
  <2> QED
    BY <2>1, <2>2, <2>4, <2>5
<1>7. CASE FillCache(r)
  <2> USE <1>7 DEF FillCache
  <2>1. /\ user[r] \in Users /\ now + CacheTtl \in Nat
        /\ readAt[r] <= LastActive(user[r]) /\ now - readAt[r] \in Nat
    BY <1>2, CacheTtlAssumption DEF FillFresh
  <2>2. GuardTypes'
    BY <1>3, <2>1 DEF Steps
  <2>3. \A u \in Users : \/ cache'[u] = cache[u]
                         \/ /\ u = user[r]
                            /\ cache'[u] = [until |-> now + CacheTtl, overtaken |-> overtaken[r],
                                            lag |-> now - readAt[r]]
    BY <2>1
  <2>4. CacheFollowsRevocation'
    BY <1>2, <2>3 DEF CacheFollowsRevocation, FillHeard, Cached
  <2>5. \A q \in Requests : step'[q] = "fill" => step[q] = "fill" /\ readAt'[q] = readAt[q]
    OBVIOUS
  <2>6. FillHeard' /\ FillFresh'
    BY <1>2, <1>3, <2>5 DEF FillHeard, FillFresh
  <2>7. EntryBounded'
    <3> SUFFICES ASSUME NEW u \in Users
                 PROVE  /\ lastActive'[u] <= now'
                      /\ cache'[u].until <= LastActive(u)' + CacheTtl + cache'[u].lag
      BY DEF EntryBounded
    <3>1. CASE cache'[u] = cache[u]
      BY <1>2, <1>3, <3>1 DEF EntryBounded
    <3>2. CASE /\ u = user[r]
               /\ cache'[u].until = now + CacheTtl /\ cache'[u].lag = now - readAt[r]
      BY <1>2, <1>3, <2>1, <3>2, CacheTtlAssumption
    <3> QED
      BY <2>3, <3>1, <3>2
  <2> QED
    BY <2>2, <2>4, <2>6, <2>7
<1>8. CASE FetchDenied(r) \/ Respond(r)
  <2> USE <1>8 DEF FetchDenied, Respond
  <2>1. GuardTypes'
    BY <1>3 DEF Steps
  <2>2. CacheFollowsRevocation'
    BY <1>2 DEF CacheFollowsRevocation, Cached
  <2>3. \A q \in Requests : step'[q] = "fill" => step[q] = "fill" /\ user'[q] = user[q]
    OBVIOUS
  <2>4. FillHeard' /\ FillFresh'
    BY <1>2, <1>3, <2>3 DEF FillHeard, FillFresh
  <2>5. EntryBounded'
    BY <1>2, <1>3 DEF EntryBounded
  <2> QED
    BY <2>1, <2>2, <2>4, <2>5
<1> QED
  BY <1>5, <1>6, <1>7, <1>8

\* So do transactions, whoever runs them: what they take away they announce.
LEMMA TransactionInv ==
  ASSUME GuardInv, GuardNext, OtherWork \/ \E r \in Requests : FetchRc(r)
  PROVE  GuardTypes' /\ CacheFollowsRevocation' /\ FillHeard' /\ FillFresh' /\ EntryBounded'
<1> USE DEF GuardInv, GuardTypes
<1>1. ASSUME NEW u \in Users
      PROVE  /\ now' = now
             /\ Announcing(u) => Announcing(u)'
             /\ Revoked(u)' => Revoked(u) \/ Announcing(u)'
  <2>1. CASE OtherWork
    BY <2>1, OtherWorkHeard
  <2>2. ASSUME NEW w \in Workers, NEW p \in world.payloads, SyncFromRc(w, p)
        PROVE  pc[w] = "idle" /\ pc' = [pc EXCEPT ![w] = "tx"] /\ UNCHANGED <<now, subs, touched>>
    BY <2>2 DEF SyncFromRc, Open
  <2>3. ASSUME NEW r \in Requests, FetchRc(r)
        PROVE  \E w \in Workers : pc[w] = "idle" /\ pc' = [pc EXCEPT ![w] = "tx"] /\ UNCHANGED <<now, subs, touched>>
    BY <2>2, <2>3 DEF FetchRc
  <2> QED
    BY <2>1, <2>3 DEF Announcing, Revoked, IndInv, TypeOK
<1>2. /\ UNCHANGED <<cache, user, overtaken, readAt>> /\ step' \in [Requests -> Steps]
      /\ \A q \in Requests : /\ step'[q] = "fill" => step[q] = "fill"
                             /\ step'[q] # "none" => step[q] # "none"
  BY DEF OtherWork, FetchRc, GoTo, Steps
<1>3. \A u \in Users :
         /\ lastActive'[u] = LastActive(u) /\ LastActive(u) \in Nat /\ LastActive(u)' \in Nat
         /\ LastActive(u) <= now /\ LastActive(u) <= LastActive(u)'
  BY <1>1, LastActiveRises
<1>4. GuardTypes'
  <2>1. lastActive' \in [Users -> Nat]
    BY <1>3 DEF GuardNext
  <2>2. sync' \in [Requests -> Workers \cup {None}]
    BY DEF OtherWork, FetchRc
  <2>3. \A q \in Requests : sync'[q] \in Workers => step'[q] = "sync"
    BY DEF OtherWork, FetchRc, GoTo
  <2> QED
    BY <1>2, <2>1, <2>2, <2>3
<1>5. CacheFollowsRevocation'
  BY <1>1, <1>2 DEF CacheFollowsRevocation, Cached
<1>6. FillHeard'
  BY <1>1, <1>2 DEF FillHeard
<1>7. FillFresh'
  BY <1>1, <1>2, <1>3 DEF FillFresh
<1>8. EntryBounded'
  <2> SUFFICES ASSUME NEW u \in Users
               PROVE  /\ lastActive'[u] <= now'
                      /\ cache'[u].until <= LastActive(u)' + CacheTtl + cache'[u].lag
    BY DEF EntryBounded
  <2>1. now' = now /\ cache' = cache
    BY <1>1, <1>2
  <2>2. /\ cache[u].until <= LastActive(u) + CacheTtl + cache[u].lag
        /\ cache[u].until \in Nat /\ cache[u].lag \in Nat
    BY DEF EntryBounded
  <2> QED
    BY <1>3, <2>1, <2>2, CacheTtlAssumption
<1> QED
  BY <1>4, <1>5, <1>6, <1>7, <1>8

\* An announcement evicts the user and marks the requests it overtakes; a failed
\* sync, a crash and the clock only take away.
LEMMA AfterworkInv ==
  ASSUME GuardInv, GuardNext,
         \/ \E w \in Workers : Announce(w) \/ SyncFails(w)
         \/ GuardCrash \/ GuardTick
  PROVE  GuardTypes' /\ CacheFollowsRevocation' /\ FillHeard' /\ FillFresh' /\ EntryBounded'
<1> USE DEF GuardInv, GuardTypes
<1>1. \A u \in Users :
         /\ lastActive'[u] = LastActive(u) /\ LastActive(u) \in Nat /\ LastActive(u)' \in Nat
         /\ LastActive(u) <= now /\ LastActive(u) <= LastActive(u)'
         /\ now \in Nat /\ now' \in Nat /\ now <= now'
  BY LastActiveRises
<1>2. lastActive' \in [Users -> Nat]
  BY <1>1 DEF GuardNext
<1>3. ASSUME \A u \in Users : cache'[u] = cache[u] \/ cache'[u] = NoEntry
      PROVE  EntryBounded'
  <2> SUFFICES ASSUME NEW u \in Users
               PROVE  /\ lastActive'[u] <= now'
                      /\ cache'[u].until <= LastActive(u)' + CacheTtl + cache'[u].lag
    BY DEF EntryBounded
  <2>1. /\ cache[u].until <= LastActive(u) + CacheTtl + cache[u].lag
        /\ cache[u].until \in Nat /\ cache[u].lag \in Nat
    BY DEF EntryBounded
  <2> QED
    BY <1>1, <1>3, <2>1, CacheTtlAssumption DEF NoEntry
<1>4. ASSUME NEW w \in Workers, Announce(w)
      PROVE  GuardTypes' /\ CacheFollowsRevocation' /\ FillHeard' /\ FillFresh' /\ EntryBounded'
  <2> USE <1>4 DEF Announce, Resume
  <2>1. /\ \A q \in Requests : step'[q] = "fill" => step[q] = "fill"
        /\ now' = now /\ subs' = subs /\ user' = user /\ readAt' = readAt
        /\ pc' = [pc EXCEPT ![w] = "idle"] /\ touched' = [touched EXCEPT ![w] = {}]
        /\ \A u \in Users : cache'[u] = IF u \in touched[w] THEN NoEntry ELSE cache[u]
    BY DEF EmitChanged, Rest, Evicted
  <2>2. GuardTypes'
    BY <1>2, NoneAssumption DEF Steps, Evicted, NoEntry
  <2>3. \A u \in Users : /\ Revoked(u)' => Revoked(u)
                         /\ u \notin touched[w] /\ Announcing(u) => Announcing(u)'
    BY <2>1 DEF Revoked, Announcing, IndInv, TypeOK
  <2>4. CacheFollowsRevocation'
    BY <1>1, <2>1, <2>3 DEF CacheFollowsRevocation, Cached, NoEntry
  <2>5. FillHeard'
    BY <2>1, <2>3 DEF FillHeard
  <2>6. FillFresh'
    BY <1>1, <2>1 DEF FillFresh
  <2>7. EntryBounded'
    BY <1>3, <2>1 DEF NoEntry
  <2> QED
    BY <2>2, <2>4, <2>5, <2>6, <2>7
<1>5. ASSUME NEW w \in Workers, SyncFails(w)
      PROVE  GuardTypes' /\ CacheFollowsRevocation' /\ FillHeard' /\ FillFresh' /\ EntryBounded'
  <2> USE <1>5 DEF SyncFails, Resume
  <2>1. /\ \A q \in Requests : step'[q] = "fill" => step[q] = "fill"
        /\ UNCHANGED <<now, subs, user, cache, overtaken, readAt>>
        /\ pc' = [pc EXCEPT ![w] = "idle"] /\ pc[w] = "failed"
        /\ touched' = [touched EXCEPT ![w] = {}]
    BY DEF Fail, Rest
  <2>2. GuardTypes'
    BY <1>2, NoneAssumption DEF Steps
  <2>3. \A u \in Users : (Revoked(u)' => Revoked(u)) /\ (Announcing(u) => Announcing(u)')
    BY <2>1 DEF Revoked, Announcing, IndInv, TypeOK
  <2>4. CacheFollowsRevocation'
    BY <2>1, <2>3 DEF CacheFollowsRevocation, Cached
  <2>5. FillHeard' /\ FillFresh'
    BY <1>1, <2>1, <2>3 DEF FillHeard, FillFresh
  <2> QED
    BY <1>3, <2>1, <2>2, <2>4, <2>5
<1>6. CASE GuardCrash
  <2> USE <1>6 DEF GuardCrash
  <2>1. GuardTypes'
    BY <1>2, NoneAssumption DEF Steps, NoEntry
  <2>2. CacheFollowsRevocation' /\ FillHeard' /\ FillFresh'
    BY <1>1 DEF CacheFollowsRevocation, FillHeard, FillFresh, Cached, NoEntry
  <2>3. EntryBounded'
    BY <1>3 DEF NoEntry
  <2> QED
    BY <2>1, <2>2, <2>3
<1>7. CASE GuardTick
  <2> USE <1>7 DEF GuardTick
  <2>1. /\ UNCHANGED <<cache, subs, pc, touched, step, user, overtaken, readAt>>
        /\ \A u \in Users : cache'[u].until > now' => cache[u].until > now
    BY <1>1 DEF Tick
  <2>2. GuardTypes'
    BY <1>2
  <2>3. CacheFollowsRevocation'
    BY <2>1 DEF CacheFollowsRevocation, Cached, Revoked, Announcing
  <2>4. FillHeard' /\ FillFresh'
    BY <1>1, <2>1 DEF FillHeard, FillFresh, Revoked, Announcing
  <2> QED
    BY <1>3, <2>1, <2>2, <2>3, <2>4
<1> QED
  BY <1>4, <1>5, <1>6, <1>7

\* Every step keeps it.
LEMMA GuardNextInv == GuardInv /\ [GuardNext]_allVars => GuardInv'
<1> SUFFICES ASSUME GuardInv, [GuardNext]_allVars PROVE GuardInv'
  OBVIOUS
<1>1. IndInv'
  BY GuardStep, NextInv DEF GuardInv
<1>2. CASE GuardNext
  <2>1. GuardTypes' /\ CacheFollowsRevocation' /\ FillHeard' /\ FillFresh' /\ EntryBounded'
    BY <1>2, RequestInv, TransactionInv, AfterworkInv DEF GuardNext
  <2> QED
    BY <1>1, <2>1 DEF GuardInv
<1>3. CASE UNCHANGED allVars
  <2>1. GuardTypes' /\ CacheFollowsRevocation' /\ FillHeard' /\ FillFresh' /\ EntryBounded'
    BY <1>3 DEF allVars, vars, guardVars, GuardInv, GuardTypes, CacheFollowsRevocation, FillHeard,
       FillFresh, EntryBounded, Cached, Revoked, Announcing, LastActive, Active,
       IsSubscriptionActive
  <2> QED
    BY <1>1, <2>1 DEF GuardInv
<1> QED
  BY <1>2, <1>3

\* The invariant holds of every behaviour.
THEOREM GuardInvariance == GuardSpec => []GuardInv
BY GuardInitInv, GuardNextInv, PTL DEF GuardSpec

-----------------------------------------------------------------------------
(* What follows. *)

\* Between the commit that takes an entitlement away and the announcement that
\* evicts the user, and after it only for a fill the announcement overtook, is
\* the one time a revoked user is cached.
THEOREM RevocationReachesCache == GuardSpec => []CacheFollowsRevocation
<1>1. GuardInv => CacheFollowsRevocation
  BY DEF GuardInv
<1> QED
  BY <1>1, GuardInvariance, PTL

\* Access from the cache never outlives the row's by more than CACHE_TTL_MS and
\* the time the filling request waited between its read and its fill.
THEOREM StaleGrant == GuardSpec => StaleGrantBounded
<1>1. ASSUME GuardInv, GuardNext, NEW r \in Requests, step[r] = "none", step'[r] = "hot"
      PROVE  LET u == user'[r] IN now < LastActive(u) + CacheTtl + cache[u].lag
  <2>1. PICK u \in Users : user'[r] = u /\ Cached(u)
    <3>1. \A q \in Requests : ~ReadRow(q) /\ ~FillCache(q) /\ ~FetchDenied(q) /\ ~FetchRc(q) /\ ~Respond(q)
      BY <1>1 DEF ReadRow, FillCache, FetchDenied, FetchRc, Respond, GoTo, GuardInv, GuardTypes
    <3>2. /\ \A w \in Workers : ~Announce(w) /\ ~SyncFails(w)
          /\ ~OtherWork /\ ~GuardCrash /\ ~GuardTick
      BY <1>1 DEF Announce, SyncFails, Resume, OtherWork, GuardCrash, GuardTick
    <3>3. PICK q \in Requests, u \in Users : CanActivate(q, u)
      BY <1>1, <3>1, <3>2 DEF GuardNext
    <3> QED
      BY <1>1, <3>3 DEF CanActivate, GoTo, GuardInv, GuardTypes
  <2>2. /\ cache[u].until <= LastActive(u) + CacheTtl + cache[u].lag
        /\ cache[u].until \in Nat /\ cache[u].lag \in Nat
    BY <1>1 DEF GuardInv, EntryBounded, GuardTypes
  <2>3. now \in Nat /\ LastActive(u) \in Nat
    BY <1>1, LastActiveRises DEF GuardInv
  <2> QED
    BY <2>1, <2>2, <2>3, CacheTtlAssumption DEF Cached
<1>2. GuardInv /\ [GuardNext]_allVars =>
        [\A r \in Requests : step[r] = "none" /\ step'[r] = "hot" =>
           LET u == user'[r] IN now < LastActive(u) + CacheTtl + cache[u].lag]_allVars
  BY <1>1
<1> QED
  BY <1>2, GuardInvariance, PTL DEF GuardSpec, StaleGrantBounded

\* SELECT ... FOR UPDATE, exactly-once effects and the conservation of rows
\* hold of the syncs the guard starts, as they do of webhooks; the guard and the
\* service together implement Entitlements.
THEOREM GuardedSubscription ==
  GuardSpec => /\ []SnapshotFresh /\ []NoLockCycle /\ []GuardsAgree
               /\ AppliedOnce /\ RowsConserved /\ StaleOnlyUnguarded
               /\ ServesEntitlements
BY GuardImplementsSubscription, Freshness, DeadlockFree, GuardAgreement, ExactlyOnce,
   Conservation, GuardedWrites, SubscriptionImplementsEntitlements, PTL

=============================================================================
