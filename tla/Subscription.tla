---------------------------- MODULE Subscription ----------------------------
(***************************************************************************)
(* The subscription rows of Flowering and the two writers that race for    *)
(* them: RevenueCat webhooks (SubscriptionService.processWebhook) and the  *)
(* ground truth fetched over REST (SubscriptionService.applyRcGroundTruth, *)
(* called by PremiumGuard and by the nightly cron).                        *)
(*                                                                         *)
(* Every call is a PostgreSQL transaction at READ COMMITTED.  It locks the *)
(* rows it reads (SELECT ... FOR UPDATE), which locks nothing when the row *)
(* does not exist yet; it then writes and commits in one step, because     *)
(* nothing uncommitted is visible to another transaction.  What follows    *)
(* the commit, the emission of subscription.changed and the answer to      *)
(* RevenueCat, is a step of its own.                                       *)
(*                                                                         *)
(* RevenueCat delivers an event any number of times, in any order and      *)
(* concurrently, once the event has happened.                              *)
(***************************************************************************)
EXTENDS Integers, FiniteSets, Sequences

CONSTANTS
    Users,          \* ids of registered users, numbers so that they sort
    Scenarios,      \* what RevenueCat may have to tell, and which rows exist
    Workers,        \* requests (or cron jobs) in flight at one time
    MaxNow,         \* bound of the clock
    MaxLag,         \* how long a REST answer may travel before it is stamped
    ReplayWindow,   \* age beyond which the controller drops an event
    MaxCrashes,     \* bound on process crashes
    None,           \* SQL NULL / undefined
    NoRow,          \* no subscription row
    Free            \* a row lock nobody holds

VARIABLES
    world,      \* the scenario of this behaviour
    now,        \* the clock of the server
    subs,       \* committed subscription row of each user, or NoRow
    lock,       \* who holds the row lock of a user's row
    recorded,   \* ids in the webhook_events table
    acked,      \* ids of events answered with HTTP 200
    pc,         \* step of each worker: idle, tx, committed, failed
    msg,        \* the event or payload the worker handles
    todo,       \* users whose row the worker has yet to lock and read
    seen,       \* the rows it has read
    touched,    \* users to announce with subscription.changed
    crashes     \* crashes so far

vars == <<world, now, subs, lock, recorded, acked, pc, msg, todo, seen, touched, crashes>>

-----------------------------------------------------------------------------
(* Types. *)

PurchaseEvents == {"INITIAL_PURCHASE", "RENEWAL", "UNCANCELLATION", "NON_RENEWING_PURCHASE",
                   "TEMPORARY_ENTITLEMENT_GRANT", "REFUND_REVERSED", "PRODUCT_CHANGE"}
SilentAckEvents == {"TEST", "INVOICE_ISSUANCE", "VIRTUAL_CURRENCY_TRANSACTION",
                    "EXPERIMENT_ENROLLMENT"}
RowEvents == {"SUBSCRIPTION_EXTENDED", "REFUND", "CANCELLATION", "EXPIRATION",
              "BILLING_ISSUE", "SUBSCRIPTION_PAUSED"}
EventTypes == PurchaseEvents \cup SilentAckEvents \cup RowEvents \cup {"TRANSFER", "UNHANDLED"}

Plans == {"FREE", "MONTHLY", "YEARLY", "LIFETIME"}
Statuses == {"ACTIVE", "EXPIRED", "PAUSED"}
Products == (Plans \ {"FREE"}) \cup {"unknown", "none"}
Moment == Nat \cup {None}

\* A row.  "at" is not a column: it is the moment at RevenueCat of the newest
\* fact the row reflects, against which the guard column ts is judged.
Row == [plan : Plans, status : Statuses, expires : Moment, cancel : BOOLEAN,
        ts : Moment, at : Nat]

\* An event names its user by a list of candidate ids (app_user_id,
\* original_app_user_id, aliases); a TRANSFER by transferred_from and "to".
Event == [id : Nat, type : EventTypes, ids : Seq(Nat), to : Nat, product : Products,
          newProduct : Products, expires : Moment, revoke : BOOLEAN,
          at : Nat, ts : Moment, sandbox : BOOLEAN]
Payload == [type : {"GROUND_TRUTH"}, ids : Seq(Nat), active : BOOLEAN,
            product : Products, expires : Moment]
Fetched == [type : {"GROUND_TRUTH"}, ids : Seq(Nat), active : BOOLEAN,
            product : Products, expires : Moment, at : Nat, ts : Nat]

\* The id of somebody who never logged in ($RCAnonymousID:...): not a UUID.
Anonymous == 0

ASSUME UsersAssumption == Users \subseteq Nat \ {Anonymous}

\* A scenario: the events RevenueCat delivers, the answers its REST endpoint may
\* give, and the users who have a row when the behaviour starts.
ASSUME ScenariosAssumption == \A s \in Scenarios :
    /\ s.events \subseteq Event /\ s.payloads \subseteq Payload /\ s.seeded \subseteq Users
    /\ \A e, f \in s.events : e.id = f.id => e = f
    /\ \A e \in s.events : e.ts \in {None, e.at}
ASSUME BoundsAssumption == {MaxNow, MaxLag, ReplayWindow, MaxCrashes} \subseteq Nat
ASSUME NullsAssumption ==
    None \notin Nat /\ NoRow \notin Row /\ Free \notin Workers /\ None \notin Event \cup Fetched

-----------------------------------------------------------------------------
(* What the handlers compute from an event and a row.  A definition whose name
   ends in "Faulty" is a plausible bug in the one that follows it; nothing here
   uses it, and the properties below tell it from the code. *)

First(m) == IF m.ids = << >> THEN None ELSE Head(m.ids)

\* resolveUser: the first candidate that is a registered user.
ResolveUser(m) ==
    IF \E i \in DOMAIN m.ids : m.ids[i] \in Users
    THEN m.ids[CHOOSE i \in DOMAIN m.ids :
                 m.ids[i] \in Users /\ \A j \in 1..(i - 1) : m.ids[j] \notin Users]
    ELSE None

\* The users whose rows a transaction locks.
Targets(m) ==
    IF m.type = "TRANSFER"
    THEN IF {First(m), m.to} \subseteq Users THEN {First(m), m.to} ELSE {}
    ELSE {ResolveUser(m)} \cap Users

IsStaleEventFaulty(m, row) == FALSE

\* The out-of-order guard, shared in substance by webhooks and ground truth.
IsStaleEvent(m, row) ==
    m.ts # None /\ row # NoRow /\ row.ts # None /\ m.ts <= row.ts

\* isSubscriptionActive, behind PremiumGuard; isUserPremium, behind the other guards.
IsSubscriptionActive(row) ==
    /\ row # NoRow
    /\ row.status = "ACTIVE"
    /\ row.plan = "LIFETIME" \/ row.expires = None \/ row.expires > now
IsUserPremium(row) ==
    row # NoRow /\ row.plan # "FREE" /\ IsSubscriptionActive(row)

ProductOf(m) ==
    IF m.type = "PRODUCT_CHANGE" /\ m.newProduct # "none" THEN m.newProduct ELSE m.product

\* The row an activation leaves: an absent expiry leaves the column alone.
Activated(m, row) ==
    [plan |-> ProductOf(m), status |-> "ACTIVE", cancel |-> FALSE, ts |-> m.ts, at |-> m.at,
     expires |-> IF m.expires = None /\ row # NoRow THEN row.expires ELSE m.expires]

Stamped(row, m) == [row EXCEPT !.ts = m.ts, !.at = m.at]

\* A moved row takes the event's timestamp and keeps the facts it had, of which
\* the newest may be younger than the move.
Moved(row, m) == [row EXCEPT !.ts = m.ts, !.at = IF @ > m.at THEN @ ELSE m.at]

-----------------------------------------------------------------------------
(* Transactions. *)

Events == UNION {s.events : s \in Scenarios}

IsWebhook(w) == msg[w] # None /\ msg[w].type # "GROUND_TRUTH"
Target(w) == ResolveUser(msg[w])
Unseen == [u \in Users |-> NoRow]
ReleasedFaulty(w) == lock
Released(w) == [u \in Users |-> IF lock[u] = w THEN Free ELSE lock[u]]

\* The id of an event sits in webhook_events, uncommitted, while its transaction
\* is open: a second insert of it waits.
InsertBlocked(e) == \E w \in Workers : pc[w] = "tx" /\ IsWebhook(w) /\ msg[w].id = e.id

CanWriteFaulty(w, u) == TRUE

\* A statement that locks or writes u's row waits for the holder of its lock.
CanWrite(w, u) == subs[u] # NoRow => lock[u] \in {w, Free}

Open(w, m) ==
    /\ pc' = [pc EXCEPT ![w] = "tx"]
    /\ msg' = [msg EXCEPT ![w] = m]
    /\ todo' = [todo EXCEPT ![w] = Targets(m)]
    /\ UNCHANGED <<world, now, subs, lock, recorded, acked, seen, touched, crashes>>

NextToLockFaulty(w, u) ==
    u \in todo[w] /\ (First(msg[w]) \in todo[w] => u = First(msg[w]))

\* Rows are locked in ascending order of user id.
NextToLock(w, u) == u \in todo[w] /\ \A v \in todo[w] : u <= v

\* Lock and read one row; no row, no lock.
LockRow(w) ==
    /\ pc[w] = "tx"
    /\ \E u \in Users :
         /\ NextToLock(w, u)
         /\ CanWrite(w, u)
         /\ seen' = [seen EXCEPT ![w][u] = subs[u]]
         /\ lock' = IF subs[u] = NoRow THEN lock ELSE [lock EXCEPT ![u] = w]
         /\ todo' = [todo EXCEPT ![w] = @ \ {u}]
    /\ UNCHANGED <<world, now, subs, recorded, acked, pc, msg, touched, crashes>>

Ready(w) == pc[w] = "tx" /\ todo[w] = {}

Close(w, step) ==
    /\ pc' = [pc EXCEPT ![w] = step]
    /\ lock' = Released(w)
    /\ seen' = [seen EXCEPT ![w] = Unseen]
    /\ UNCHANGED <<world, now, acked, msg, todo, crashes>>

Commit(w, rows, ids) ==
    /\ subs' = rows
    /\ recorded' = IF IsWebhook(w) THEN recorded \cup {msg[w].id} ELSE recorded
    /\ touched' = [touched EXCEPT ![w] = ids]
    /\ Close(w, "committed")

\* An exception, a unique violation included: nothing is kept, not even the id.
Rollback(w) ==
    /\ Close(w, "failed")
    /\ UNCHANGED <<subs, recorded, touched>>

\* UPDATE ... WHERE user_id = u: no row, no effect, and still a commit.
Update(w, u, row, ids) ==
    /\ CanWrite(w, u)
    /\ Commit(w, IF subs[u] = NoRow THEN subs ELSE [subs EXCEPT ![u] = row], ids)

\* Write the activation: update the row read, or insert one; an insert fails
\* when another transaction inserted first.
Activate(w, u) ==
    LET m == msg[w] IN
    \/ ProductOf(m) = "unknown" /\ Rollback(w)
    \/ /\ ProductOf(m) # "unknown"
       /\ seen[w][u] = NoRow /\ subs[u] # NoRow
       /\ Rollback(w)
    \/ /\ ProductOf(m) # "unknown"
       /\ seen[w][u] = NoRow => subs[u] = NoRow
       /\ Commit(w, [subs EXCEPT ![u] = Activated(m, subs[u])], {u})

-----------------------------------------------------------------------------
(* processWebhook: before and inside the transaction. *)

Arrived(w, e) == pc[w] = "idle" /\ now >= e.at

DropFaulty(e) ==
    /\ e.at <= now
    /\ e.sandbox \/ (e.ts # None /\ now - e.ts > ReplayWindow)
    /\ UNCHANGED vars

\* The controller answers 200 to an event older than the replay window, and
\* the service to a sandbox event, without recording either.
Drop(e) ==
    /\ e.at <= now
    /\ e.sandbox \/ (e.ts # None /\ now - e.ts > ReplayWindow)
    /\ acked' = acked \cup {e.id}
    /\ UNCHANGED <<world, now, subs, lock, recorded, pc, msg, todo, seen, touched, crashes>>

Admitted(w, e) ==
    /\ Arrived(w, e)
    /\ ~e.sandbox
    /\ e.ts # None => now - e.ts <= ReplayWindow
    /\ ~InsertBlocked(e)

\* Events nobody acts on, and duplicates: the answer is all that is left to do.
AckOnly(w, e) ==
    /\ Admitted(w, e)
    /\ e.id \in recorded \/ e.type \in SilentAckEvents
    /\ recorded' = recorded \cup {e.id}
    /\ pc' = [pc EXCEPT ![w] = "committed"]
    /\ msg' = [msg EXCEPT ![w] = e]
    /\ UNCHANGED <<world, now, subs, lock, acked, todo, seen, touched, crashes>>

ProcessWebhook(w, e) ==
    /\ Admitted(w, e)
    /\ e.id \notin recorded /\ e.type \notin SilentAckEvents
    /\ Open(w, e)

\* The events dispatch gives up on: no such user, or a stale one.
SkipEvent(w) ==
    /\ Ready(w) /\ IsWebhook(w) /\ msg[w].type # "TRANSFER"
    /\ Target(w) \in Users => IsStaleEvent(msg[w], seen[w][Target(w)])
    /\ Commit(w, subs, {})

Dispatch(w, types) ==
    /\ Ready(w) /\ IsWebhook(w) /\ msg[w].type \in types
    /\ Target(w) \in Users
    /\ ~IsStaleEvent(msg[w], seen[w][Target(w)])

UnhandledEvent(w) ==
    Dispatch(w, {"UNHANDLED"}) /\ Commit(w, subs, {})

\* handlePurchaseOrRenewal, also reached by PRODUCT_CHANGE.
HandlePurchaseOrRenewal(w) ==
    /\ Dispatch(w, PurchaseEvents)
    /\ \/ ProductOf(msg[w]) = "none" /\ Commit(w, subs, {Target(w)})
       \/ ProductOf(msg[w]) # "none" /\ Activate(w, Target(w))

HandleExtensionFaulty(w) ==
    /\ Dispatch(w, {"SUBSCRIPTION_EXTENDED"})
    /\ LET u == Target(w) m == msg[w] IN
       Update(w, u, [Stamped(subs[u], m) EXCEPT
                       !.expires = m.expires, !.status = "ACTIVE"], {u})

\* The period end moves; plan and status stay.
HandleExtension(w) ==
    /\ Dispatch(w, {"SUBSCRIPTION_EXTENDED"})
    /\ LET u == Target(w) m == msg[w] IN
       \/ m.expires = None /\ Commit(w, subs, {u})
       \/ /\ m.expires # None
          /\ Update(w, u, [Stamped(subs[u], m) EXCEPT !.expires = m.expires], {u})

\* REFUND keeps the stored guard when the event carries no timestamp.
HandleRefund(w) ==
    /\ Dispatch(w, {"REFUND"})
    /\ LET u == Target(w) m == msg[w] row == seen[w][u] IN
       \/ row = NoRow /\ Commit(w, subs, {u})
       \/ /\ row # NoRow
          /\ Update(w, u, [Stamped(subs[u], m) EXCEPT
                             !.status = "EXPIRED", !.expires = now, !.cancel = FALSE,
                             !.ts = IF m.ts = None THEN row.ts ELSE m.ts], {u})

HandleCancellation(w) ==
    /\ Dispatch(w, {"CANCELLATION"})
    /\ LET u == Target(w) m == msg[w] IN
       IF m.revoke
       THEN Update(w, u, [Stamped(subs[u], m) EXCEPT
                            !.status = "EXPIRED", !.expires = now, !.cancel = FALSE], {u})
       ELSE Update(w, u, [Stamped(subs[u], m) EXCEPT !.cancel = TRUE], {u})

HandleExpiration(w) ==
    /\ Dispatch(w, {"EXPIRATION"})
    /\ LET u == Target(w) IN
       Update(w, u, [Stamped(subs[u], msg[w]) EXCEPT
                       !.status = "EXPIRED", !.plan = "FREE", !.cancel = FALSE], {u})

\* A billing issue moves the guard only, and announces nothing.
HandleBillingIssue(w) ==
    /\ Dispatch(w, {"BILLING_ISSUE"})
    /\ Update(w, Target(w), Stamped(subs[Target(w)], msg[w]), {})

HandlePaused(w) ==
    /\ Dispatch(w, {"SUBSCRIPTION_PAUSED"})
    /\ LET u == Target(w) IN
       Update(w, u, [Stamped(subs[u], msg[w]) EXCEPT !.status = "PAUSED"], {u})

HandleTransferFaulty(w) ==
    /\ Ready(w) /\ msg[w].type = "TRANSFER"
    /\ LET m == msg[w] from == First(m) IN
       IF Targets(m) = {} \/ seen[w][from] = NoRow
       THEN Commit(w, subs, {})
       ELSE Commit(w, [subs EXCEPT ![m.to] = Moved(subs[from], m),
                                   ![from] = NoRow], {from, m.to})

\* TRANSFER moves the row to another user.  It never consults the guard; an id
\* that is no UUID makes the lookup throw, and so does a destination with a row,
\* read or inserted meanwhile.
HandleTransfer(w) ==
    /\ Ready(w) /\ msg[w].type = "TRANSFER"
    /\ LET m == msg[w] from == First(m) IN
       \/ from # None /\ Anonymous \in {from, m.to} /\ Rollback(w)
       \/ /\ from = None \/ Anonymous \notin {from, m.to}
          /\ Targets(m) = {}
          /\ Commit(w, subs, {})
       \/ /\ Targets(m) # {}
          /\ \/ seen[w][from] = NoRow /\ Commit(w, subs, {})
             \/ /\ seen[w][from] # NoRow /\ subs[m.to] # NoRow
                /\ Rollback(w)
             \/ /\ seen[w][from] # NoRow /\ subs[m.to] = NoRow
                /\ Commit(w, [subs EXCEPT ![m.to] = Moved(subs[from], m),
                                          ![from] = NoRow], {from, m.to})

-----------------------------------------------------------------------------
(* applyRcGroundTruth. *)

\* The REST answer describes the moment "at" and is stamped by the local clock
\* when it has arrived (RevenueCatRestClient.normalize).
SyncFromRc(w, p) ==
    /\ pc[w] = "idle"
    /\ \E lag \in 0..MaxLag :
         /\ lag <= now
         /\ Open(w, [type |-> p.type, ids |-> p.ids, active |-> p.active, product |-> p.product,
                     expires |-> p.expires, at |-> now - lag, ts |-> now])

ApplyRcGroundTruth(w) ==
    /\ Ready(w) /\ msg[w].type = "GROUND_TRUTH" /\ Target(w) \in Users
    /\ LET u == Target(w) m == msg[w] row == seen[w][u]
           stale == IsStaleEvent(m, row)
           entitled == m.active /\ m.product # "none"
           expire == row # NoRow /\ row.status = "ACTIVE" IN
       \/ stale /\ Commit(w, subs, {})
       \/ ~stale /\ entitled /\ Activate(w, u)
       \/ /\ ~stale /\ ~entitled /\ expire
          /\ Commit(w, [subs EXCEPT ![u] = [Stamped(@, m) EXCEPT
                          !.status = "EXPIRED", !.cancel = FALSE]], {u})
       \/ ~stale /\ ~entitled /\ ~expire /\ Commit(w, subs, {})

-----------------------------------------------------------------------------
(* After the transaction, and the environment. *)

Rest(w) ==
    /\ pc' = [pc EXCEPT ![w] = "idle"]
    /\ msg' = [msg EXCEPT ![w] = None]
    /\ touched' = [touched EXCEPT ![w] = {}]
    /\ UNCHANGED <<world, now, subs, lock, recorded, todo, seen, crashes>>

\* Emit subscription.changed for touched[w] and answer RevenueCat.
EmitChanged(w) ==
    /\ pc[w] = "committed"
    /\ acked' = IF IsWebhook(w) THEN acked \cup {msg[w].id} ELSE acked
    /\ Rest(w)

FailFaulty(w) ==
    /\ pc[w] = "failed"
    /\ acked' = IF IsWebhook(w) THEN acked \cup {msg[w].id} ELSE acked
    /\ Rest(w)

\* The call throws: RevenueCat gets an error and will deliver again.
Fail(w) ==
    /\ pc[w] = "failed"
    /\ UNCHANGED acked
    /\ Rest(w)

\* The process dies: open transactions roll back, announcements are lost.
Crash ==
    /\ crashes < MaxCrashes
    /\ crashes' = crashes + 1
    /\ pc' = [w \in Workers |-> "idle"]
    /\ msg' = [w \in Workers |-> None]
    /\ todo' = [w \in Workers |-> {}]
    /\ seen' = [w \in Workers |-> Unseen]
    /\ touched' = [w \in Workers |-> {}]
    /\ lock' = [u \in Users |-> Free]
    /\ UNCHANGED <<world, now, subs, recorded, acked>>

Tick ==
    /\ now < MaxNow
    /\ now' = now + 1
    /\ UNCHANGED <<world, subs, lock, recorded, acked, pc, msg, todo, seen, touched, crashes>>

\* A seeded user bought a month at time 0 and the event carried its time.
SeedRow == [plan |-> "MONTHLY", status |-> "ACTIVE", expires |-> MaxNow, cancel |-> FALSE,
            ts |-> 0, at |-> 0]

Init ==
    /\ world \in Scenarios
    /\ now = 0
    /\ subs = [u \in Users |-> IF u \in world.seeded THEN SeedRow ELSE NoRow]
    /\ lock = [u \in Users |-> Free]
    /\ recorded = {} /\ acked = {}
    /\ pc = [w \in Workers |-> "idle"]
    /\ msg = [w \in Workers |-> None]
    /\ todo = [w \in Workers |-> {}]
    /\ seen = [w \in Workers |-> Unseen]
    /\ touched = [w \in Workers |-> {}]
    /\ crashes = 0

WebhookStep(w) ==
    \/ SkipEvent(w) \/ UnhandledEvent(w)
    \/ HandlePurchaseOrRenewal(w) \/ HandleExtension(w) \/ HandleRefund(w)
    \/ HandleCancellation(w) \/ HandleExpiration(w) \/ HandleBillingIssue(w)
    \/ HandlePaused(w) \/ HandleTransfer(w)

Write(w) == WebhookStep(w) \/ ApplyRcGroundTruth(w)
Answer(w) == EmitChanged(w) \/ Fail(w)

Next ==
    \/ \E w \in Workers, e \in world.events : AckOnly(w, e) \/ ProcessWebhook(w, e)
    \/ \E e \in world.events : Drop(e)
    \/ \E w \in Workers, p \in world.payloads : SyncFromRc(w, p)
    \/ \E w \in Workers : LockRow(w) \/ Write(w) \/ Answer(w)
    \/ Crash
    \/ Tick

Spec == Init /\ [][Next]_vars

\* PostgreSQL grants row locks in turn, the event loop runs every continuation,
\* and RevenueCat delivers an event again until it is answered with 200.
Redeliver(e) ==
    /\ e \in world.events /\ e.id \notin acked
    /\ \E w \in Workers : AckOnly(w, e) \/ ProcessWebhook(w, e)
Fairness ==
    /\ \A w \in Workers : SF_vars(LockRow(w)) /\ SF_vars(Write(w)) /\ WF_vars(Answer(w))
    /\ \A e \in Events :
         /\ SF_vars(Redeliver(e))
         /\ WF_vars(e \in world.events /\ e.id \notin acked /\ Drop(e))
    /\ WF_vars(Tick)

FairSpec == Spec /\ Fairness

-----------------------------------------------------------------------------
(* Properties. *)

TypeOK ==
    /\ now \in 0..MaxNow
    /\ subs \in [Users -> Row \cup {NoRow}]
    /\ lock \in [Users -> Workers \cup {Free}]
    /\ world \in Scenarios
    /\ recorded \subseteq {e.id : e \in world.events} /\ acked \subseteq {e.id : e \in world.events}
    /\ pc \in [Workers -> {"idle", "tx", "committed", "failed"}]
    /\ msg \in [Workers -> world.events \cup Fetched \cup {None}]
    /\ todo \in [Workers -> SUBSET Users]
    /\ seen \in [Workers -> [Users -> Row \cup {NoRow}]]
    /\ touched \in [Workers -> SUBSET Users]
    /\ crashes \in 0..MaxCrashes

\* A row read under its lock is still the committed row when the handler writes:
\* what dispatch and applyRcGroundTruth decided from it has not gone stale.
SnapshotFresh ==
    \A w \in Workers, u \in Users :
      seen[w][u] # NoRow => lock[u] = w /\ seen[w][u] = subs[u]

\* No two transactions wait for each other's row ("Lock rows in consistent
\* userId order to prevent AB/BA deadlock").
WaitsFor(w, v) ==
    pc[w] = "tx" /\ w # v /\ \E u \in Users : NextToLock(w, u) /\ lock[u] = v
NoLockCycle == ~ \E w, v \in Workers : WaitsFor(w, v) /\ WaitsFor(v, w)

\* PremiumGuard asks isSubscriptionActive and the other guards isUserPremium,
\* which also looks at the plan; no history of events makes them disagree.
GuardsAgree ==
    \A u \in Users : IsUserPremium(subs[u]) <=> IsSubscriptionActive(subs[u])

\* RevenueCat is told 200 only of an event that is recorded, or one the code
\* drops on purpose (sandbox, or past the replay window).
AckedIsSettled ==
    \A e \in world.events : e.id \in acked =>
      e.id \in recorded \/ e.sandbox \/ (e.ts # None /\ now - e.ts > ReplayWindow)

Changed(u) == subs'[u] # subs[u]

\* A step that changes rows for a webhook records that event, for the first
\* time, in the same step: effects are neither repeated nor left unrecorded.
AppliedOnce ==
    [][\A u \in Users : Changed(u) =>
         \E w \in Workers : pc[w] = "tx" /\ pc'[w] = "committed" /\
           (IsWebhook(w) => msg[w].id \notin recorded /\ msg[w].id \in recorded')]_vars

\* A TRANSFER neither loses a subscription nor overwrites the destination's.
RowsConserved ==
    [][\A u \in Users : subs[u] # NoRow /\ subs'[u] = NoRow =>
         \E v \in Users : subs[v] = NoRow /\ subs'[v] # NoRow /\
           subs'[v].status = subs[u].status /\ subs'[v].expires = subs[u].expires]_vars

\* What the rest of the application sees of an event: whom it is about and what
\* it may do.
Kind(e) ==
    CASE e.type \in PurchaseEvents -> "grant"
      [] e.type \in {"EXPIRATION", "REFUND"} -> "revoke"
      [] e.type = "CANCELLATION" -> IF e.revoke THEN "revoke" ELSE "amend"
      [] e.type = "SUBSCRIPTION_PAUSED" -> "pause"
      [] e.type = "SUBSCRIPTION_EXTENDED" -> "extend"
      [] e.type = "BILLING_ISSUE" -> "amend"
      [] e.type = "TRANSFER" -> "move"
      [] OTHER -> "none"
Notice(e) ==
    [id |-> e.id, kind |-> Kind(e), user |-> IF e.type = "TRANSFER" THEN First(e) ELSE ResolveUser(e),
     to |-> e.to, sandbox |-> e.sandbox, timed |-> e.ts # None]

Ledger == INSTANCE Entitlements
              WITH notices <- {Notice(e) : e \in world.events}, rows <- subs, answered <- acked

\* However transactions interleave, fail or die, and however often events come:
\* the rows, the record of events and the answers are as if each event were
\* handled alone, once, and answered afterwards.  No event does more than its kind
\* allows: only a purchase or an answer of RevenueCat gives access, a TRANSFER
\* loses or overwrites no subscription, an extension revives none.
ServesEntitlements == Ledger!Spec

\* The row of u comes to reflect an older fact than before.
StaleWrite(u) ==
    subs[u] # NoRow /\ subs'[u] # NoRow /\ subs'[u].at < subs[u].at

\* The ways around the out-of-order guard that the code has: a write by a
\* transaction that found no row to lock, a message without a timestamp or
\* stamped after the fact, and a row left with no timestamp or too old a one.
Unguarded(w, u) ==
    \/ seen[w][u] = NoRow
    \/ msg[w].ts = None \/ msg[w].at < msg[w].ts
    \/ subs[u].ts = None \/ subs[u].ts < subs[u].at

\* Outside those ways no write is ever stale.
StaleOnlyUnguarded ==
    [][\A u \in Users : StaleWrite(u) =>
         \E w \in Workers : pc[w] = "tx" /\ pc'[w] # "tx" /\ Unguarded(w, u)]_vars

\* Every event is eventually answered, whatever races, fails or crashes: where
\* every delivery throws, as soon as the replay window drops it.
EventuallyAcked == \A e \in Events : e \in world.events => <>(e.id \in acked)

\* No transaction waits for ever for a row, though other transactions hold the
\* rows it wants and want the rows it holds.
TransactionsEnd == \A w \in Workers : pc[w] = "tx" ~> pc[w] # "tx"

\* Where every message is stamped when it happens and the user has a row to
\* lock, the row in the end reflects the newest event, in whatever order and
\* however often the events came.
WellStamped == MaxLag = 0 /\ \A e \in world.events : e.ts = e.at /\ e.type # "TRANSFER"
NewestEventWins ==
    \A e \in Events :
      LET u == ResolveUser(e) IN
      e \in world.events /\ WellStamped /\ u \in world.seeded
      => <>[](u \in Users /\ subs[u] # NoRow /\ subs[u].at >= e.at)

\* The claim of the comments on applyRcGroundTruth: no write is stale.
NoStaleWrite == [][\A u \in Users : ~StaleWrite(u)]_vars

=============================================================================
