------------------------- MODULE SubscriptionProofs -------------------------
(***************************************************************************)
(* Proofs about Subscription, for every set of users, workers and          *)
(* scenarios and every bound.                                              *)
(*                                                                         *)
(* One inductive invariant, IndInv, carries them all.  The lemmas of the   *)
(* first part say how a transaction may end (Ends): it rolls back, or it   *)
(* commits rows it was allowed to write (Legal).  This is the only place   *)
(* that looks at the handlers one by one; that IndInv is inductive, and    *)
(* the action properties, follow from the form of a legal commit.          *)
(***************************************************************************)
EXTENDS Subscription, TLAPS

Message == Event \cup Fetched

\* A row in force belongs to a paid plan.
PaidRow == {row \in Row : row.status = "ACTIVE" => row.plan # "FREE"}
Rows == PaidRow \cup {NoRow}

-----------------------------------------------------------------------------
(* The inductive invariant. *)

\* A worker that is busy has a message.
InHand == \A w \in Workers : pc[w] # "idle" => msg[w] # None

\* The committed rows, and so the ones read, are paid for while in force.
Paid == subs \in [Users -> Rows]

\* Locks are held by open transactions, on users below those yet to be locked.
LockOrder ==
    \A u \in Users, w \in Workers :
      lock[u] = w => pc[w] = "tx" /\ \A v \in todo[w] : u < v

\* An open transaction handles an event that is not recorded and that no other
\* open transaction handles.
OneInFlight ==
    \A w \in Workers : pc[w] = "tx" /\ IsWebhook(w) =>
      /\ msg[w].id \notin recorded
      /\ \A v \in Workers \ {w} : pc[v] = "tx" /\ IsWebhook(v) => msg[v].id # msg[w].id

\* An event about to be answered is recorded.
AnswerRecorded ==
    \A w \in Workers : pc[w] = "committed" /\ IsWebhook(w) => msg[w].id \in recorded

\* None of the properties is inductive alone: a TRANSFER and the ground truth
\* write what they compute from the committed row, which is a row only because
\* the one they read is still there; and what is read is still there because
\* whoever else would write it waits for the lock.
IndInv ==
    /\ TypeOK /\ InHand /\ Paid
    /\ SnapshotFresh /\ LockOrder
    /\ OneInFlight /\ AnswerRecorded /\ AckedIsSettled

-----------------------------------------------------------------------------
(* What the handlers write. *)

\* Events of a scenario are well formed.
LEMMA ScenarioEvents ==
  ASSUME TypeOK, NEW e \in world.events
  PROVE  /\ e \in Event /\ e \in Message /\ e # None
         /\ e.id \in Nat /\ e.at \in Nat /\ e.ts \in Moment /\ e.type \in EventTypes
         /\ e.type # "GROUND_TRUTH"
BY ScenariosAssumption, NullsAssumption
   DEF TypeOK, Event, Message, EventTypes, PurchaseEvents, SilentAckEvents, RowEvents

\* A message in hand has the fields the handlers read.
LEMMA MessageInHand ==
  ASSUME IndInv, NEW w \in Workers, pc[w] # "idle"
  PROVE  /\ msg[w] \in world.events \cup Fetched
         /\ msg[w].at \in Nat /\ msg[w].ts \in Moment /\ msg[w].expires \in Moment
         /\ msg[w].product \in Products
         /\ msg[w] \in Event => msg[w].newProduct \in Products
         /\ msg[w].type = "GROUND_TRUTH" <=> msg[w] \in Fetched
         /\ IsWebhook(w) <=> msg[w] \in world.events
         /\ IsWebhook(w) => msg[w].id \in {e.id : e \in world.events}
<1>1. msg[w] \in world.events \cup Fetched
  BY DEF IndInv, TypeOK, InHand
<1>2. CASE msg[w] \in Fetched
  <2>1. msg[w] \notin Event
    BY <1>2 DEF Fetched, Event, EventTypes, PurchaseEvents, SilentAckEvents, RowEvents
  <2>2. msg[w] \notin world.events
    BY <2>1, ScenariosAssumption DEF IndInv, TypeOK
  <2> QED
    BY <1>1, <1>2, <2>1, <2>2 DEF Fetched, IsWebhook, Moment
<1>3. CASE msg[w] \in world.events
  <2>1. msg[w] \in Event /\ msg[w].type # "GROUND_TRUTH" /\ msg[w] # None
    BY <1>3, ScenarioEvents DEF IndInv
  <2> QED
    BY <1>1, <1>3, <2>1 DEF Event, Fetched, IsWebhook, Moment
<1> QED
  BY <1>1, <1>2, <1>3

\* Moving the guard of a row leaves its plan, status and period alone.
LEMMA StampedRow ==
  ASSUME NEW row \in PaidRow, NEW m, m.at \in Nat, m.ts \in Moment
  PROVE  /\ Stamped(row, m) \in PaidRow /\ Stamped(row, m).at = m.at
         /\ Stamped(row, m).status = row.status /\ Stamped(row, m).expires = row.expires
BY DEF Stamped, PaidRow, Row

\* So does moving it to another user.
LEMMA MovedRow ==
  ASSUME NEW row \in PaidRow, NEW m, m.at \in Nat, m.ts \in Moment
  PROVE  /\ Moved(row, m) \in PaidRow
         /\ Moved(row, m).status = row.status /\ Moved(row, m).expires = row.expires
         /\ Moved(row, m).plan = row.plan
BY DEF Moved, PaidRow, Row

\* An activation makes a paid row.
LEMMA ActivatedRow ==
  ASSUME NEW row \in Rows, NEW m, m.at \in Nat, m.ts \in Moment, m.expires \in Moment,
         m.product \in Products, m.type = "PRODUCT_CHANGE" => m.newProduct \in Products,
         ProductOf(m) \notin {"unknown", "none"}
  PROVE  Activated(m, row) \in PaidRow /\ Activated(m, row).at = m.at
<1>1. ProductOf(m) \in Plans \ {"FREE"}
  BY DEF ProductOf, Products, Plans
<1> QED
  BY <1>1 DEF Activated, Rows, PaidRow, Row, Statuses, Moment

\* What a transaction may commit: it changes only rows it may write under the
\* locks; it overwrites a row only past the out-of-order guard, and with the
\* moment of its own message; it removes a row only by moving it; and it
\* announces ("ids") every user whose row it does not leave in the same status.
Legal(w, rows, ids) ==
    /\ rows \in [Users -> Rows]
    /\ \A u \in Users : rows[u] # subs[u] =>
         /\ CanWrite(w, u)
         /\ subs[u] # NoRow /\ rows[u] # NoRow =>
              ~IsStaleEvent(msg[w], seen[w][u]) /\ rows[u].at = msg[w].at
         /\ rows[u] = NoRow =>
              \E v \in Users : /\ subs[v] = NoRow /\ rows[v] # NoRow
                               /\ rows[v].status = subs[u].status
                               /\ rows[v].expires = subs[u].expires
         /\ subs[u] # NoRow /\ u \notin ids =>
              rows[u] # NoRow /\ rows[u].status = subs[u].status

\* How a transaction may end.
Ends(w) ==
    /\ pc[w] = "tx"
    /\ \/ Rollback(w)
       \/ \E rows, ids : ids \in SUBSET Users /\ Legal(w, rows, ids) /\ Commit(w, rows, ids)

\* A transaction may commit without writing anything.
LEMMA IdleCommitEnds ==
  ASSUME IndInv, NEW w \in Workers, pc[w] = "tx", NEW ids \in SUBSET Users,
         Commit(w, subs, ids)
  PROVE  Ends(w)
<1>1. Legal(w, subs, ids)
  BY DEF Legal, IndInv, Paid
<1> QED
  BY <1>1 DEF Ends

\* It may write a row it has read: the row is there, as it was read.
LEMMA ReadIsWritable ==
  ASSUME IndInv, NEW w \in Workers, NEW u \in Users, seen[w][u] # NoRow
  PROVE  CanWrite(w, u) /\ subs[u] = seen[w][u] /\ subs[u] \in PaidRow
BY DEF IndInv, Paid, Rows, SnapshotFresh, CanWrite

\* It may change one row, past the guard.
LEMMA OneRowEnds ==
  ASSUME IndInv, NEW w \in Workers, pc[w] = "tx", NEW u \in Users, NEW row \in PaidRow,
         CanWrite(w, u), ~IsStaleEvent(msg[w], seen[w][u]), row.at = msg[w].at,
         NEW ids \in SUBSET Users,
         subs[u] # NoRow /\ u \notin ids => row.status = subs[u].status,
         Commit(w, [subs EXCEPT ![u] = row], ids)
  PROVE  Ends(w)
<1> DEFINE rows == [subs EXCEPT ![u] = row]
<1>1. rows \in [Users -> Rows]
  BY DEF IndInv, Paid, Rows
<1>2. \A v \in Users : rows[v] # subs[v] => v = u /\ rows[v] = row
  BY DEF IndInv, Paid
<1>3. row # NoRow
  BY NullsAssumption DEF PaidRow
<1>4. Commit(w, rows, ids)
  OBVIOUS
<1> HIDE DEF rows
<1>5. Legal(w, rows, ids)
  BY <1>1, <1>2, <1>3 DEF Legal
<1> QED
  BY <1>4, <1>5 DEF Ends

\* An UPDATE ends the transaction legally: it waits for the lock of the row, and
\* does nothing when there is none.
LEMMA UpdateEnds ==
  ASSUME IndInv, NEW w \in Workers, pc[w] = "tx", NEW u \in Users, NEW row,
         subs[u] # NoRow => row \in PaidRow /\ row.at = msg[w].at,
         ~IsStaleEvent(msg[w], seen[w][u]),
         NEW ids \in SUBSET Users,
         subs[u] # NoRow /\ u \notin ids => row.status = subs[u].status,
         Update(w, u, row, ids)
  PROVE  Ends(w)
<1>1. CASE subs[u] = NoRow
  BY <1>1, IdleCommitEnds DEF Update
<1>2. CASE subs[u] # NoRow
  BY <1>2, OneRowEnds DEF Update
<1> QED
  BY <1>1, <1>2

\* So does an activation: the row is the one read, or there is none.
LEMMA ActivateEnds ==
  ASSUME IndInv, NEW w \in Workers, pc[w] = "tx", NEW u \in Users,
         ~IsStaleEvent(msg[w], seen[w][u]), ProductOf(msg[w]) # "none", Activate(w, u)
  PROVE  Ends(w)
<1>1. CASE Rollback(w)
  BY <1>1 DEF Ends
<1>2. CASE /\ ProductOf(msg[w]) # "unknown"
           /\ seen[w][u] = NoRow => subs[u] = NoRow
           /\ Commit(w, [subs EXCEPT ![u] = Activated(msg[w], subs[u])], {u})
  <2>1. subs[u] \in Rows
    BY DEF IndInv, Paid
  <2>2. msg[w].type = "PRODUCT_CHANGE" => msg[w].newProduct \in Products
    BY MessageInHand, ScenariosAssumption DEF IndInv, TypeOK
  <2>3. /\ msg[w].at \in Nat /\ msg[w].ts \in Moment /\ msg[w].expires \in Moment
        /\ msg[w].product \in Products
    BY MessageInHand
  <2>4. Activated(msg[w], subs[u]) \in PaidRow /\ Activated(msg[w], subs[u]).at = msg[w].at
    BY <1>2, <2>1, <2>2, <2>3, ActivatedRow
  <2>5. CanWrite(w, u)
    BY <1>2, ReadIsWritable DEF CanWrite
  <2>6. {u} \in SUBSET Users
    OBVIOUS
  <2> QED
    BY <1>2, <2>4, <2>5, <2>6, OneRowEnds
<1> QED
  BY <1>1, <1>2 DEF Activate

-----------------------------------------------------------------------------
(* Every handler ends its transaction legally. *)

\* The events of one user.
LEMMA HandlerEnds ==
  ASSUME IndInv, NEW w \in Workers,
         \/ SkipEvent(w) \/ UnhandledEvent(w)
         \/ HandlePurchaseOrRenewal(w) \/ HandleExtension(w) \/ HandleRefund(w)
         \/ HandleCancellation(w) \/ HandleExpiration(w) \/ HandleBillingIssue(w)
         \/ HandlePaused(w)
  PROVE  Ends(w)
<1> DEFINE m == msg[w]
           u == Target(w)
<1>1. pc[w] = "tx"
  BY DEF SkipEvent, UnhandledEvent, HandlePurchaseOrRenewal, HandleExtension, HandleRefund,
         HandleCancellation, HandleExpiration, HandleBillingIssue, HandlePaused, Dispatch, Ready
<1>2. m.at \in Nat /\ m.ts \in Moment /\ m.expires \in Moment
  BY <1>1, MessageInHand
<1>3. now \in Moment
  BY DEF IndInv, TypeOK, Moment
<1>4. ASSUME u \in Users, subs[u] # NoRow
      PROVE  /\ subs[u] \in PaidRow /\ Stamped(subs[u], m) \in PaidRow
             /\ Stamped(subs[u], m).at = m.at /\ Stamped(subs[u], m).status = subs[u].status
  BY <1>2, <1>4, StampedRow DEF IndInv, Paid, Rows
<1>5. {} \in SUBSET Users /\ (u \in Users => {u} \in SUBSET Users)
  OBVIOUS
<1>6. CASE SkipEvent(w) \/ UnhandledEvent(w)
  BY <1>1, <1>5, <1>6, IdleCommitEnds DEF SkipEvent, UnhandledEvent
<1>7. CASE HandlePurchaseOrRenewal(w)
  BY <1>1, <1>5, <1>7, IdleCommitEnds, ActivateEnds DEF HandlePurchaseOrRenewal, Dispatch
<1>8. CASE HandleExtension(w)
  <2> DEFINE row == [Stamped(subs[u], m) EXCEPT !.expires = m.expires]
  <2>1. u \in Users /\ ~IsStaleEvent(m, seen[w][u])
    BY <1>8 DEF HandleExtension, Dispatch
  <2>2. subs[u] # NoRow => row \in PaidRow /\ row.at = m.at
    BY <1>2, <1>4, <2>1 DEF PaidRow, Row
  <2>3. Commit(w, subs, {u}) \/ Update(w, u, row, {u})
    BY <1>8 DEF HandleExtension
  <2> HIDE DEF row
  <2> QED
    BY <1>1, <1>5, <2>1, <2>2, <2>3, IdleCommitEnds, UpdateEnds
<1>9. CASE HandleRefund(w)
  <2> DEFINE row == [Stamped(subs[u], m) EXCEPT
                       !.status = "EXPIRED", !.expires = now, !.cancel = FALSE,
                       !.ts = IF m.ts = None THEN seen[w][u].ts ELSE m.ts]
  <2>1. u \in Users /\ ~IsStaleEvent(m, seen[w][u])
    BY <1>9 DEF HandleRefund, Dispatch
  <2>2. CASE Commit(w, subs, {u})
    BY <1>1, <1>5, <2>1, <2>2, IdleCommitEnds
  <2>3. CASE seen[w][u] # NoRow /\ Update(w, u, row, {u})
    <3>1. seen[w][u].ts \in Moment
      BY <2>1, <2>3 DEF IndInv, TypeOK, Row
    <3>2. subs[u] # NoRow => row \in PaidRow /\ row.at = m.at
      BY <1>2, <1>3, <1>4, <2>1, <3>1 DEF PaidRow, Row, Statuses
    <3> HIDE DEF row
    <3> QED
      BY <1>1, <1>5, <2>1, <2>3, <3>2, UpdateEnds
  <2> QED
    BY <1>9, <2>2, <2>3 DEF HandleRefund
<1>10. CASE HandleCancellation(w)
  <2> DEFINE revoked == [Stamped(subs[u], m) EXCEPT
                           !.status = "EXPIRED", !.expires = now, !.cancel = FALSE]
             cancelled == [Stamped(subs[u], m) EXCEPT !.cancel = TRUE]
  <2>1. u \in Users /\ ~IsStaleEvent(m, seen[w][u])
    BY <1>10 DEF HandleCancellation, Dispatch
  <2>2. subs[u] # NoRow => revoked \in PaidRow /\ revoked.at = m.at
    BY <1>3, <1>4, <2>1 DEF PaidRow, Row, Statuses
  <2>3. subs[u] # NoRow => cancelled \in PaidRow /\ cancelled.at = m.at
    BY <1>4, <2>1 DEF PaidRow, Row
  <2>4. Update(w, u, revoked, {u}) \/ Update(w, u, cancelled, {u})
    BY <1>10 DEF HandleCancellation
  <2> HIDE DEF revoked, cancelled
  <2> QED
    BY <1>1, <1>5, <2>1, <2>2, <2>3, <2>4, UpdateEnds
<1>11. CASE HandleExpiration(w)
  <2> DEFINE row == [Stamped(subs[u], m) EXCEPT
                       !.status = "EXPIRED", !.plan = "FREE", !.cancel = FALSE]
  <2>1. u \in Users /\ ~IsStaleEvent(m, seen[w][u]) /\ Update(w, u, row, {u})
    BY <1>11 DEF HandleExpiration, Dispatch
  <2>2. subs[u] # NoRow => row \in PaidRow /\ row.at = m.at
    BY <1>4, <2>1 DEF PaidRow, Row, Statuses, Plans
  <2> HIDE DEF row
  <2> QED
    BY <1>1, <1>5, <2>1, <2>2, UpdateEnds
<1>12. CASE HandleBillingIssue(w)
  BY <1>1, <1>4, <1>5, <1>12, UpdateEnds DEF HandleBillingIssue, Dispatch
<1>13. CASE HandlePaused(w)
  <2> DEFINE row == [Stamped(subs[u], m) EXCEPT !.status = "PAUSED"]
  <2>1. u \in Users /\ ~IsStaleEvent(m, seen[w][u]) /\ Update(w, u, row, {u})
    BY <1>13 DEF HandlePaused, Dispatch
  <2>2. subs[u] # NoRow => row \in PaidRow /\ row.at = m.at
    BY <1>4, <2>1 DEF PaidRow, Row, Statuses
  <2> HIDE DEF row
  <2> QED
    BY <1>1, <1>5, <2>1, <2>2, UpdateEnds
<1> QED
  BY <1>6, <1>7, <1>8, <1>9, <1>10, <1>11, <1>12, <1>13

\* A TRANSFER: it removes the row it moves, and overwrites none.
LEMMA TransferEnds ==
  ASSUME IndInv, NEW w \in Workers, HandleTransfer(w)
  PROVE  Ends(w)
<1> DEFINE m == msg[w]
           from == First(m)
           moved == [subs EXCEPT ![m.to] = Moved(subs[from], m), ![from] = NoRow]
<1>1. pc[w] = "tx" /\ {} \in SUBSET Users
  BY DEF HandleTransfer, Ready
<1>2. CASE Commit(w, subs, {})
  BY <1>1, <1>2, IdleCommitEnds
<1>3. CASE Rollback(w)
  BY <1>1, <1>3 DEF Ends
<1>4. CASE /\ Targets(m) # {} /\ seen[w][from] # NoRow /\ subs[m.to] = NoRow
           /\ Commit(w, moved, {from, m.to})
  <2>1. from \in Users /\ m.to \in Users /\ {from, m.to} \in SUBSET Users
    BY <1>4 DEF HandleTransfer, Targets
  <2>2. m.at \in Nat /\ m.ts \in Moment
    BY <1>1, MessageInHand
  <2>3. CanWrite(w, from) /\ subs[from] \in PaidRow
    BY <1>4, <2>1, ReadIsWritable
  <2>4. subs[from] # NoRow /\ from # m.to
    BY <1>4, <2>3, NullsAssumption DEF PaidRow
  <2> DEFINE row == Moved(subs[from], m)
  <2>5. /\ row \in PaidRow /\ row # NoRow
        /\ row.status = subs[from].status /\ row.expires = subs[from].expires
    BY <2>2, <2>3, MovedRow, NullsAssumption DEF PaidRow
  <2> HIDE DEF row
  <2>6. /\ moved \in [Users -> Rows] /\ moved[m.to] = row /\ moved[from] = NoRow
        /\ \A u \in Users : moved[u] # subs[u] => u \in {from, m.to}
    BY <2>1, <2>4, <2>5 DEF IndInv, Paid, Rows, row
  <2>7. CanWrite(w, m.to)
    BY <1>4 DEF CanWrite
  <2> HIDE DEF moved
  <2>8. Legal(w, moved, {from, m.to})
    BY <1>4, <2>1, <2>3, <2>5, <2>6, <2>7 DEF Legal
  <2> QED
    BY <1>1, <1>4, <2>1, <2>8 DEF Ends
<1> QED
  BY <1>2, <1>3, <1>4 DEF HandleTransfer

\* The ground truth.
LEMMA GroundTruthEnds ==
  ASSUME IndInv, NEW w \in Workers, ApplyRcGroundTruth(w)
  PROVE  Ends(w)
<1> DEFINE m == msg[w]
           u == Target(w)
           row == [Stamped(subs[u], m) EXCEPT !.status = "EXPIRED", !.cancel = FALSE]
<1>1. pc[w] = "tx" /\ u \in Users /\ m.type = "GROUND_TRUTH"
  BY DEF ApplyRcGroundTruth, Ready
<1>2. m.at \in Nat /\ m.ts \in Moment
  BY <1>1, MessageInHand
<1>3. {} \in SUBSET Users /\ {u} \in SUBSET Users
  BY <1>1
<1>4. CASE Commit(w, subs, {})
  BY <1>1, <1>3, <1>4, IdleCommitEnds
<1>5. CASE ~IsStaleEvent(m, seen[w][u]) /\ m.product # "none" /\ Activate(w, u)
  <2>1. ProductOf(m) # "none"
    BY <1>1, <1>5 DEF ProductOf
  <2> QED
    BY <1>1, <1>5, <2>1, ActivateEnds
<1>6. CASE /\ ~IsStaleEvent(m, seen[w][u]) /\ seen[w][u] # NoRow
           /\ Commit(w, [subs EXCEPT ![u] = row], {u})
  <2>1. CanWrite(w, u) /\ subs[u] \in PaidRow
    BY <1>1, <1>6, ReadIsWritable
  <2>2. Stamped(subs[u], m) \in PaidRow /\ Stamped(subs[u], m).at = m.at
    BY <1>2, <2>1, StampedRow
  <2>3. row \in PaidRow /\ row.at = m.at
    BY <2>2 DEF PaidRow, Row, Statuses
  <2> HIDE DEF row
  <2> QED
    BY <1>1, <1>3, <1>6, <2>1, <2>3, OneRowEnds
<1> QED
  BY <1>4, <1>5, <1>6 DEF ApplyRcGroundTruth

\* All of them.
LEMMA WriteEnds ==
  ASSUME IndInv, NEW w \in Workers, Write(w)
  PROVE  Ends(w)
BY HandlerEnds, TransferEnds, GroundTruthEnds DEF Write, WebhookStep

-----------------------------------------------------------------------------
(* The invariant is inductive. *)

\* Initially nothing runs, no lock is held and every row is the seeded one.
LEMMA InitInv == Init => IndInv
<1> SUFFICES ASSUME Init PROVE IndInv
  OBVIOUS
<1> USE DEF Init
<1>1. SeedRow \in PaidRow
  BY BoundsAssumption DEF SeedRow, PaidRow, Row, Plans, Statuses, Moment
<1>2. Paid
  BY <1>1 DEF Paid, Rows
<1>3. TypeOK
  BY <1>2, BoundsAssumption DEF TypeOK, Paid, Rows, PaidRow, Unseen
<1>4. InHand /\ AnswerRecorded /\ AckedIsSettled /\ OneInFlight
  BY DEF InHand, AnswerRecorded, AckedIsSettled, OneInFlight
<1>5. SnapshotFresh
  BY DEF SnapshotFresh, Unseen
<1>6. LockOrder
  BY NullsAssumption DEF LockOrder
<1> QED
  BY <1>2, <1>3, <1>4, <1>5, <1>6 DEF IndInv

\* What closing a transaction does to locks, snapshots and workers.
LEMMA CloseInv ==
  ASSUME IndInv, NEW w \in Workers, NEW step \in {"committed", "failed"},
         pc[w] = "tx", Close(w, step)
  PROVE  /\ UNCHANGED <<world, now, acked, msg, todo, crashes>>
         /\ lock' \in [Users -> Workers \cup {Free}]
         /\ seen' \in [Workers -> [Users -> Row \cup {NoRow}]]
         /\ pc' \in [Workers -> {"idle", "tx", "committed", "failed"}]
         /\ InHand' /\ LockOrder'
         /\ \A v \in Workers : pc'[v] = (IF v = w THEN step ELSE pc[v])
         /\ \A v \in Workers, u \in Users : seen'[v][u] # NoRow =>
              v # w /\ lock'[u] = v /\ lock[u] = v /\ seen'[v][u] = seen[v][u]
                    /\ seen[v][u] = subs[u]
<1> USE DEF Close, IndInv, TypeOK
<1>1. UNCHANGED <<world, now, acked, msg, todo, crashes>>
  OBVIOUS
<1>2. lock' \in [Users -> Workers \cup {Free}] /\ seen' \in [Workers -> [Users -> Row \cup {NoRow}]]
  BY DEF Released, Unseen
<1>3. /\ pc' \in [Workers -> {"idle", "tx", "committed", "failed"}]
      /\ \A v \in Workers : pc'[v] = (IF v = w THEN step ELSE pc[v])
  OBVIOUS
<1>4. InHand'
  BY <1>1, <1>3 DEF InHand
<1>5. ASSUME NEW u \in Users, NEW v \in Workers, lock'[u] = v
      PROVE  v # w /\ lock[u] = v
  BY <1>5, NullsAssumption DEF Released
<1>6. LockOrder'
  BY <1>1, <1>3, <1>5 DEF LockOrder
<1>7. ASSUME NEW v \in Workers, NEW u \in Users, seen'[v][u] # NoRow
      PROVE  v # w /\ lock'[u] = v /\ lock[u] = v /\ seen'[v][u] = seen[v][u]
                   /\ seen[v][u] = subs[u]
  BY <1>7 DEF Unseen, Released, SnapshotFresh
<1> QED
  BY <1>1, <1>2, <1>3, <1>4, <1>6, <1>7

\* A transaction that ends legally keeps the invariant.
LEMMA EndsInv ==
  ASSUME IndInv, NEW w \in Workers, Ends(w)
  PROVE  IndInv'
<1>1. CASE Rollback(w)
  <2>1. pc[w] = "tx" /\ Close(w, "failed") /\ UNCHANGED <<subs, recorded, touched>>
    BY <1>1 DEF Ends, Rollback
  <2>2. /\ TypeOK' /\ InHand' /\ Paid' /\ LockOrder' /\ SnapshotFresh'
        /\ UNCHANGED <<world, now, acked, msg, recorded>>
        /\ \A v \in Workers : pc'[v] = (IF v = w THEN "failed" ELSE pc[v])
    BY <2>1, CloseInv DEF IndInv, TypeOK, Paid, SnapshotFresh
  <2>3. OneInFlight' /\ AnswerRecorded' /\ AckedIsSettled'
    BY <2>2 DEF IndInv, OneInFlight, AnswerRecorded, AckedIsSettled, IsWebhook
  <2> QED
    BY <2>2, <2>3 DEF IndInv
<1>2. ASSUME NEW rows, NEW ids \in SUBSET Users, Legal(w, rows, ids), Commit(w, rows, ids)
      PROVE  IndInv'
  <2>1. /\ pc[w] = "tx" /\ Close(w, "committed") /\ subs' = rows
        /\ recorded' = IF IsWebhook(w) THEN recorded \cup {msg[w].id} ELSE recorded
        /\ touched' = [touched EXCEPT ![w] = ids]
    BY <1>2 DEF Ends, Commit
  <2>2. /\ InHand' /\ LockOrder'
        /\ UNCHANGED <<world, now, acked, msg, todo, crashes>>
        /\ \A v \in Workers : pc'[v] = (IF v = w THEN "committed" ELSE pc[v])
    BY <2>1, CloseInv
  <2>3. Paid'
    BY <1>2, <2>1 DEF Legal, Paid
  <2>4. recorded' \subseteq {e.id : e \in world.events}
    BY <2>1, MessageInHand DEF IndInv, TypeOK
  <2>5. TypeOK'
    <3>1. /\ subs' \in [Users -> Row \cup {NoRow}] /\ touched' \in [Workers -> SUBSET Users]
          /\ lock' \in [Users -> Workers \cup {Free}]
          /\ seen' \in [Workers -> [Users -> Row \cup {NoRow}]]
          /\ pc' \in [Workers -> {"idle", "tx", "committed", "failed"}]
      BY <2>1, <2>3, CloseInv DEF Paid, Rows, PaidRow, IndInv, TypeOK
    <3> QED
      BY <2>2, <2>4, <3>1 DEF IndInv, TypeOK
  <2>6. SnapshotFresh'
    <3> SUFFICES ASSUME NEW v \in Workers, NEW u \in Users, seen'[v][u] # NoRow
                 PROVE  lock'[u] = v /\ seen'[v][u] = subs'[u]
      BY DEF SnapshotFresh
    <3>1. v # w /\ lock'[u] = v /\ lock[u] = v /\ seen'[v][u] = subs[u]
      BY <2>1, CloseInv
    <3>2. subs[u] # NoRow
      BY <3>1
    <3>3. ~CanWrite(w, u)
      BY <3>1, <3>2, NullsAssumption DEF CanWrite
    <3> QED
      BY <1>2, <2>1, <3>1, <3>3 DEF Legal
  <2>7. OneInFlight'
    BY <2>1, <2>2 DEF IndInv, OneInFlight, IsWebhook
  <2>8. AnswerRecorded' /\ AckedIsSettled'
    BY <2>1, <2>2 DEF IndInv, AnswerRecorded, AckedIsSettled, IsWebhook
  <2> QED
    BY <2>2, <2>3, <2>5, <2>6, <2>7, <2>8 DEF IndInv
<1> QED
  BY <1>1, <1>2 DEF Ends

\* Opening a transaction keeps it, when no other one handles the same event.
LEMMA OpenInv ==
  ASSUME IndInv, NEW w \in Workers, NEW m \in world.events \cup Fetched, pc[w] = "idle",
         m.type # "GROUND_TRUTH" => m.id \notin recorded /\ ~InsertBlocked(m),
         Open(w, m)
  PROVE  IndInv'
<1> USE DEF Open, IndInv, TypeOK
<1>1. m # None
  BY ScenarioEvents, NullsAssumption
<1>2. Targets(m) \subseteq Users
  BY DEF Targets
<1>3. TypeOK' /\ InHand' /\ Paid' /\ SnapshotFresh'
  BY <1>1, <1>2 DEF InHand, Paid, SnapshotFresh
<1>4. LockOrder'
  BY DEF LockOrder
<1>5. OneInFlight'
  BY DEF OneInFlight, InsertBlocked, IsWebhook
<1>6. AnswerRecorded' /\ AckedIsSettled'
  BY DEF AnswerRecorded, AckedIsSettled, IsWebhook
<1> QED
  BY <1>3, <1>4, <1>5, <1>6

\* Locking a row keeps it: rows are locked in ascending order, and a row that
\* another transaction has read is locked.
LEMMA LockRowInv ==
  ASSUME IndInv, NEW w \in Workers, LockRow(w)
  PROVE  IndInv'
<1> PICK u \in Users :
      /\ NextToLock(w, u)
      /\ CanWrite(w, u)
      /\ seen' = [seen EXCEPT ![w][u] = subs[u]]
      /\ lock' = IF subs[u] = NoRow THEN lock ELSE [lock EXCEPT ![u] = w]
      /\ todo' = [todo EXCEPT ![w] = @ \ {u}]
  BY DEF LockRow
<1>1. pc[w] = "tx" /\ UNCHANGED <<world, now, subs, recorded, acked, pc, msg, touched, crashes>>
  BY DEF LockRow
<1>2. TypeOK' /\ InHand' /\ Paid'
  BY <1>1 DEF IndInv, TypeOK, InHand, Paid
<1>3. SnapshotFresh'
  BY <1>1, NullsAssumption DEF IndInv, TypeOK, SnapshotFresh, CanWrite
<1>4. LockOrder'
  <2> SUFFICES ASSUME NEW x \in Users, NEW v \in Workers, lock'[x] = v
               PROVE  pc'[v] = "tx" /\ \A y \in todo'[v] : x < y
    BY DEF LockOrder
  <2>1. todo[v] \subseteq Nat /\ todo'[v] \subseteq todo[v] /\ x \in Nat /\ u \in Nat
    BY UsersAssumption DEF IndInv, TypeOK
  <2>2. CASE lock[x] = v
    BY <1>1, <2>1, <2>2 DEF IndInv, LockOrder
  <2>3. CASE lock[x] # v
    <3>1. x = u /\ v = w
      BY <2>3 DEF IndInv, TypeOK
    <3>2. \A y \in todo'[w] : y \in todo[w] /\ y # u /\ u <= y
      BY DEF NextToLock, IndInv, TypeOK
    <3> QED
      BY <1>1, <2>1, <3>1, <3>2
  <2> QED
    BY <2>2, <2>3
<1>5. OneInFlight' /\ AnswerRecorded' /\ AckedIsSettled'
  BY <1>1 DEF IndInv, OneInFlight, AnswerRecorded, AckedIsSettled, IsWebhook
<1> QED
  BY <1>2, <1>3, <1>4, <1>5 DEF IndInv

\* Every other step keeps it.
LEMMA QuietInv ==
  ASSUME IndInv,
         \/ \E w \in Workers, e \in world.events : AckOnly(w, e)
         \/ \E e \in world.events : Drop(e)
         \/ \E w \in Workers : Answer(w)
         \/ Crash \/ Tick \/ UNCHANGED vars
  PROVE  IndInv'
<1> USE DEF IndInv
<1>1. ASSUME NEW w \in Workers, NEW e \in world.events, AckOnly(w, e) PROVE IndInv'
  <2> USE <1>1 DEF AckOnly
  <2>1. pc[w] = "idle" /\ ~InsertBlocked(e) /\ e # None
    BY ScenarioEvents DEF Admitted, Arrived
  <2>2. TypeOK' /\ InHand' /\ Paid' /\ SnapshotFresh'
    BY <2>1 DEF TypeOK, InHand, Paid, SnapshotFresh
  <2>3. LockOrder'
    BY <2>1 DEF LockOrder, TypeOK
  <2>4. OneInFlight'
    BY <2>1 DEF OneInFlight, TypeOK, InsertBlocked, IsWebhook
  <2>5. AnswerRecorded' /\ AckedIsSettled'
    BY <2>1 DEF AnswerRecorded, AckedIsSettled, TypeOK, IsWebhook
  <2> QED
    BY <2>2, <2>3, <2>4, <2>5
<1>2. ASSUME NEW e \in world.events, Drop(e) PROVE IndInv'
  <2> USE <1>2 DEF Drop
  <2>1. TypeOK' /\ InHand' /\ Paid' /\ SnapshotFresh' /\ LockOrder'
    BY DEF TypeOK, InHand, Paid, SnapshotFresh, LockOrder
  <2>2. OneInFlight' /\ AnswerRecorded'
    BY DEF OneInFlight, AnswerRecorded, IsWebhook
  <2>3. \A f \in world.events : f.id = e.id => f = e
    BY ScenariosAssumption DEF TypeOK
  <2>4. AckedIsSettled'
    BY <2>3 DEF AckedIsSettled
  <2> QED
    BY <2>1, <2>2, <2>4
<1>3. ASSUME NEW w \in Workers, Answer(w) PROVE IndInv'
  <2>1. /\ pc[w] \in {"committed", "failed"} /\ Rest(w)
        /\ \/ pc[w] = "committed" /\ IsWebhook(w) /\ acked' = acked \cup {msg[w].id}
           \/ acked' = acked
    BY <1>3 DEF Answer, EmitChanged, Fail
  <2>2. acked' \subseteq {e.id : e \in world.events}
    BY <2>1, MessageInHand DEF TypeOK
  <2>3. TypeOK' /\ InHand' /\ Paid' /\ SnapshotFresh'
    BY <2>1, <2>2 DEF Rest, TypeOK, InHand, Paid, SnapshotFresh
  <2>4. LockOrder' /\ OneInFlight' /\ AnswerRecorded'
    BY <2>1 DEF Rest, TypeOK, LockOrder, OneInFlight, AnswerRecorded, IsWebhook
  <2>5. AckedIsSettled'
    BY <2>1 DEF Rest, AckedIsSettled, AnswerRecorded
  <2> QED
    BY <2>3, <2>4, <2>5
<1>4. CASE Crash
  <2> USE <1>4 DEF Crash
  <2>1. TypeOK' /\ InHand' /\ Paid' /\ SnapshotFresh'
    BY BoundsAssumption DEF TypeOK, InHand, Paid, SnapshotFresh, Unseen
  <2>2. LockOrder'
    BY NullsAssumption DEF LockOrder
  <2>3. OneInFlight' /\ AnswerRecorded' /\ AckedIsSettled'
    BY DEF OneInFlight, AnswerRecorded, AckedIsSettled, IsWebhook
  <2> QED
    BY <2>1, <2>2, <2>3
<1>5. CASE Tick
  <2> USE <1>5 DEF Tick
  <2>1. TypeOK' /\ InHand' /\ Paid' /\ SnapshotFresh' /\ LockOrder'
    BY BoundsAssumption DEF TypeOK, InHand, Paid, SnapshotFresh, LockOrder
  <2>2. OneInFlight' /\ AnswerRecorded'
    BY DEF OneInFlight, AnswerRecorded, IsWebhook
  <2>3. \A e \in world.events : e.ts \in Moment
    BY ScenarioEvents
  <2>4. AckedIsSettled'
    BY <2>3, BoundsAssumption DEF AckedIsSettled, Moment, TypeOK
  <2> QED
    BY <2>1, <2>2, <2>4
<1>6. CASE UNCHANGED vars
  <2>1. TypeOK' /\ InHand' /\ Paid' /\ SnapshotFresh' /\ LockOrder'
    BY <1>6 DEF vars, TypeOK, InHand, Paid, SnapshotFresh, LockOrder
  <2>2. OneInFlight' /\ AnswerRecorded' /\ AckedIsSettled'
    BY <1>6 DEF vars, OneInFlight, AnswerRecorded, AckedIsSettled, IsWebhook
  <2> QED
    BY <2>1, <2>2
<1> QED
  BY <1>1, <1>2, <1>3, <1>4, <1>5, <1>6

\* Every step keeps it.
LEMMA NextInv == IndInv /\ [Next]_vars => IndInv'
<1> SUFFICES ASSUME IndInv, [Next]_vars PROVE IndInv'
  OBVIOUS
<1>1. ASSUME NEW w \in Workers, NEW e \in world.events, ProcessWebhook(w, e) PROVE IndInv'
  <2>1. /\ pc[w] = "idle" /\ e.id \notin recorded /\ ~InsertBlocked(e) /\ Open(w, e)
        /\ e \in world.events \cup Fetched
    BY <1>1 DEF ProcessWebhook, Admitted, Arrived
  <2> QED
    BY <2>1, OpenInv
<1>2. ASSUME NEW w \in Workers, NEW p \in world.payloads, SyncFromRc(w, p) PROVE IndInv'
  <2>1. p \in Payload
    BY ScenariosAssumption DEF IndInv, TypeOK
  <2>2. PICK lag \in 0..MaxLag :
           /\ lag <= now
           /\ Open(w, [type |-> p.type, ids |-> p.ids, active |-> p.active,
                       product |-> p.product, expires |-> p.expires,
                       at |-> now - lag, ts |-> now])
    BY <1>2 DEF SyncFromRc
  <2> DEFINE m == [type |-> p.type, ids |-> p.ids, active |-> p.active, product |-> p.product,
                   expires |-> p.expires, at |-> now - lag, ts |-> now]
  <2>3. now - lag \in Nat /\ now \in Nat
    BY <2>2, BoundsAssumption DEF IndInv, TypeOK
  <2>4. m \in Fetched /\ m.type = "GROUND_TRUTH"
    BY <2>1, <2>3 DEF Fetched, Payload
  <2>5. pc[w] = "idle" /\ Open(w, m)
    BY <1>2, <2>2 DEF SyncFromRc
  <2> HIDE DEF m
  <2> QED
    BY <2>4, <2>5, OpenInv
<1>3. ASSUME NEW w \in Workers, LockRow(w) PROVE IndInv'
  BY <1>3, LockRowInv
<1>4. ASSUME NEW w \in Workers, Write(w) PROVE IndInv'
  BY <1>4, WriteEnds, EndsInv
<1> QED
  BY <1>1, <1>2, <1>3, <1>4, QuietInv DEF Next

-----------------------------------------------------------------------------
(* What follows. *)

\* The invariant holds of every behaviour.
THEOREM Invariance == Spec => []IndInv
BY InitInv, NextInv, PTL DEF Spec

\* Type correctness: every variable keeps the type the tables and the handlers
\* give it, whatever events come in whatever order.
THEOREM TypeCorrect == Spec => []TypeOK
<1>1. IndInv => TypeOK
  BY DEF IndInv
<1> QED
  BY <1>1, Invariance, PTL

\* SELECT ... FOR UPDATE does its work: a row read in a transaction is the
\* committed one until that transaction ends.
THEOREM Freshness == Spec => []SnapshotFresh
<1>1. IndInv => SnapshotFresh
  BY DEF IndInv
<1> QED
  BY <1>1, Invariance, PTL

\* Locking rows in ascending user id excludes AB/BA deadlocks among any number
\* of concurrent transactions.
THEOREM DeadlockFree == Spec => []NoLockCycle
<1>1. IndInv => NoLockCycle
  <2> SUFFICES ASSUME IndInv, NEW w \in Workers, NEW v \in Workers,
                      WaitsFor(w, v), WaitsFor(v, w)
               PROVE  FALSE
    BY DEF NoLockCycle
  <2>1. PICK x \in Users : NextToLock(w, x) /\ lock[x] = v
    BY DEF WaitsFor
  <2>2. PICK y \in Users : NextToLock(v, y) /\ lock[y] = w
    BY DEF WaitsFor
  <2>3. x < y /\ y < x
    BY <2>1, <2>2 DEF IndInv, LockOrder, NextToLock
  <2>4. x \in Nat /\ y \in Nat
    BY UsersAssumption
  <2> QED
    BY <2>3, <2>4
<1> QED
  BY <1>1, Invariance, PTL

\* The two notions of an active subscription, the one PremiumGuard asks and the
\* one the other guards ask, agree on every row the handlers can produce.
THEOREM GuardAgreement == Spec => []GuardsAgree
<1>1. IndInv => GuardsAgree
  BY DEF IndInv, Paid, Rows, PaidRow, GuardsAgree, IsUserPremium, IsSubscriptionActive
<1> QED
  BY <1>1, Invariance, PTL

\* An event answered with 200 is recorded, unless it is one the code drops.
THEOREM AckSettled == Spec => []AckedIsSettled
<1>1. IndInv => AckedIsSettled
  BY DEF IndInv
<1> QED
  BY <1>1, Invariance, PTL

\* Only a transaction that ends legally changes a row.
LEMMA RowsChangeInTx ==
  ASSUME IndInv, [Next]_vars, subs' # subs
  PROVE  \E w \in Workers : \E rows, ids :
           pc[w] = "tx" /\ Legal(w, rows, ids) /\ Commit(w, rows, ids)
<1>1. PICK w \in Workers : Write(w)
  BY DEF Next, vars, AckOnly, ProcessWebhook, SyncFromRc, Open, Drop, LockRow, Answer,
         EmitChanged, Fail, Rest, Crash, Tick
<1>2. Ends(w)
  BY <1>1, WriteEnds
<1> QED
  BY <1>2 DEF Ends, Rollback

\* Exactly once: a step that changes a row for a webhook records that event in
\* the same step, and the event was not recorded before.
THEOREM ExactlyOnce == Spec => AppliedOnce
<1>1. ASSUME IndInv, [Next]_vars, NEW u \in Users, Changed(u)
      PROVE  \E w \in Workers : pc[w] = "tx" /\ pc'[w] = "committed" /\
               (IsWebhook(w) => msg[w].id \notin recorded /\ msg[w].id \in recorded')
  <2>1. subs' # subs
    BY <1>1 DEF Changed
  <2>2. PICK w \in Workers : \E rows, ids :
          pc[w] = "tx" /\ Legal(w, rows, ids) /\ Commit(w, rows, ids)
    BY <1>1, <2>1, RowsChangeInTx
  <2>3. pc'[w] = "committed"
    BY <1>1, <2>2 DEF Commit, Close, IndInv, TypeOK
  <2>4. IsWebhook(w) => msg[w].id \notin recorded /\ msg[w].id \in recorded'
    BY <1>1, <2>2 DEF Commit, IndInv, OneInFlight
  <2> QED
    BY <2>2, <2>3, <2>4
<1>2. IndInv /\ [Next]_vars =>
        [\A u \in Users : Changed(u) =>
           \E w \in Workers : pc[w] = "tx" /\ pc'[w] = "committed" /\
             (IsWebhook(w) => msg[w].id \notin recorded /\ msg[w].id \in recorded')]_vars
  BY <1>1
<1> QED
  BY <1>2, Invariance, PTL DEF Spec, AppliedOnce

\* A row disappears only when a TRANSFER gives its status and period to a user
\* who had no row.
THEOREM Conservation == Spec => RowsConserved
<1>1. ASSUME IndInv, [Next]_vars, NEW u \in Users, subs[u] # NoRow, subs'[u] = NoRow
      PROVE  \E v \in Users : subs[v] = NoRow /\ subs'[v] # NoRow /\
               subs'[v].status = subs[u].status /\ subs'[v].expires = subs[u].expires
  <2>1. PICK w \in Workers : \E rows, ids :
          pc[w] = "tx" /\ Legal(w, rows, ids) /\ Commit(w, rows, ids)
    BY <1>1, RowsChangeInTx
  <2> QED
    BY <1>1, <2>1 DEF Legal, Commit
<1>2. IndInv /\ [Next]_vars =>
        [\A u \in Users : subs[u] # NoRow /\ subs'[u] = NoRow =>
           \E v \in Users : subs[v] = NoRow /\ subs'[v] # NoRow /\
             subs'[v].status = subs[u].status /\ subs'[v].expires = subs[u].expires]_vars
  BY <1>1
<1> QED
  BY <1>2, Invariance, PTL DEF Spec, RowsConserved

\* The out-of-order guard is as good as its premises: a write by a transaction
\* that found the row, from a message stamped no later than it happened, to a row
\* stamped no earlier than what it reflects, never makes the row older.
THEOREM GuardedWrites == Spec => StaleOnlyUnguarded
<1>1. ASSUME IndInv, [Next]_vars, NEW u \in Users, StaleWrite(u)
      PROVE  \E w \in Workers : pc[w] = "tx" /\ pc'[w] # "tx" /\ Unguarded(w, u)
  <2>1. subs[u] # NoRow /\ subs'[u] # NoRow /\ subs'[u].at < subs[u].at
    BY <1>1 DEF StaleWrite
  <2>2. /\ subs[u] \in Row /\ subs[u].at \in Nat /\ subs[u].ts \in Moment
        /\ subs'[u] # subs[u]
    BY <1>1, <2>1 DEF IndInv, TypeOK, Row
  <2>3. PICK w \in Workers : \E rows, ids :
          pc[w] = "tx" /\ Legal(w, rows, ids) /\ Commit(w, rows, ids)
    BY <1>1, <2>2, RowsChangeInTx
  <2>4. pc'[w] # "tx"
    BY <1>1, <2>3 DEF Commit, Close, IndInv, TypeOK
  <2>5. ~IsStaleEvent(msg[w], seen[w][u]) /\ subs'[u].at = msg[w].at
    BY <2>1, <2>2, <2>3 DEF Legal, Commit
  <2>6. msg[w].at \in Nat /\ msg[w].ts \in Moment
    BY <1>1, <2>3, MessageInHand
  <2>7. ASSUME seen[w][u] # NoRow, msg[w].ts # None, msg[w].at >= msg[w].ts,
               subs[u].ts # None, subs[u].ts >= subs[u].at
        PROVE  FALSE
    <3>1. seen[w][u] = subs[u]
      BY <1>1, <2>7 DEF IndInv, SnapshotFresh
    <3>2. msg[w].ts > subs[u].ts
      BY <2>2, <2>5, <2>6, <2>7, <3>1 DEF IsStaleEvent, Moment
    <3> QED
      BY <2>1, <2>2, <2>5, <2>6, <2>7, <3>2 DEF Moment
  <2>8. Unguarded(w, u)
    BY <2>2, <2>6, <2>7 DEF Unguarded, Moment
  <2> QED
    BY <2>3, <2>4, <2>8
<1>2. IndInv /\ [Next]_vars =>
        [\A u \in Users : StaleWrite(u) =>
           \E w \in Workers : pc[w] = "tx" /\ pc'[w] # "tx" /\ Unguarded(w, u)]_vars
  BY <1>1
<1> QED
  BY <1>2, Invariance, PTL DEF Spec, StaleOnlyUnguarded

-----------------------------------------------------------------------------
(* Subscription implements Entitlements. *)

\* Sandbox events never get as far as a transaction.
Production == \A w \in Workers : pc[w] = "tx" /\ IsWebhook(w) => ~msg[w].sandbox

\* Every step keeps it: nothing changes the event of an open transaction.
LEMMA ProductionInv == IndInv /\ Production /\ [Next]_vars => Production'
<1> SUFFICES ASSUME IndInv, Production, [Next]_vars PROVE Production'
  OBVIOUS
<1>1. ASSUME NEW w \in Workers, NEW e \in world.events, ProcessWebhook(w, e) PROVE Production'
  BY <1>1 DEF ProcessWebhook, Admitted, Open, Production, IsWebhook, IndInv, TypeOK
<1>2. ASSUME NEW w \in Workers, NEW p \in world.payloads, SyncFromRc(w, p) PROVE Production'
  <2>1. p.type = "GROUND_TRUTH"
    BY ScenariosAssumption DEF IndInv, TypeOK, Payload
  <2> QED
    BY <1>2, <2>1 DEF SyncFromRc, Open, Production, IsWebhook, IndInv, TypeOK
<1>3. ASSUME NEW w \in Workers, Write(w) PROVE Production'
  BY <1>3, WriteEnds, CloseInv DEF Ends, Commit, Rollback, Production, IsWebhook
<1>4. ASSUME NEW w \in Workers, \/ \E e \in world.events : AckOnly(w, e)
                                \/ LockRow(w) \/ Answer(w)
      PROVE  Production'
  BY <1>4 DEF AckOnly, LockRow, Answer, EmitChanged, Fail, Rest, Production, IsWebhook, IndInv, TypeOK
<1>5. CASE (\E e \in world.events : Drop(e)) \/ Crash \/ Tick \/ UNCHANGED vars
  BY <1>5 DEF Drop, Crash, Tick, vars, Production, IsWebhook
<1> QED
  BY <1>1, <1>2, <1>3, <1>4, <1>5 DEF Next

\* What an event may do, by its type.
LEMMA KindOf ==
  ASSUME NEW e
  PROVE  /\ e.type \in PurchaseEvents => Kind(e) = "grant"
         /\ e.type \in {"EXPIRATION", "REFUND"} => Kind(e) = "revoke"
         /\ e.type = "CANCELLATION" /\ e.revoke => Kind(e) = "revoke"
         /\ e.type = "CANCELLATION" /\ ~e.revoke => Kind(e) = "amend"
         /\ e.type = "SUBSCRIPTION_PAUSED" => Kind(e) = "pause"
         /\ e.type = "SUBSCRIPTION_EXTENDED" => Kind(e) = "extend"
         /\ e.type = "BILLING_ISSUE" => Kind(e) = "amend"
         /\ e.type = "TRANSFER" => Kind(e) = "move"
  BY DEF Kind, PurchaseEvents

\* What a transaction does to the rows, in the terms of Entitlements.
Serves(w) ==
    /\ pc[w] = "tx"
    /\ Rollback(w) \/ \E ids : Commit(w, subs', ids)
    /\ \/ subs' = subs
       \/ IsWebhook(w) /\ Notice(msg[w]).user \in Users /\ Ledger!Effect(Notice(msg[w]))
       \/ ~IsWebhook(w) /\ Target(w) \in Users /\ Ledger!Report(Target(w))

\* A commit of one row that is there serves, if the row may become that.
LEMMA OneRowChange ==
  ASSUME IndInv, NEW u \in Users, NEW row, subs' = [subs EXCEPT ![u] = row]
  PROVE  Ledger!Only(u) /\ subs'[u] = row
  BY DEF IndInv, TypeOK, Ledger!Only

\* An UPDATE of the row of its user serves, if the row may become that.
LEMMA UpdateServes ==
  ASSUME IndInv, NEW w \in Workers, pc[w] = "tx", NEW u \in Users, NEW row, NEW ids,
         Update(w, u, row, ids), IsWebhook(w), Notice(msg[w]).user = u,
         subs[u] # NoRow /\ subs' = [subs EXCEPT ![u] = row] => Ledger!Effect(Notice(msg[w]))
  PROVE  Serves(w)
<1>1. /\ Commit(w, subs', ids)
      /\ subs' = subs \/ (subs[u] # NoRow /\ subs' = [subs EXCEPT ![u] = row])
  BY DEF Update, Commit
<1> QED
  BY <1>1 DEF Serves

\* A stamped row is of the same plan, status and period.
LEMMA StampedKeeps ==
  ASSUME NEW row \in Row, NEW m
  PROVE  LET s == Stamped(row, m) IN
         /\ s.plan = row.plan /\ s.status = row.status /\ s.expires = row.expires
         /\ DOMAIN s = DOMAIN row
  BY DEF Stamped, Row

\* An activation grants.
LEMMA ActivateServes ==
  ASSUME IndInv, NEW w \in Workers, pc[w] = "tx", NEW u \in Users,
         ProductOf(msg[w]) # "none", Activate(w, u)
  PROVE  Rollback(w) \/ (Ledger!Grant(u) /\ \E ids : Commit(w, subs', ids))
<1> SUFFICES ASSUME ProductOf(msg[w]) # "unknown",
                    Commit(w, [subs EXCEPT ![u] = Activated(msg[w], subs[u])], {u})
             PROVE  Ledger!Grant(u) /\ \E ids : Commit(w, subs', ids)
  BY DEF Activate
<1> DEFINE row == Activated(msg[w], subs[u])
<1>1. subs[u] \in Rows
  BY DEF IndInv, Paid
<1>2. msg[w].type = "PRODUCT_CHANGE" => msg[w].newProduct \in Products
  BY MessageInHand, ScenariosAssumption DEF IndInv, TypeOK
<1>3. /\ msg[w].at \in Nat /\ msg[w].ts \in Moment /\ msg[w].expires \in Moment
      /\ msg[w].product \in Products
  BY MessageInHand
<1>4. row \in PaidRow /\ row.status = "ACTIVE"
  BY <1>1, <1>2, <1>3, ActivatedRow DEF Activated
<1>5. row # NoRow /\ row.plan # "FREE"
  BY <1>4, NullsAssumption DEF PaidRow
<1>6. subs' = [subs EXCEPT ![u] = row]
  BY DEF Commit
<1> HIDE DEF row
<1>7. Ledger!Only(u) /\ subs'[u] = row
  BY <1>6, OneRowChange
<1>8. Commit(w, subs', {u})
  BY <1>6 DEF Commit, row
<1> QED
  BY <1>4, <1>5, <1>7, <1>8 DEF Ledger!Grant

\* The handlers of events about one user do what the kind of the event allows.
LEMMA HandlerServes ==
  ASSUME IndInv, NEW w \in Workers,
         \/ SkipEvent(w) \/ UnhandledEvent(w)
         \/ HandlePurchaseOrRenewal(w) \/ HandleExtension(w) \/ HandleRefund(w)
         \/ HandleCancellation(w) \/ HandleExpiration(w) \/ HandleBillingIssue(w)
         \/ HandlePaused(w)
  PROVE  Serves(w)
<1> DEFINE m == msg[w]
           u == Target(w)
           n == Notice(m)
<1>1. pc[w] = "tx" /\ IsWebhook(w)
  BY DEF SkipEvent, UnhandledEvent, HandlePurchaseOrRenewal, HandleExtension, HandleRefund,
         HandleCancellation, HandleExpiration, HandleBillingIssue, HandlePaused, Dispatch, Ready
<1>2. ASSUME NEW ids, Commit(w, subs, ids) PROVE Serves(w)
  BY <1>1, <1>2 DEF Serves, Commit
<1>3. CASE SkipEvent(w) \/ UnhandledEvent(w)
  BY <1>2, <1>3 DEF SkipEvent, UnhandledEvent
<1>4. ASSUME NEW types, Dispatch(w, types), "TRANSFER" \notin types
      PROVE  u \in Users /\ m.type \in types /\ n.user = u /\ n.kind = Kind(m)
  <2>1. m.type \in types /\ u \in Users
    BY <1>4 DEF Dispatch
  <2>2. m.type # "TRANSFER"
    BY <1>4, <2>1
  <2>3. n.user = ResolveUser(m) /\ n.kind = Kind(m)
    BY <2>2 DEF Notice
  <2> QED
    BY <2>1, <2>3 DEF Target
<1>5. ASSUME u \in Users, subs[u] # NoRow, NEW row, subs' = [subs EXCEPT ![u] = row]
      PROVE  /\ Ledger!Only(u) /\ Ledger!Has(u) /\ subs'[u] = row
             /\ subs[u] \in Row
             /\ row \in Row => subs'[u] # NoRow
  BY <1>5, OneRowChange, NullsAssumption DEF Ledger!Has, IndInv, TypeOK
<1>6. m.at \in Nat /\ m.ts \in Moment /\ m.expires \in Moment /\ now \in Moment
  BY <1>1, MessageInHand DEF IndInv, TypeOK, Moment
<1>7. ASSUME subs[u] \in Row PROVE Stamped(subs[u], m) \in Row
  BY <1>6, <1>7 DEF Stamped, Row
<1>8. CASE HandlePurchaseOrRenewal(w)
  <2>1. Dispatch(w, PurchaseEvents) /\ "TRANSFER" \notin PurchaseEvents
    BY <1>8 DEF HandlePurchaseOrRenewal, PurchaseEvents
  <2>2. u \in Users /\ n.user = u /\ n.kind = "grant"
    BY <1>4, <2>1, KindOf
  <2>3. CASE Commit(w, subs, {u})
    BY <1>2, <2>3
  <2>4. CASE ProductOf(m) # "none" /\ Activate(w, u)
    <3>1. Rollback(w) \/ (Ledger!Grant(u) /\ \E ids : Commit(w, subs', ids))
      BY <1>1, <2>2, <2>4, ActivateServes
    <3>2. Rollback(w) => subs' = subs
      BY DEF Rollback
    <3>3. Ledger!Grant(u) => Ledger!Effect(n)
      BY <2>2 DEF Ledger!Effect
    <3> QED
      BY <1>1, <2>2, <3>1, <3>2, <3>3 DEF Serves
  <2> QED
    BY <1>8, <2>3, <2>4 DEF HandlePurchaseOrRenewal
<1>9. CASE HandleExtension(w)
  <2> DEFINE row == [Stamped(subs[u], m) EXCEPT !.expires = m.expires]
  <2>1. Dispatch(w, {"SUBSCRIPTION_EXTENDED"}) /\ (Commit(w, subs, {u}) \/ Update(w, u, row, {u}))
    BY <1>9 DEF HandleExtension
  <2>2. u \in Users /\ n.user = u /\ n.kind = "extend"
    BY <1>4, <2>1, KindOf
  <2>3. subs[u] \in Row => row \in Row /\ row.status = subs[u].status /\ row.plan = subs[u].plan
    BY <1>6, <1>7, StampedKeeps DEF Row
  <2> HIDE DEF row
  <2>4. subs[u] # NoRow /\ subs' = [subs EXCEPT ![u] = row] => Ledger!Effect(n)
    BY <1>5, <2>2, <2>3 DEF Ledger!Effect, Ledger!Extend, Ledger!Becomes, Ledger!SamePlan
  <2> QED
    BY <1>1, <1>2, <2>1, <2>2, <2>4, UpdateServes
<1>10. CASE HandleRefund(w)
  <2> DEFINE row == [Stamped(subs[u], m) EXCEPT
                       !.status = "EXPIRED", !.expires = now, !.cancel = FALSE,
                       !.ts = IF m.ts = None THEN seen[w][u].ts ELSE m.ts]
  <2>1. /\ Dispatch(w, {"REFUND"})
        /\ Commit(w, subs, {u}) \/ (seen[w][u] # NoRow /\ Update(w, u, row, {u}))
    BY <1>10 DEF HandleRefund
  <2>2. u \in Users /\ n.user = u /\ n.kind = "revoke"
    BY <1>4, <2>1, KindOf
  <2>3. seen[w][u] # NoRow => seen[w][u].ts \in Moment
    BY <2>2 DEF IndInv, TypeOK, Row
  <2>4. seen[w][u] # NoRow /\ subs[u] \in Row => row \in Row /\ row.status = "EXPIRED" /\ row.plan = subs[u].plan
    BY <1>6, <1>7, <2>3, StampedKeeps DEF Row, Statuses
  <2> HIDE DEF row
  <2>5. seen[w][u] # NoRow /\ subs[u] # NoRow /\ subs' = [subs EXCEPT ![u] = row] => Ledger!Effect(n)
    BY <1>5, <2>2, <2>4 DEF Ledger!Effect, Ledger!Revoke, Ledger!Becomes, Ledger!SamePlan
  <2> QED
    BY <1>1, <1>2, <2>1, <2>2, <2>5, UpdateServes
<1>11. CASE HandleCancellation(w)
  <2> DEFINE revoked == [Stamped(subs[u], m) EXCEPT
                           !.status = "EXPIRED", !.expires = now, !.cancel = FALSE]
             cancelled == [Stamped(subs[u], m) EXCEPT !.cancel = TRUE]
  <2>1. /\ Dispatch(w, {"CANCELLATION"})
        /\ \/ m.revoke /\ Update(w, u, revoked, {u})
           \/ ~m.revoke /\ Update(w, u, cancelled, {u})
    BY <1>11 DEF HandleCancellation
  <2>2. /\ u \in Users /\ n.user = u
        /\ m.revoke => n.kind = "revoke"
        /\ ~m.revoke => n.kind = "amend"
    BY <1>4, <2>1, KindOf
  <2>3. subs[u] \in Row =>
          /\ revoked \in Row /\ revoked.status = "EXPIRED" /\ revoked.plan = subs[u].plan
          /\ cancelled \in Row /\ cancelled.status = subs[u].status
          /\ cancelled.plan = subs[u].plan /\ cancelled.expires = subs[u].expires
    BY <1>6, <1>7, StampedKeeps DEF Row, Statuses
  <2> HIDE DEF revoked, cancelled
  <2>4. ASSUME m.revoke, subs[u] # NoRow, subs' = [subs EXCEPT ![u] = revoked] PROVE Ledger!Effect(n)
    BY <1>5, <2>2, <2>3, <2>4 DEF Ledger!Effect, Ledger!Revoke, Ledger!Becomes, Ledger!SamePlan
  <2>5. ASSUME ~m.revoke, subs[u] # NoRow, subs' = [subs EXCEPT ![u] = cancelled] PROVE Ledger!Effect(n)
    BY <1>5, <2>2, <2>3, <2>5 DEF Ledger!Effect, Ledger!Amend, Ledger!Extend, Ledger!Becomes, Ledger!SamePlan, Ledger!SamePeriod
  <2> QED
    BY <1>1, <2>1, <2>2, <2>4, <2>5, UpdateServes
<1>12. CASE HandleExpiration(w)
  <2> DEFINE row == [Stamped(subs[u], m) EXCEPT
                       !.status = "EXPIRED", !.plan = "FREE", !.cancel = FALSE]
  <2>1. Dispatch(w, {"EXPIRATION"}) /\ Update(w, u, row, {u})
    BY <1>12 DEF HandleExpiration
  <2>2. u \in Users /\ n.user = u /\ n.kind = "revoke"
    BY <1>4, <2>1, KindOf
  <2>3. subs[u] \in Row => row \in Row /\ row.status = "EXPIRED" /\ row.plan = "FREE"
    BY <1>7 DEF Row, Statuses, Plans
  <2> HIDE DEF row
  <2>4. subs[u] # NoRow /\ subs' = [subs EXCEPT ![u] = row] => Ledger!Effect(n)
    BY <1>5, <2>2, <2>3 DEF Ledger!Effect, Ledger!Revoke, Ledger!Becomes
  <2> QED
    BY <1>1, <2>1, <2>2, <2>4, UpdateServes
<1>13. CASE HandleBillingIssue(w)
  <2> DEFINE row == Stamped(subs[u], m)
  <2>1. Dispatch(w, {"BILLING_ISSUE"}) /\ Update(w, u, row, {})
    BY <1>13 DEF HandleBillingIssue
  <2>2. u \in Users /\ n.user = u /\ n.kind = "amend"
    BY <1>4, <2>1, KindOf
  <2>3. subs[u] \in Row => row \in Row /\ row.status = subs[u].status
                           /\ row.plan = subs[u].plan /\ row.expires = subs[u].expires
    BY <1>7, StampedKeeps
  <2> HIDE DEF row
  <2>4. subs[u] # NoRow /\ subs' = [subs EXCEPT ![u] = row] => Ledger!Effect(n)
    BY <1>5, <2>2, <2>3 DEF Ledger!Effect, Ledger!Amend, Ledger!Extend, Ledger!Becomes, Ledger!SamePlan, Ledger!SamePeriod
  <2> QED
    BY <1>1, <2>1, <2>2, <2>4, UpdateServes
<1>14. CASE HandlePaused(w)
  <2> DEFINE row == [Stamped(subs[u], m) EXCEPT !.status = "PAUSED"]
  <2>1. Dispatch(w, {"SUBSCRIPTION_PAUSED"}) /\ Update(w, u, row, {u})
    BY <1>14 DEF HandlePaused
  <2>2. u \in Users /\ n.user = u /\ n.kind = "pause"
    BY <1>4, <2>1, KindOf
  <2>3. subs[u] \in Row => row \in Row /\ row.status = "PAUSED"
                           /\ row.plan = subs[u].plan /\ row.expires = subs[u].expires
    BY <1>7, StampedKeeps DEF Row, Statuses
  <2> HIDE DEF row
  <2>4. subs[u] # NoRow /\ subs' = [subs EXCEPT ![u] = row] => Ledger!Effect(n)
    BY <1>5, <2>2, <2>3 DEF Ledger!Effect, Ledger!Pause, Ledger!Becomes, Ledger!SamePlan, Ledger!SamePeriod
  <2> QED
    BY <1>1, <2>1, <2>2, <2>4, UpdateServes
<1> QED
  BY <1>3, <1>8, <1>9, <1>10, <1>11, <1>12, <1>13, <1>14

\* A TRANSFER moves, or does nothing.
LEMMA TransferServes ==
  ASSUME IndInv, NEW w \in Workers, HandleTransfer(w)
  PROVE  Serves(w)
<1> DEFINE m == msg[w]
           n == Notice(m)
           from == First(m)
           row == Moved(subs[from], m)
<1>1. pc[w] = "tx" /\ IsWebhook(w) /\ m.type = "TRANSFER"
  <2>1. pc[w] = "tx" /\ m.type = "TRANSFER"
    BY DEF HandleTransfer, Ready
  <2> QED
    BY <2>1 DEF IsWebhook, IndInv, InHand
<1>2. n.user = from /\ n.to = m.to /\ n.kind = "move"
  BY <1>1, KindOf DEF Notice
<1>3. CASE Rollback(w) \/ Commit(w, subs, {})
  BY <1>1, <1>3 DEF Serves, Rollback, Commit
<1>4. CASE /\ Targets(m) # {} /\ seen[w][from] # NoRow /\ subs[m.to] = NoRow
           /\ Commit(w, [subs EXCEPT ![m.to] = row, ![from] = NoRow], {from, m.to})
  <2>1. from \in Users /\ m.to \in Users
    BY <1>1, <1>4 DEF Targets
  <2>2. subs[from] \in PaidRow
    BY <1>4, <2>1, ReadIsWritable
  <2>3. m.at \in Nat /\ m.ts \in Moment
    BY <1>1, MessageInHand
  <2>4. /\ row \in PaidRow /\ row # NoRow /\ subs[from] # NoRow /\ from # m.to
        /\ row.status = subs[from].status /\ row.plan = subs[from].plan
        /\ row.expires = subs[from].expires
    BY <1>4, <2>2, <2>3, MovedRow, NullsAssumption DEF PaidRow
  <2> HIDE DEF row
  <2>5. subs' = [subs EXCEPT ![m.to] = row, ![from] = NoRow] /\ Commit(w, subs', {from, m.to})
    BY <1>4 DEF Commit
  <2>6. subs'[m.to] = row /\ subs' = [subs EXCEPT ![from] = NoRow, ![m.to] = subs'[m.to]]
    BY <2>1, <2>4, <2>5 DEF IndInv, TypeOK
  <2>7. Ledger!Move(from, m.to)
    BY <1>4, <2>4, <2>6 DEF Ledger!Move, Ledger!Has
  <2> QED
    BY <1>1, <1>2, <2>1, <2>5, <2>7 DEF Serves, Ledger!Effect
<1> QED
  BY <1>3, <1>4 DEF HandleTransfer

\* The ground truth gives access, or takes it from the row it has read.
LEMMA GroundTruthServes ==
  ASSUME IndInv, NEW w \in Workers, ApplyRcGroundTruth(w)
  PROVE  Serves(w)
<1> DEFINE m == msg[w]
           u == Target(w)
           row == [Stamped(subs[u], m) EXCEPT !.status = "EXPIRED", !.cancel = FALSE]
<1>1. pc[w] = "tx" /\ u \in Users /\ ~IsWebhook(w) /\ m.type = "GROUND_TRUTH"
  BY DEF ApplyRcGroundTruth, Ready, IsWebhook
<1>2. CASE Commit(w, subs, {})
  BY <1>1, <1>2 DEF Serves, Commit
<1>3. CASE m.product # "none" /\ Activate(w, u)
  <2>1. ProductOf(m) # "none"
    BY <1>1, <1>3 DEF ProductOf
  <2>2. Rollback(w) \/ (Ledger!Grant(u) /\ \E ids : Commit(w, subs', ids))
    BY <1>1, <1>3, <2>1, ActivateServes
  <2>3. Rollback(w) => subs' = subs
    BY DEF Rollback
  <2> QED
    BY <1>1, <2>2, <2>3 DEF Serves, Ledger!Report
<1>4. CASE /\ seen[w][u] # NoRow /\ seen[w][u].status = "ACTIVE"
           /\ Commit(w, [subs EXCEPT ![u] = row], {u})
  <2>1. subs[u] = seen[w][u] /\ subs[u] \in PaidRow
    BY <1>1, <1>4, ReadIsWritable
  <2>2. m.at \in Nat /\ m.ts \in Moment
    BY <1>1, MessageInHand
  <2>3. Stamped(subs[u], m) \in Row
    BY <2>1, <2>2, StampedRow DEF PaidRow
  <2>4. row \in Row /\ row.status = "EXPIRED" /\ row.plan = subs[u].plan /\ row.expires = subs[u].expires
    BY <2>1, <2>3, StampedKeeps DEF Row, Statuses, PaidRow
  <2> HIDE DEF row
  <2>5. subs' = [subs EXCEPT ![u] = row] /\ Commit(w, subs', {u})
    BY <1>4 DEF Commit
  <2>6. Ledger!Only(u) /\ subs'[u] = row /\ row # NoRow
    BY <1>1, <2>4, <2>5, OneRowChange, NullsAssumption
  <2>7. Ledger!Has(u) /\ subs[u].status = "ACTIVE"
    BY <1>4, <2>1 DEF Ledger!Has
  <2>8. Ledger!Report(u)
    BY <2>4, <2>6, <2>7
       DEF Ledger!Report, Ledger!Revoke, Ledger!Becomes, Ledger!SamePlan, Ledger!SamePeriod
  <2> QED
    BY <1>1, <2>5, <2>8 DEF Serves
<1> QED
  BY <1>2, <1>3, <1>4 DEF ApplyRcGroundTruth

\* Every write, seen from outside, is a notice settled, an answer learnt, or
\* nothing.
LEMMA WriteImplements ==
  ASSUME IndInv, Production, NEW w \in Workers, Write(w)
  PROVE  [Ledger!Next]_(Ledger!vars)
<1>1. Serves(w)
  BY HandlerServes, TransferServes, GroundTruthServes DEF Write, WebhookStep
<1> DEFINE n == Notice(msg[w])
<1>2. UNCHANGED <<world, acked>>
  BY <1>1 DEF Serves, Rollback, Commit, Close
<1>3. CASE Rollback(w)
  BY <1>2, <1>3 DEF Rollback, Ledger!vars
<1>4. CASE IsWebhook(w) /\ \E ids : Commit(w, subs', ids)
  <2>1. msg[w] \in world.events /\ msg[w].id \notin recorded /\ ~msg[w].sandbox
    BY <1>1, <1>4, MessageInHand DEF Serves, Production, IndInv, OneInFlight
  <2>2. recorded' = recorded \cup {msg[w].id}
    BY <1>4 DEF Commit
  <2>3. n \in {Notice(e) : e \in world.events} /\ n.id = msg[w].id /\ n.sandbox = msg[w].sandbox
    BY <2>1 DEF Notice
  <2>4. subs' = subs \/ (n.user \in Users /\ Ledger!Effect(n))
    BY <1>1, <1>4 DEF Serves
  <2> HIDE DEF n
  <2>5. Ledger!Settle(n)
    BY <1>2, <2>1, <2>2, <2>3, <2>4 DEF Ledger!Settle
  <2> QED
    BY <2>3, <2>5 DEF Ledger!Next
<1>5. CASE ~IsWebhook(w) /\ \E ids : Commit(w, subs', ids)
  <2>1. UNCHANGED recorded
    BY <1>5 DEF Commit
  <2>2. CASE subs' = subs
    BY <1>2, <2>1, <2>2 DEF Ledger!vars
  <2>3. CASE Target(w) \in Users /\ Ledger!Report(Target(w))
    BY <1>2, <2>1, <2>3 DEF Ledger!Next, Ledger!Learn
  <2> QED
    BY <1>1, <1>5, <2>2, <2>3 DEF Serves
<1> QED
  BY <1>1, <1>3, <1>4, <1>5 DEF Serves

\* Every other step: an event recorded unread, an answer, or nothing.
LEMMA QuietImplements ==
  ASSUME IndInv, [Next]_vars, \A w \in Workers : ~Write(w)
  PROVE  [Ledger!Next]_(Ledger!vars)
<1>1. CASE UNCHANGED <<world, subs, recorded, acked>>
  BY <1>1 DEF Ledger!vars
<1>2. ASSUME NEW w \in Workers, NEW e \in world.events, AckOnly(w, e)
      PROVE  [Ledger!Next]_(Ledger!vars)
  <2> DEFINE n == Notice(e)
  <2>1. /\ ~e.sandbox /\ recorded' = recorded \cup {e.id} /\ UNCHANGED <<world, subs, acked>>
    BY <1>2 DEF AckOnly, Admitted
  <2>2. n \in {Notice(f) : f \in world.events} /\ n.id = e.id /\ n.sandbox = e.sandbox
    BY DEF Notice
  <2> HIDE DEF n
  <2>3. CASE e.id \in recorded
    <3>1. recorded' = recorded
      BY <2>1, <2>3
    <3> QED
      BY <1>1, <2>1, <3>1
  <2>4. CASE e.id \notin recorded
    <3>1. Ledger!Settle(n)
      BY <2>1, <2>2, <2>4 DEF Ledger!Settle
    <3> QED
      BY <2>2, <3>1 DEF Ledger!Next
  <2> QED
    BY <2>3, <2>4
<1>3. ASSUME NEW e \in world.events,
             UNCHANGED <<world, subs, recorded>>, acked' = acked \cup {e.id},
             e.id \in recorded \/ e.sandbox \/ e.ts # None
      PROVE  [Ledger!Next]_(Ledger!vars)
  <2> DEFINE n == Notice(e)
  <2>1. /\ n \in {Notice(f) : f \in world.events} /\ n.id = e.id /\ n.sandbox = e.sandbox
        /\ n.timed = (e.ts # None)
    BY DEF Notice
  <2> HIDE DEF n
  <2>2. Ledger!Answer(n)
    BY <1>3, <2>1 DEF Ledger!Answer
  <2> QED
    BY <2>1, <2>2 DEF Ledger!Next
<1>4. ASSUME NEW e \in world.events, Drop(e) PROVE [Ledger!Next]_(Ledger!vars)
  BY <1>3, <1>4 DEF Drop
<1>5. ASSUME NEW w \in Workers, Answer(w) PROVE [Ledger!Next]_(Ledger!vars)
  <2>1. UNCHANGED <<world, subs, recorded>>
    BY <1>5 DEF Answer, EmitChanged, Fail, Rest
  <2>2. CASE acked' = acked
    BY <1>1, <2>1, <2>2
  <2>3. CASE pc[w] = "committed" /\ IsWebhook(w) /\ acked' = acked \cup {msg[w].id}
    <3>1. msg[w] \in world.events /\ msg[w].id \in recorded
      BY <2>3, MessageInHand DEF IndInv, AnswerRecorded
    <3> QED
      BY <1>3, <2>1, <2>3, <3>1
  <2> QED
    BY <1>5, <2>2, <2>3 DEF Answer, EmitChanged, Fail
<1>6. ASSUME NEW w \in Workers, NEW e \in world.events, ProcessWebhook(w, e)
      PROVE  UNCHANGED <<world, subs, recorded, acked>>
  BY <1>6 DEF ProcessWebhook, Open
<1>7. ASSUME NEW w \in Workers, NEW p \in world.payloads, SyncFromRc(w, p)
      PROVE  UNCHANGED <<world, subs, recorded, acked>>
  BY <1>7 DEF SyncFromRc, Open
<1>8. CASE (\E w \in Workers : LockRow(w)) \/ Crash \/ Tick \/ UNCHANGED vars
  BY <1>1, <1>8 DEF LockRow, Crash, Tick, vars
<1> QED
  BY <1>1, <1>2, <1>4, <1>5, <1>6, <1>7, <1>8 DEF Next

\* The rows, the record and the answers are those of a service that handles each
\* event alone, at one moment and once, whatever transactions do to each other.
THEOREM SubscriptionImplementsEntitlements == Spec => ServesEntitlements
<1>1. Init => Ledger!Init /\ Production
  <2> SUFFICES ASSUME Init PROVE Ledger!Init /\ Production
    OBVIOUS
  <2>1. \A u \in Users : subs[u] = NoRow \/ subs[u].status \in Ledger!Statuses
    BY DEF Init, SeedRow, Ledger!Statuses
  <2>2. Ledger!Init
    BY <2>1 DEF Init, Ledger!Init, Ledger!Has
  <2> QED
    BY <2>2 DEF Init, Production
<1>2. IndInv /\ Production /\ [Next]_vars => [Ledger!Next]_(Ledger!vars)
  BY WriteImplements, QuietImplements
<1> QED
  BY <1>1, <1>2, InitInv, NextInv, ProductionInv, PTL DEF Spec, ServesEntitlements, Ledger!Spec

=============================================================================
