---------------------------- MODULE Entitlements ----------------------------
(***************************************************************************)
(* What the rest of the application takes for granted of the subscription  *)
(* rows, whoever writes them: each notice of RevenueCat is handled alone,  *)
(* at one moment and once, does to the rows what its kind allows and is    *)
(* answered afterwards.  Transactions, locks, deliveries and crashes have  *)
(* no place here, and nor have timestamps: a notice may also do nothing.   *)
(***************************************************************************)
EXTENDS Integers

CONSTANTS
    Users,
    NoRow           \* no subscription row

VARIABLES
    notices,    \* what RevenueCat has to tell: id, kind, user, to, sandbox, timed
    rows,       \* the row of each user: status, plan, expires and more
    recorded,   \* ids of the notices handled
    answered    \* ids of the notices answered with 200

vars == <<notices, rows, recorded, answered>>

Has(u) == rows[u] # NoRow
Statuses == {"ACTIVE", "EXPIRED", "PAUSED"}

Init ==
    /\ rows = [u \in Users |-> rows[u]]
    /\ \A u \in Users : Has(u) => rows[u].status \in Statuses
    /\ recorded = {} /\ answered = {}

-----------------------------------------------------------------------------
(* What may become of one row, or of two. *)

\* No row but that of u changes.
Only(u) == rows' = [rows EXCEPT ![u] = rows'[u]]

Becomes(u, status) ==
    /\ Only(u) /\ Has(u) /\ rows'[u] # NoRow
    /\ rows'[u].status = status

SamePlan(u) == rows'[u].plan = rows[u].plan
SamePeriod(u) == rows'[u].expires = rows[u].expires

Grant(u) ==
    /\ Only(u) /\ rows'[u] # NoRow
    /\ rows'[u].status = "ACTIVE" /\ rows'[u].plan # "FREE"

Revoke(u) == Becomes(u, "EXPIRED") /\ (SamePlan(u) \/ rows'[u].plan = "FREE")
Pause(u) == Becomes(u, "PAUSED") /\ SamePlan(u) /\ SamePeriod(u)
Extend(u) == Becomes(u, rows[u].status) /\ SamePlan(u)
Amend(u) == Extend(u) /\ SamePeriod(u)

\* Only into an empty place, and as it was.
Move(u, v) ==
    /\ Has(u) /\ ~Has(v)
    /\ rows' = [rows EXCEPT ![u] = NoRow, ![v] = rows'[v]]
    /\ rows'[v] # NoRow
    /\ rows'[v].status = rows[u].status /\ rows'[v].plan = rows[u].plan
    /\ rows'[v].expires = rows[u].expires

Effect(n) ==
    \/ n.kind = "grant" /\ Grant(n.user)
    \/ n.kind = "revoke" /\ Revoke(n.user)
    \/ n.kind = "pause" /\ Pause(n.user)
    \/ n.kind = "extend" /\ Extend(n.user)
    \/ n.kind = "amend" /\ Amend(n.user)
    \/ n.kind = "move" /\ n.to \in Users /\ Move(n.user, n.to)

\* RevenueCat was asked about u: an entitlement makes the row one in force, and
\* without one a row in force expires, and no other.
Report(u) ==
    \/ Grant(u)
    \/ Has(u) /\ rows[u].status = "ACTIVE" /\ Revoke(u) /\ SamePlan(u) /\ SamePeriod(u)

-----------------------------------------------------------------------------

Settle(n) ==
    /\ n.id \notin recorded /\ ~n.sandbox
    /\ recorded' = recorded \cup {n.id}
    /\ UNCHANGED rows \/ (n.user \in Users /\ Effect(n))
    /\ UNCHANGED <<notices, answered>>

\* 200, once it is handled; or without, if it is one to ignore.
Answer(n) ==
    /\ n.id \in recorded \/ n.sandbox \/ n.timed
    /\ answered' = answered \cup {n.id}
    /\ UNCHANGED <<notices, rows, recorded>>

Learn(u) == Report(u) /\ UNCHANGED <<notices, recorded, answered>>

Next ==
    \/ \E n \in notices : Settle(n) \/ Answer(n)
    \/ \E u \in Users : Learn(u)

Spec == Init /\ [][Next]_vars

=============================================================================
