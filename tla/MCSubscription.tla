--------------------------- MODULE MCSubscription ---------------------------
(***************************************************************************)
(* Small instances of Subscription: the scenarios each run starts from.    *)
(***************************************************************************)
EXTENDS Subscription, TLC

Ev(id, type, user, at) ==
    [id |-> id, type |-> type, ids |-> <<user>>, to |-> 0, product |-> "MONTHLY",
     newProduct |-> "none", expires |-> at + 2, revoke |-> FALSE,
     at |-> at, ts |-> at, sandbox |-> FALSE]

Yes == [type |-> "GROUND_TRUTH", ids |-> <<1>>, active |-> TRUE, product |-> "YEARLY",
        expires |-> None]
No == [Yes EXCEPT !.active = FALSE, !.product = "none"]

Scenario(events, payloads, seeded) ==
    [events |-> events, payloads |-> payloads, seeded |-> seeded]

\* One user's life from the first purchase, ground truth racing the webhooks.
Life == Scenario(
    { Ev(1, "INITIAL_PURCHASE", 1, 1),
      [Ev(2, "CANCELLATION", 1, 2) EXCEPT !.ids = <<9, 1>>],
      Ev(3, "EXPIRATION", 1, 2) },
    {Yes, No}, {})

\* A user with a row: untimed events, a plan change, a pause, an extension
\* before and after the end.
Odd == Scenario(
    { [Ev(1, "PRODUCT_CHANGE", 1, 1) EXCEPT !.product = "none", !.newProduct = "LIFETIME"],
      [Ev(2, "REFUND", 1, 1) EXCEPT !.ts = None],
      [Ev(3, "CANCELLATION", 1, 1) EXCEPT !.revoke = TRUE, !.ts = None],
      Ev(4, "SUBSCRIPTION_PAUSED", 1, 1),
      Ev(5, "BILLING_ISSUE", 1, 1),
      [Ev(6, "SUBSCRIPTION_EXTENDED", 1, 1) EXCEPT !.expires = 3],
      [Ev(7, "EXPIRATION", 1, 1) EXCEPT !.ts = None] },
    {}, {1})

\* Everything a handler skips, drops or rejects.
Skipped == Scenario(
    { [Ev(1, "INITIAL_PURCHASE", 1, 0) EXCEPT !.expires = None],
      [Ev(2, "SUBSCRIPTION_EXTENDED", 1, 1) EXCEPT !.expires = None],
      Ev(3, "REFUND", 1, 0),
      Ev(4, "UNHANDLED", 1, 1),
      Ev(5, "TEST", 1, 0),
      Ev(6, "RENEWAL", 9, 0) },
    {}, {})
Rejected == Scenario(
    { [Ev(1, "RENEWAL", 1, 0) EXCEPT !.product = "unknown"],
      [Ev(2, "RENEWAL", 1, 0) EXCEPT !.product = "none"],
      [Ev(3, "RENEWAL", 1, 1) EXCEPT !.sandbox = TRUE] },
    {[Yes EXCEPT !.product = "unknown"]}, {})

\* TRANSFERs in both directions, to nobody and from nobody known, and writers on both rows.
Transfers == Scenario(
    { [Ev(1, "TRANSFER", 1, 1) EXCEPT !.to = 2],
      [Ev(2, "TRANSFER", 2, 1) EXCEPT !.to = 1],
      [Ev(3, "TRANSFER", 1, 0) EXCEPT !.to = 9],
      [Ev(6, "TRANSFER", 1, 0) EXCEPT !.ids = <<Anonymous>>, !.to = 1],
      Ev(4, "RENEWAL", 2, 1),
      Ev(5, "CANCELLATION", 1, 1) },
    {}, {1})

\* The newest event of a user with a row; two purchases racing for the first row.
Ordered == Scenario(
    { Ev(1, "RENEWAL", 1, 1), Ev(2, "EXPIRATION", 1, 2) },
    {No}, {1})
FirstBuy == Scenario(
    { Ev(1, "RENEWAL", 1, 1), Ev(2, "INITIAL_PURCHASE", 1, 2) }, {}, {})

\* Events that throw whenever they are delivered: an id that is no UUID, an unknown
\* product, and two TRANSFERs that cross each other, with a row at either end.  They
\* are so old that the replay window closes on them.
Poison == Scenario(
    { [Ev(1, "TRANSFER", 1, 0) EXCEPT !.to = 2],
      [Ev(2, "TRANSFER", 2, 0) EXCEPT !.to = 1],
      [Ev(3, "TRANSFER", 1, 0) EXCEPT !.ids = <<Anonymous>>, !.to = 1] },
    {}, {1, 2})

SafetyScenarios == {Life, Odd, Skipped, Rejected, Transfers}
LiveScenarios == {Ordered, FirstBuy, Poison}

\* A cancellation delivered late, while a sync creates the row.
LateCancel == {Scenario({Ev(1, "CANCELLATION", 1, 0)}, {Yes}, {})}

WorkerSymmetry == Permutations(Workers)
=============================================================================
