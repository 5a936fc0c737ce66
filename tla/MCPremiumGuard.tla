--------------------------- MODULE MCPremiumGuard ---------------------------
(* Small instances of PremiumGuard.  Events and answers are those of          *)
(* MCSubscription's vocabulary, kept to what changes access.                  *)
EXTENDS PremiumGuard, TLC

Ev(id, type, u, at) ==
    [id |-> id, type |-> type, ids |-> <<u>>, to |-> 0, product |-> "MONTHLY",
     newProduct |-> "none", expires |-> at + 2, revoke |-> FALSE,
     at |-> at, ts |-> at, sandbox |-> FALSE]

Entitled(u) ==
    [type |-> "GROUND_TRUTH", ids |-> <<u>>, active |-> TRUE, product |-> "YEARLY",
     expires |-> None]

Scenario(events, payloads) == [events |-> events, payloads |-> payloads, seeded |-> {1}]

\* An expiry and a renewal, with RevenueCat confirming the entitlement.
RevokeAndBuy == Scenario({ Ev(1, "EXPIRATION", 1, 1), Ev(2, "RENEWAL", 1, 2) }, {Entitled(1)})

\* The row moves to another user, who may be cached as well.
MoveAway == Scenario({ [Ev(1, "TRANSFER", 1, 0) EXCEPT !.to = 2],
                       Ev(2, "EXPIRATION", 2, 1) }, {})

Scenarios0 == {RevokeAndBuy, MoveAway}

Symmetry == Permutations(Workers) \cup Permutations(Requests)
=============================================================================
