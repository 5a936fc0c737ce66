------------------------------ MODULE Catalog -------------------------------
(***************************************************************************)
(* The scenarios and who sees them: what editors draft, change, publish    *)
(* and bundle under a gift code, what personalization adds and prunes, and *)
(* what the detail, the lists, the lessons, the gift codes and the guard   *)
(* of the chat (with its cache of access tiers) let a user have.           *)
(***************************************************************************)
EXTENDS Handlers, Integers, Sequences, FiniteSets

CONSTANTS
    Members,    \* users; 0 stands for nobody
    Creators,   \* those with the role kol
    Codes,      \* gift codes
    Locales,    \* languages of scenarios
    TierTtl,    \* CACHE_TTL_MS
    MaxRows,    \* bound on the scenarios
    LastHour    \* bound on the clock

VARIABLES
    scenarios,  \* rows of scenarios; a row's id is its place, deleted ones stay
    bundles,    \* rows of kol_bundles, with the scenarios the request named
    attached,   \* rows of kol_bundle_scenarios
    grants,     \* rows of user_scenario_access
    subscribed, \* users with an active plan
    tiers,      \* AccessTierCacheService.cache
    hour,
    tierHeld,   \* when each scenario last had each tier
    shown       \* which users were shown which scenarios

catalogVars == <<scenarios, bundles, attached, grants, subscribed, tiers, hour, tierHeld, shown>>

\* premium_plus is premium to the guard of the chat.
Tiers == {"free", "premium", "none"}
Entry(type, status, tier, owner, lang, listed) ==
    [type |-> type, status |-> status, tier |-> tier, owner |-> owner, lang |-> lang,
     listed |-> listed, live |-> TRUE]

\* accessTier of every id, taken or not.
Tier(i) == IF i \in DOMAIN scenarios /\ scenarios[i].live THEN scenarios[i].tier ELSE "none"
Present(i) == Tier(i) # "none"

Fetching == {"tier", "fetch tier", "put tier"}
TierAsked == [s \in Slots |->
    IF at[s] \notin Fetching \cup {"tier known"} THEN {}
    ELSE {[key |-> arg[s].row, since |-> arg[s].since,
           told |-> IF at[s] = "tier known" THEN {arg[s].tier} ELSE {}]}]

StaleTier == INSTANCE StaleRead WITH
    Readers <- Slots, Keys <- 1 .. MaxRows, Values <- Tiers, Window <- TierTtl,
    reg <- [i \in 1 .. MaxRows |-> Tier(i)], clock <- hour, held <- tierHeld, asked <- TierAsked

CatalogInit ==
    /\ scenarios = world.catalog
    /\ bundles = << >> /\ attached = {} /\ grants = {} /\ subscribed = {} /\ shown = {}
    /\ tiers = << >> /\ hour = 0
    /\ tierHeld = [i \in 1 .. MaxRows |-> [t \in Tiers |-> IF Tier(i) = t THEN 0 ELSE StaleTier!Never]]

\* The rows are changed in one statement: what the tiers are from now on was never
\* held before this hour.
Store(rows) ==
    /\ scenarios' = rows
    /\ tierHeld' = [i \in 1 .. MaxRows |-> [t \in Tiers |-> IF Tier(i)' = t THEN hour ELSE tierHeld[i][t]]]

\* The table's CHECK: a personal scenario has an owner and is in no category, every
\* other is in one and nobody's.
TypeOwnerCheck(row) ==
    IF row.type = "personal" THEN row.owner # 0 /\ ~row.listed ELSE row.owner = 0 /\ row.listed

\* What the columns hold, in the rows there are from the start too.
Row == [type : {"system", "kol", "personal"}, status : {"draft", "published", "archived"},
        tier : {"free", "premium"}, owner : Members \cup {0}, lang : Locales,
        listed : BOOLEAN, live : BOOLEAN]

ASSUME RowsAssumption == \A w \in Worlds :
    /\ w.catalog \in Seq(Row) /\ Len(w.catalog) <= MaxRows
    /\ \A i \in DOMAIN w.catalog : TypeOwnerCheck(w.catalog[i])
ASSUME CatalogAssumption == 0 \notin Members /\ {MaxRows, TierTtl, LastHour} \subseteq Nat

Insert(row) ==
    /\ Len(scenarios) < MaxRows
    /\ IF TypeOwnerCheck(row) THEN Store(Append(scenarios, row)) ELSE UNCHANGED <<scenarios, tierHeld>>

-----------------------------------------------------------------------------
(* Editors. *)

\* The draft of a scenario has no category: no such row is stored.
GenerateDraft ==
    \E l \in Locales, tier \in {"free", "premium"} :
       /\ Instant("draft")
       /\ Insert(Entry("system", "draft", tier, 0, l, FALSE))
       /\ UNCHANGED <<bundles, attached, grants, subscribed, tiers, hour, shown>>

\* Publish and archive write the status, an update the tier: each finds the row first.
Changes == [field : {"status"}, to : {"published", "archived"}] \cup [field : {"tier"}, to : {"free", "premium"}]

EditContent(s) ==
    \E i \in DOMAIN scenarios, change \in Changes :
       /\ Present(i)
       /\ Begin(s, "edit", "content", [op |-> "edit", row |-> i, change |-> change])
       /\ UNCHANGED catalogVars

\* No statement invalidates the cache of tiers.
UpdateContent(s) ==
    LET i == arg[s].row
        change == arg[s].change IN
    /\ at[s] = "content"
    /\ IF Present(i)
       THEN Store(IF change.field = "tier" THEN [scenarios EXCEPT ![i].tier = change.to]
                  ELSE [scenarios EXCEPT ![i].status = change.to])
       ELSE UNCHANGED <<scenarios, tierHeld>>
    /\ End(s)
    /\ UNCHANGED <<bundles, attached, grants, subscribed, tiers, hour, shown>>

-----------------------------------------------------------------------------
(* Personal scenarios come and go. *)

\* No category: only the default tier and status.
PersonalEntry(u, l) == Entry("personal", "published", "free", u, l, FALSE)

StorePersonal ==
    \E u \in Members, l \in Locales :
       /\ Instant("personalize")
       /\ Insert(PersonalEntry(u, l))
       /\ UNCHANGED <<bundles, attached, grants, subscribed, tiers, hour, shown>>

DropPersonal ==
    \E i \in DOMAIN scenarios :
       /\ Present(i) /\ scenarios[i].type = "personal"
       /\ Instant("personalize")
       /\ Store([scenarios EXCEPT ![i].live = FALSE])
       /\ UNCHANGED <<bundles, attached, grants, subscribed, tiers, hour, shown>>

-----------------------------------------------------------------------------
(* Bundles. *)

Rows(S) == (SUBSET S) \ {{}}
Attachable(S) == \A i \in S : Present(i) /\ scenarios[i].type = "kol" /\ scenarios[i].owner = 0
Attached(S) == \E a \in attached : a[2] \in S

\* A bundle of its own, or more scenarios for one there is.
CreateBundle(s) ==
    \E u \in Creators, code \in Codes, S \in Rows(DOMAIN scenarios) :
       /\ Begin(s, "create bundle", "attachable", [op |-> "create", creator |-> u, code |-> code, rows |-> S])
       /\ UNCHANGED catalogVars
AttachScenarios(s) ==
    \E b \in DOMAIN bundles, S \in Rows(DOMAIN scenarios) :
       /\ Begin(s, "attach", "attachable", [op |-> "attach", bundle |-> b, rows |-> S])
       /\ UNCHANGED catalogVars

ValidateScenarios(s) ==
    /\ at[s] = "attachable"
    /\ IF Attachable(arg[s].rows) THEN Go(s, "unattached", arg[s]) ELSE End(s)
    /\ UNCHANGED catalogVars

AssertNoAttachments(s) ==
    /\ at[s] = "unattached"
    /\ IF Attached(arg[s].rows) THEN End(s) ELSE Go(s, "attach", arg[s])
    /\ UNCHANGED catalogVars

DuplicateFaulty(a) == a.op = "create" /\ \E b \in DOMAIN bundles : bundles[b].code = a.code

\* The unique columns: gift_code, and scenario_id of what another bundle has.
Duplicate(a) ==
    \/ a.op = "create" /\ \E b \in DOMAIN bundles : bundles[b].code = a.code
    \/ \E p \in attached : p[2] \in a.rows /\ (a.op = "attach" => p[1] # a.bundle)

\* The transaction: everything, or 409 and nothing.  What the same bundle has got
\* meanwhile is skipped, or refused where the save's own select came too early.
StoreBundle(s) ==
    LET a == arg[s] IN
    /\ at[s] = "attach"
    /\ \/ /\ Duplicate(a) \/ Attached(a.rows)
          /\ UNCHANGED <<bundles, attached>>
       \/ /\ ~Duplicate(a)
          /\ bundles' = IF a.op = "create" THEN Append(bundles, [code |-> a.code, creator |-> a.creator])
                        ELSE bundles
          /\ attached' = attached \cup ({IF a.op = "create" THEN Len(bundles') ELSE a.bundle} \X a.rows)
    /\ End(s)
    /\ UNCHANGED <<scenarios, grants, subscribed, tiers, hour, tierHeld, shown>>

Redeem(s) ==
    \E u \in Members, code \in Codes :
       /\ Begin(s, "redeem", "members", [op |-> "redeem", user |-> u, code |-> code])
       /\ UNCHANGED catalogVars

Redeemed(code) == {a[2] : a \in {p \in attached : bundles[p[1]].code = code}}

\* 404 for an unknown code.
FindBundle(s) ==
    LET S == Redeemed(arg[s].code) IN
    /\ at[s] = "members"
    /\ IF S = {} THEN End(s)
       ELSE Go(s, "grant", [op |-> "redeem", user |-> arg[s].user, code |-> arg[s].code, rows |-> S])
    /\ UNCHANGED catalogVars

\* INSERT ... ON CONFLICT DO NOTHING, then the published ones are answered.
Grant(s) ==
    LET a == arg[s] IN
    /\ at[s] = "grant"
    /\ grants' = grants \cup ({a.user} \X a.rows)
    /\ shown' = shown \cup {p \in {a.user} \X a.rows :
                  scenarios[p[2]].status = "published" /\ scenarios[p[2]].type = "kol" /\ scenarios[p[2]].owner = 0}
    /\ End(s)
    /\ UNCHANGED <<scenarios, bundles, attached, subscribed, tiers, hour, tierHeld>>

-----------------------------------------------------------------------------
(* What a user sees. *)

Published(i) == Present(i) /\ scenarios[i].status = "published"

VisibleFaulty(u, i, l) == Published(i) /\ scenarios[i].lang = l

\* findVisibleToUser
Visible(u, i, l) == Published(i) /\ scenarios[i].owner \in {0, u} /\ scenarios[i].lang = l

\* listPublicByType
Public(type, l) == {i \in DOMAIN scenarios :
    Published(i) /\ scenarios[i].type = type /\ scenarios[i].lang = l /\ scenarios[i].owner = 0}
\* listPersonal: one's own, and those granted.
PersonalList(u, l) ==
    {i \in DOMAIN scenarios : Published(i) /\ scenarios[i].type = "personal"
                               /\ scenarios[i].owner = u /\ scenarios[i].lang = l}
    \cup {i \in Public("kol", l) : <<u, i>> \in grants}
\* The lessons: an inner join with the category, whoever the owner is.
Lessons(u, l) ==
    {i \in DOMAIN scenarios : Published(i) /\ scenarios[i].listed
                               /\ (scenarios[i].lang = l \/ <<u, i>> \in grants)}

\* A scenario that is locked for want of a subscription is shown all the same.
Browse ==
    \E u \in Members, l \in Locales :
       /\ Instant("browse")
       /\ \/ shown' = shown \cup ({u} \X (Public("system", l) \cup PersonalList(u, l) \cup Lessons(u, l)))
          \/ \E i \in DOMAIN scenarios :
               Visible(u, i, l) /\ shown' = shown \cup {<<u, i>>}
       /\ UNCHANGED <<scenarios, bundles, attached, grants, subscribed, tiers, hour, tierHeld>>

Subscribe ==
    \E u \in Members :
       /\ Instant("subscription")
       /\ subscribed' = IF u \in subscribed THEN subscribed \ {u} ELSE subscribed \cup {u}
       /\ UNCHANGED <<scenarios, bundles, attached, grants, tiers, hour, tierHeld, shown>>

-----------------------------------------------------------------------------
(* The chat, behind ResourceAccessGuard. *)

EnterChat(s) ==
    \E u \in Members, i \in 1 .. MaxRows :
       /\ Begin(s, "chat", "tier", [op |-> "chat", user |-> u, row |-> i, since |-> hour, from |-> hour, tier |-> "none"])
       /\ UNCHANGED catalogVars

Fresh(i) == {k \in DOMAIN tiers : k = i /\ tiers[k].expires > hour}

LookUpTier(s) ==
    /\ at[s] = "tier"
    /\ IF Fresh(arg[s].row) # {}
       THEN Go(s, "tier known", [arg[s] EXCEPT !.tier = tiers[arg[s].row].tier])
       ELSE Go(s, "fetch tier", [arg[s] EXCEPT !.from = hour])
    /\ UNCHANGED catalogVars

FetchTier(s) ==
    /\ at[s] = "fetch tier"
    /\ Go(s, "put tier", [arg[s] EXCEPT !.tier = Tier(arg[s].row)])
    /\ UNCHANGED catalogVars

ExpiresFaulty(s) == hour + TierTtl

\* From the time before the query.
Expires(s) == arg[s].from + TierTtl

\* evictExpired and the new entry; that there is no row is not remembered.
PutTier(s) ==
    LET left == {k \in DOMAIN tiers : tiers[k].expires > arg[s].from}
        new == [tier |-> arg[s].tier, expires |-> Expires(s)] IN
    /\ at[s] = "put tier"
    /\ tiers' = IF arg[s].tier = "none" THEN tiers
                ELSE [k \in left \cup {arg[s].row} |-> IF k = arg[s].row THEN new ELSE tiers[k]]
    /\ Go(s, "tier known", arg[s])
    /\ UNCHANGED <<scenarios, bundles, attached, grants, subscribed, hour, tierHeld, shown>>

\* 404, free, or a matter of the subscription; a grant does not count here.
GuardChat(s) ==
    /\ at[s] = "tier known"
    /\ IF arg[s].tier = "free" \/ (arg[s].tier = "premium" /\ arg[s].user \in subscribed)
       THEN Go(s, "enter", arg[s]) ELSE End(s)
    /\ UNCHANGED catalogVars

\* findAccessibleScenario: assertPremiumAccess lets everybody in.
OpenChat(s) ==
    /\ at[s] = "enter"
    /\ \E l \in Locales :
         shown' = IF Visible(arg[s].user, arg[s].row, l) THEN shown \cup {<<arg[s].user, arg[s].row>>} ELSE shown
    /\ End(s)
    /\ UNCHANGED <<scenarios, bundles, attached, grants, subscribed, tiers, hour, tierHeld>>

HourPasses ==
    /\ "chat" \in world.ops /\ hour < LastHour
    /\ hour' = hour + 1
    /\ tierHeld' = [i \in 1 .. MaxRows |-> [tierHeld[i] EXCEPT ![Tier(i)] = hour']]
    /\ UNCHANGED <<handlerVars, scenarios, bundles, attached, grants, subscribed, tiers, shown>>

\* A query fails: 500.
CatalogFails(s) ==
    /\ world.faults
    /\ at[s] \in Fetching \cup {"tier known", "enter", "content", "attachable", "unattached", "attach", "members", "grant"}
    /\ End(s)
    /\ UNCHANGED catalogVars

CatalogRestart ==
    /\ tiers' = << >>
    /\ UNCHANGED <<scenarios, bundles, attached, grants, subscribed, hour, tierHeld, shown>>

CatalogStep(s) ==
    \/ EditContent(s) \/ UpdateContent(s)
    \/ CreateBundle(s) \/ AttachScenarios(s) \/ ValidateScenarios(s) \/ AssertNoAttachments(s) \/ StoreBundle(s)
    \/ Redeem(s) \/ FindBundle(s) \/ Grant(s)
    \/ EnterChat(s) \/ LookUpTier(s) \/ FetchTier(s) \/ PutTier(s) \/ GuardChat(s) \/ OpenChat(s)
    \/ CatalogFails(s)

CatalogNext ==
    \/ \E s \in Slots : CatalogStep(s)
    \/ GenerateDraft \/ StorePersonal \/ DropPersonal \/ Browse \/ Subscribe \/ HourPasses
    \/ Restart /\ CatalogRestart

CatalogSpec == HandlersInit /\ CatalogInit /\ [][CatalogNext]_<<handlerVars, catalogVars>>

-----------------------------------------------------------------------------

\* The tier the guard of the chat goes by was the scenario's less than the time to
\* live before the request came, though edits and deletions never reach the cache.
TierIsFresh == StaleTier!Spec

\* No learner is shown the personal scenario of another, by no list, detail, gift
\* code or chat, although the lessons and the guard never look at the owner.  (The
\* list of the admins shows them everything, and is no part of this.)
PersonalPrivate == \A p \in shown : scenarios[p[2]].owner \in {0, p[1]}

\* However requests for bundles overlap or fail, a scenario is in one bundle, a gift
\* code names one, none is empty, and what a code has granted is in its bundle and
\* nobody's personal scenario.
BundlesWhole ==
    /\ \A a, b \in attached : a[2] = b[2] => a = b
    /\ \A b, c \in DOMAIN bundles : bundles[b].code = bundles[c].code => b = c
    /\ \A b \in DOMAIN bundles : \E a \in attached : a[1] = b
    /\ \A g \in grants : scenarios[g[2]].owner = 0 /\ \E a \in attached : a[2] = g[2]

=============================================================================
