--------------------------- MODULE CatalogProofs ----------------------------
(***************************************************************************)
(* Proofs about Catalog, for any users, codes, rows and number of requests *)
(* at work, beside whatever other handlers share the process.              *)
(*                                                                         *)
(* The invariant has two halves that do not need each other: what editors, *)
(* bundles and gift codes do to the rows (StoreInv), and what the guard of *)
(* the chat knows of a tier (TierInv), which carries the refinement of     *)
(* StaleRead.                                                              *)
(***************************************************************************)
EXTENDS Catalog, TLAPS

CatalogSteps == Fetching \cup {"tier known", "enter", "content", "attachable", "unattached",
                               "attach", "members", "grant"}

\* A slot at one of these awaits after the step was there before it: another slot
\* moved, or this one left them.
Bystands(s, steps) == at'[s] \in steps => at'[s] = at[s] /\ arg'[s] = arg[s]
\* The handlers of another module take a step.
Foreign(steps) ==
    /\ DOMAIN at' = Slots /\ DOMAIN arg' = Slots
    /\ \A s \in Slots : Bystands(s, steps)

-----------------------------------------------------------------------------
(* The invariant. *)

\* The types of the tables, and the table's CHECK.
CatalogTypes ==
    /\ DOMAIN at = Slots /\ DOMAIN arg = Slots
    /\ scenarios \in Seq(Row) /\ Len(scenarios) <= MaxRows
    /\ bundles \in Seq([code : Codes, creator : Creators])
    /\ attached \subseteq (DOMAIN bundles) \X (DOMAIN scenarios)
    /\ grants \subseteq Members \X (DOMAIN scenarios)
    /\ shown \subseteq Members \X (DOMAIN scenarios)

Checked == \A i \in DOMAIN scenarios : TypeOwnerCheck(scenarios[i])

\* What the handler in a slot holds in its local variables, await by await.
HoldsEdit(s) ==
    at[s] = "content" => arg[s].row \in DOMAIN scenarios /\ arg[s].change \in Changes
HoldsBundle(s) ==
    at[s] \in {"attachable", "unattached", "attach"} =>
      /\ arg[s].rows \in SUBSET DOMAIN scenarios /\ arg[s].rows # {}
      /\ \/ arg[s].op = "create" /\ arg[s].code \in Codes /\ arg[s].creator \in Creators
         \/ arg[s].op = "attach" /\ arg[s].bundle \in DOMAIN bundles
HoldsValid(s) ==
    at[s] \in {"unattached", "attach"} => \A i \in arg[s].rows : scenarios[i].owner = 0
HoldsRedeem(s) ==
    /\ at[s] \in {"members", "grant"} => arg[s].user \in Members
    /\ at[s] = "grant" => \A i \in arg[s].rows : \E a \in attached : a[2] = i
HoldsChat(s) ==
    at[s] \in Fetching \cup {"tier known", "enter"} =>
      arg[s] \in [op : {"chat"}, user : Members, row : 1 .. MaxRows, since : Nat, from : Nat,
                  tier : Tiers]
Holding(s) == HoldsEdit(s) /\ HoldsBundle(s) /\ HoldsValid(s) /\ HoldsRedeem(s) /\ HoldsChat(s)

\* What is in a bundle is nobody's: it was so when it was validated, and a row
\* never changes its owner.
BundledUnowned == \A a \in attached : scenarios[a[2]].owner = 0

StoreInv ==
    /\ CatalogTypes /\ Checked
    /\ \A s \in Slots : Holding(s)
    /\ BundledUnowned /\ BundlesWhole /\ PersonalPrivate

\* What the guard knows.  The history of a tier is the history of the row; a cache
\* entry, and a tier about to be cached, was right when its query ran.
TierTypes ==
    /\ hour \in Nat
    /\ tierHeld \in [1 .. MaxRows -> [Tiers -> Int]]
    /\ \A i \in 1 .. MaxRows, t \in Tiers : tierHeld[i][t] <= hour
    /\ \A k \in DOMAIN tiers : k \in 1 .. MaxRows /\ tiers[k].tier \in Tiers /\ tiers[k].expires \in Int
HeldNow == \A i \in 1 .. MaxRows : tierHeld[i][Tier(i)] = hour
EntriesHeld == \A k \in DOMAIN tiers : tierHeld[k][tiers[k].tier] >= tiers[k].expires - TierTtl
ToldRight(s) ==
    /\ at[s] \in Fetching => arg[s].since <= arg[s].from /\ arg[s].from <= hour
    /\ at[s] = "put tier" => tierHeld[arg[s].row][arg[s].tier] >= arg[s].from
AnswerHeld == \A s \in Slots : ToldRight(s)

TierInv == TierTypes /\ HeldNow /\ EntriesHeld /\ AnswerHeld

CatalogInv == StoreInv /\ TierInv

-----------------------------------------------------------------------------
(* The handlers. *)

\* The handler in a slot goes to an await, with new local variables.
Moved(s, step, a) ==
    /\ at' = [at EXCEPT ![s] = step]
    /\ arg' = [arg EXCEPT ![s] = a]

\* Beginning, going on and ending move one slot and no other (Begin, Go and End of
\* Handlers).
LEMMA MovesOne ==
    ASSUME DOMAIN at = Slots, DOMAIN arg = Slots, NEW s \in Slots, NEW step, NEW a, Moved(s, step, a)
    PROVE  /\ DOMAIN at' = Slots /\ DOMAIN arg' = Slots
           /\ at'[s] = step /\ arg'[s] = a
           /\ \A r \in Slots \ {s} : at'[r] = at[r] /\ arg'[r] = arg[r]
  BY DEF Moved

\* The three ways a handler moves are moves.
LEMMA HandlersMove ==
    ASSUME NEW s \in Slots, NEW step, NEW a, NEW op
    PROVE  /\ Begin(s, op, step, a) => Moved(s, step, a) /\ at[s] = "idle"
           /\ Go(s, step, a) => Moved(s, step, a)
           /\ End(s) => Moved(s, "idle", Nothing)
  BY DEF Begin, Go, End, Moved

\* A restart leaves nothing at work.
LEMMA RestartIdles ==
    ASSUME Restart, NEW steps, "idle" \notin steps
    PROVE  Foreign(steps)
  BY DEF Restart, Foreign, Bystands

-----------------------------------------------------------------------------
(* The rows, the bundles and the gift codes. *)

\* No row is lost and none changes hands; the tables of the bundles only grow.
Grows ==
    /\ scenarios' \in Seq(Row) /\ Len(scenarios') <= MaxRows
    /\ DOMAIN scenarios \subseteq DOMAIN scenarios'
    /\ \A i \in DOMAIN scenarios : scenarios'[i].owner = scenarios[i].owner
    /\ bundles' \in Seq([code : Codes, creator : Creators])
    /\ DOMAIN bundles \subseteq DOMAIN bundles'
    /\ attached \subseteq attached'

\* What a handler holds stays true while the tables grow beside it.
LEMMA HoldingKept ==
    ASSUME Grows, NEW s \in Slots, Holding(s), Bystands(s, CatalogSteps)
    PROVE  Holding(s)'
<1> USE DEF Grows, Bystands, CatalogSteps, Fetching
<1>1. CASE at'[s] \notin CatalogSteps
  BY <1>1 DEF Holding, HoldsEdit, HoldsBundle, HoldsValid, HoldsRedeem, HoldsChat
<1>2. CASE at'[s] = at[s] /\ arg'[s] = arg[s]
  <2>1. HoldsEdit(s)'
    BY <1>2 DEF Holding, HoldsEdit, Changes
  <2>2. HoldsBundle(s)'
    BY <1>2 DEF Holding, HoldsBundle
  <2>3. HoldsValid(s)'
    BY <1>2 DEF Holding, HoldsBundle, HoldsValid
  <2>4. HoldsRedeem(s)'
    BY <1>2 DEF Holding, HoldsRedeem
  <2>5. HoldsChat(s)'
    BY <1>2 DEF Holding, HoldsChat, Tiers
  <2> QED BY <2>1, <2>2, <2>3, <2>4, <2>5 DEF Holding
<1> QED BY <1>1, <1>2

\* A step that leaves the bundles, the grants and what was shown alone keeps the
\* invariant, once what the handlers hold and the table's CHECK are kept.
LEMMA TablesKept ==
    ASSUME StoreInv, Grows, Checked', DOMAIN at' = Slots, DOMAIN arg' = Slots,
           \A r \in Slots : Holding(r)', UNCHANGED <<bundles, attached, grants, shown>>
    PROVE  StoreInv'
<1> USE DEF StoreInv, Grows
<1>1. CatalogTypes'
  BY DEF CatalogTypes
<1>2. BundledUnowned'
  BY DEF CatalogTypes, BundledUnowned
<1>3. BundlesWhole'
  BY DEF CatalogTypes, BundlesWhole
<1>4. PersonalPrivate'
  BY DEF CatalogTypes, PersonalPrivate
<1> QED BY <1>1, <1>2, <1>3, <1>4

\* A step of one handler that changes no table.
LEMMA MoveKeeps ==
    ASSUME StoreInv, NEW s \in Slots, NEW step, NEW a, Moved(s, step, a),
           UNCHANGED <<scenarios, bundles, attached, grants, shown>>,
           step \in CatalogSteps => Holding(s)'
    PROVE  StoreInv'
<1>1. Grows /\ Checked'
  BY DEF StoreInv, CatalogTypes, Grows, Checked, TypeOwnerCheck
<1>2. /\ DOMAIN at' = Slots /\ DOMAIN arg' = Slots
      /\ at'[s] = step
      /\ \A r \in Slots \ {s} : Bystands(r, CatalogSteps)
  BY MovesOne DEF StoreInv, CatalogTypes, Bystands
<1>3. step \notin CatalogSteps => Bystands(s, CatalogSteps)
  BY <1>2 DEF Bystands
<1>4. \A r \in Slots : Holding(r)'
  BY <1>1, <1>2, <1>3, HoldingKept DEF StoreInv
<1> QED BY <1>1, <1>2, <1>4, TablesKept

\* The same of a step of which the catalogue sees only its tables: another
\* module's handler, a request of one statement, or a restart.
LEMMA ForeignKeeps ==
    ASSUME StoreInv, Grows, Checked', Foreign(CatalogSteps),
           UNCHANGED <<bundles, attached, grants, shown>>
    PROVE  StoreInv'
<1>1. \A r \in Slots : Holding(r)'
  BY HoldingKept DEF StoreInv, Foreign
<1> QED BY <1>1, TablesKept DEF Foreign

\* Inserting a row: it is appended if the table's CHECK lets it be.
LEMMA InsertGrows ==
    ASSUME CatalogTypes, Checked, NEW row \in Row, Insert(row), UNCHANGED <<bundles, attached>>
    PROVE  Grows /\ Checked'
<1> USE DEF CatalogTypes
<1>1. CASE TypeOwnerCheck(row)
  <2>1. /\ scenarios' = Append(scenarios, row)
        /\ Len(scenarios) < MaxRows
    BY <1>1 DEF Insert, Store
  <2>2. /\ scenarios' \in Seq(Row)
        /\ Len(scenarios') = Len(scenarios) + 1
        /\ \A i \in DOMAIN scenarios : scenarios'[i] = scenarios[i]
        /\ scenarios'[Len(scenarios) + 1] = row
    BY <2>1
  <2>3. MaxRows \in Nat
    BY CatalogAssumption
  <2>4. Grows
    BY <2>1, <2>2, <2>3 DEF Grows
  <2>5. Checked'
    BY <1>1, <2>2 DEF Checked, TypeOwnerCheck
  <2> QED BY <2>4, <2>5
<1>2. CASE ~TypeOwnerCheck(row)
  BY <1>2 DEF Insert, Grows, Checked, TypeOwnerCheck
<1> QED BY <1>1, <1>2

\* Writing another row in the place of one that has the same type, owner and category.
LEMMA RewriteGrows ==
    ASSUME CatalogTypes, Checked, NEW i \in DOMAIN scenarios, NEW row \in Row,
           row.owner = scenarios[i].owner, row.type = scenarios[i].type,
           row.listed = scenarios[i].listed,
           scenarios' = [scenarios EXCEPT ![i] = row], UNCHANGED <<bundles, attached>>
    PROVE  Grows /\ Checked'
<1> USE DEF CatalogTypes
<1>1. /\ scenarios' \in Seq(Row)
      /\ Len(scenarios') = Len(scenarios)
      /\ \A j \in DOMAIN scenarios : scenarios'[j] = IF j = i THEN row ELSE scenarios[j]
  OBVIOUS
<1>2. Grows
  BY <1>1 DEF Grows
<1>3. Checked'
  BY <1>1 DEF Checked, TypeOwnerCheck
<1> QED BY <1>2, <1>3

\* A request that is over in a statement is none of the handlers.
LEMMA InstantForeign ==
    ASSUME DOMAIN at = Slots, DOMAIN arg = Slots, NEW op, Instant(op), NEW steps
    PROVE  Foreign(steps)
  BY DEF Instant, Foreign, Bystands

\* Editors: a draft is refused by the CHECK, an edit finds its row where it was.
LEMMA EditorsKeep ==
    ASSUME StoreInv
    PROVE  /\ GenerateDraft => StoreInv'
           /\ \A s \in Slots : EditContent(s) \/ UpdateContent(s) => StoreInv'
<1> USE DEF StoreInv
<1>0. DOMAIN at = Slots /\ DOMAIN arg = Slots
  BY DEF CatalogTypes
<1>1. ASSUME GenerateDraft PROVE StoreInv'
  <2>1. PICK l \in Locales, tier \in {"free", "premium"} :
          /\ Instant("draft")
          /\ Insert(Entry("system", "draft", tier, 0, l, FALSE))
          /\ UNCHANGED <<bundles, attached, grants, shown>>
    BY <1>1 DEF GenerateDraft
  <2>2. Entry("system", "draft", tier, 0, l, FALSE) \in Row
    BY DEF Entry, Row
  <2>3. Grows /\ Checked'
    BY <2>1, <2>2, InsertGrows
  <2> QED BY <1>0, <2>1, <2>3, InstantForeign, ForeignKeeps
<1>2. ASSUME NEW s \in Slots, EditContent(s) PROVE StoreInv'
  <2>1. PICK i \in DOMAIN scenarios, change \in Changes :
          /\ Begin(s, "edit", "content", [op |-> "edit", row |-> i, change |-> change])
          /\ UNCHANGED catalogVars
    BY <1>2 DEF EditContent
  <2> DEFINE a == [op |-> "edit", row |-> i, change |-> change]
  <2>2. Moved(s, "content", a)
    BY <2>1, HandlersMove
  <2>3. at'[s] = "content" /\ arg'[s] = a
    BY <1>0, <2>2, MovesOne
  <2>4. HoldsEdit(s)'
    BY <2>1, <2>3 DEF HoldsEdit, Changes, catalogVars
  <2>5. Holding(s)'
    BY <2>3, <2>4 DEF Holding, HoldsBundle, HoldsValid, HoldsRedeem, HoldsChat, Fetching
  <2> HIDE DEF a
  <2> QED BY <2>1, <2>2, <2>5, MoveKeeps DEF catalogVars
<1>3. ASSUME NEW s \in Slots, UpdateContent(s) PROVE StoreInv'
  <2> DEFINE i == arg[s].row
             change == arg[s].change
             row == IF change.field = "tier" THEN [scenarios[i] EXCEPT !.tier = change.to]
                    ELSE [scenarios[i] EXCEPT !.status = change.to]
  <2>1. at[s] = "content" /\ End(s) /\ UNCHANGED <<bundles, attached, grants, shown>>
    BY <1>3 DEF UpdateContent
  <2>2. i \in DOMAIN scenarios /\ change \in Changes /\ scenarios[i] \in Row
    BY <2>1 DEF Holding, HoldsEdit, CatalogTypes
  <2>3. Moved(s, "idle", Nothing)
    BY <2>1, HandlersMove
  <2>4. Grows /\ Checked'
    <3>1. CASE Present(i)
      <4>1. scenarios' = [scenarios EXCEPT ![i] = row]
        BY <1>3, <2>2, <3>1 DEF UpdateContent, Store, CatalogTypes
      <4>2. /\ row \in Row /\ row.owner = scenarios[i].owner
            /\ row.type = scenarios[i].type /\ row.listed = scenarios[i].listed
        BY <2>2 DEF Row, Changes
      <4> HIDE DEF row, i
      <4> QED BY <2>1, <2>2, <4>1, <4>2, RewriteGrows
    <3>2. CASE ~Present(i)
      BY <1>3, <3>2 DEF UpdateContent, Grows, CatalogTypes, Checked, TypeOwnerCheck
    <3> QED BY <3>1, <3>2
  <2>5. Foreign(CatalogSteps)
    BY <1>0, <2>3, MovesOne DEF Foreign, Bystands, CatalogSteps, Fetching
  <2> QED BY <2>1, <2>4, <2>5, ForeignKeeps
<1> QED BY <1>1, <1>2, <1>3

\* Personalization: a personal row is its user's, and goes without leaving its place.
LEMMA PersonalKeeps ==
    ASSUME StoreInv, StorePersonal \/ DropPersonal
    PROVE  StoreInv'
<1> USE DEF StoreInv
<1>0. DOMAIN at = Slots /\ DOMAIN arg = Slots
  BY DEF CatalogTypes
<1>1. CASE StorePersonal
  <2>1. PICK u \in Members, l \in Locales :
          /\ Instant("personalize") /\ Insert(PersonalEntry(u, l))
          /\ UNCHANGED <<bundles, attached, grants, shown>>
    BY <1>1 DEF StorePersonal
  <2>2. PersonalEntry(u, l) \in Row
    BY DEF PersonalEntry, Entry, Row
  <2>3. Grows /\ Checked'
    BY <2>1, <2>2, InsertGrows
  <2> QED BY <1>0, <2>1, <2>3, InstantForeign, ForeignKeeps
<1>2. CASE DropPersonal
  <2>1. PICK i \in DOMAIN scenarios :
          /\ Instant("personalize") /\ Store([scenarios EXCEPT ![i].live = FALSE])
          /\ UNCHANGED <<bundles, attached, grants, shown>>
    BY <1>2 DEF DropPersonal
  <2> DEFINE row == [scenarios[i] EXCEPT !.live = FALSE]
  <2>2. scenarios' = [scenarios EXCEPT ![i] = row]
    BY <2>1 DEF Store, CatalogTypes
  <2>a. scenarios[i] \in Row
    BY DEF CatalogTypes
  <2>3. /\ row \in Row /\ row.owner = scenarios[i].owner
        /\ row.type = scenarios[i].type /\ row.listed = scenarios[i].listed
    BY <2>a DEF Row
  <2>4. Grows /\ Checked'
    <3> HIDE DEF row
    <3> QED BY <2>1, <2>2, <2>3, RewriteGrows
  <2> QED BY <1>0, <2>1, <2>4, InstantForeign, ForeignKeeps
<1> QED BY <1>1, <1>2

\* Asking for a bundle or more of one: what is validated is nobody's, and what is in
\* a bundle stays in it.
LEMMA BundlingKeeps ==
    ASSUME StoreInv, NEW s \in Slots,
           CreateBundle(s) \/ AttachScenarios(s) \/ ValidateScenarios(s) \/ AssertNoAttachments(s)
    PROVE  StoreInv'
<1> USE DEF StoreInv
<1>0. DOMAIN at = Slots /\ DOMAIN arg = Slots /\ UNCHANGED catalogVars
  BY DEF CatalogTypes, CreateBundle, AttachScenarios, ValidateScenarios, AssertNoAttachments
<1>1. ASSUME NEW a, HoldsBundle(s)', at'[s] = "attachable", arg'[s] = a
      PROVE  Holding(s)'
  BY <1>1 DEF Holding, HoldsEdit, HoldsValid, HoldsRedeem, HoldsChat, Fetching
<1>2. CASE CreateBundle(s)
  <2>1. PICK u \in Creators, code \in Codes, S \in Rows(DOMAIN scenarios) :
          Begin(s, "create bundle", "attachable",
                [op |-> "create", creator |-> u, code |-> code, rows |-> S])
    BY <1>2 DEF CreateBundle
  <2> DEFINE a == [op |-> "create", creator |-> u, code |-> code, rows |-> S]
  <2>2. Moved(s, "attachable", a)
    BY <2>1, HandlersMove
  <2>3. at'[s] = "attachable" /\ arg'[s] = a
    BY <1>0, <2>2, MovesOne
  <2>4. HoldsBundle(s)'
    BY <1>0, <2>3 DEF HoldsBundle, Rows, catalogVars
  <2> HIDE DEF a
  <2> QED BY <1>0, <1>1, <2>2, <2>3, <2>4, MoveKeeps DEF catalogVars
<1>3. CASE AttachScenarios(s)
  <2>1. PICK b \in DOMAIN bundles, S \in Rows(DOMAIN scenarios) :
          Begin(s, "attach", "attachable", [op |-> "attach", bundle |-> b, rows |-> S])
    BY <1>3 DEF AttachScenarios
  <2> DEFINE a == [op |-> "attach", bundle |-> b, rows |-> S]
  <2>2. Moved(s, "attachable", a)
    BY <2>1, HandlersMove
  <2>3. at'[s] = "attachable" /\ arg'[s] = a
    BY <1>0, <2>2, MovesOne
  <2>4. HoldsBundle(s)'
    BY <1>0, <2>3 DEF HoldsBundle, Rows, catalogVars
  <2> HIDE DEF a
  <2> QED BY <1>0, <1>1, <2>2, <2>3, <2>4, MoveKeeps DEF catalogVars
<1>4. CASE ValidateScenarios(s)
  <2>1. CASE Attachable(arg[s].rows)
    <3>1. Moved(s, "unattached", arg[s])
      BY <1>4, <2>1, HandlersMove DEF ValidateScenarios
    <3>2. at'[s] = "unattached" /\ arg'[s] = arg[s]
      BY <1>0, <3>1, MovesOne
    <3>3. HoldsBundle(s)' /\ HoldsValid(s)'
      BY <1>0, <1>4, <2>1, <3>2
      DEF ValidateScenarios, Attachable, Holding, HoldsBundle, HoldsValid, catalogVars
    <3>4. Holding(s)'
      BY <3>2, <3>3 DEF Holding, HoldsEdit, HoldsRedeem, HoldsChat, Fetching
    <3> QED BY <1>0, <3>1, <3>4, MoveKeeps DEF catalogVars
  <2>2. CASE ~Attachable(arg[s].rows)
    BY <1>0, <1>4, <2>2, HandlersMove, MoveKeeps
    DEF ValidateScenarios, catalogVars, CatalogSteps, Fetching
  <2> QED BY <2>1, <2>2
<1>5. CASE AssertNoAttachments(s)
  <2>1. CASE ~Attached(arg[s].rows)
    <3>1. Moved(s, "attach", arg[s])
      BY <1>5, <2>1, HandlersMove DEF AssertNoAttachments
    <3>2. at'[s] = "attach" /\ arg'[s] = arg[s]
      BY <1>0, <3>1, MovesOne
    <3>3. HoldsBundle(s)' /\ HoldsValid(s)'
      BY <1>0, <1>5, <3>2 DEF AssertNoAttachments, Holding, HoldsBundle, HoldsValid, catalogVars
    <3>4. Holding(s)'
      BY <3>2, <3>3 DEF Holding, HoldsEdit, HoldsRedeem, HoldsChat, Fetching
    <3> QED BY <1>0, <3>1, <3>4, MoveKeeps DEF catalogVars
  <2>2. CASE Attached(arg[s].rows)
    BY <1>0, <1>5, <2>2, HandlersMove, MoveKeeps
    DEF AssertNoAttachments, catalogVars, CatalogSteps, Fetching
  <2> QED BY <2>1, <2>2
<1> QED BY <1>2, <1>3, <1>4, <1>5

\* The transaction: what it attaches was validated, and the unique columns refuse what
\* another bundle has, whatever other requests stored since.
LEMMA StoreBundleKeeps ==
    ASSUME StoreInv, NEW s \in Slots, StoreBundle(s)
    PROVE  StoreInv'
<1> DEFINE a == arg[s]
           home == IF a.op = "create" THEN Len(bundles') ELSE a.bundle
<1> USE DEF StoreInv
<1>0. /\ at[s] = "attach" /\ UNCHANGED <<scenarios, grants, shown>>
      /\ DOMAIN at = Slots /\ DOMAIN arg = Slots
  BY DEF StoreBundle, CatalogTypes
<1>1. Moved(s, "idle", Nothing)
  BY HandlersMove DEF StoreBundle
<1>2. Foreign(CatalogSteps)
  BY <1>0, <1>1, MovesOne DEF Foreign, Bystands, CatalogSteps, Fetching
<1>3. CASE UNCHANGED <<bundles, attached>>
  <2>2. Grows /\ Checked'
    BY <1>0, <1>3 DEF Grows, CatalogTypes, Checked, TypeOwnerCheck
  <2> QED BY <1>0, <1>2, <1>3, <2>2, ForeignKeeps
<1>4. CASE /\ ~Duplicate(a)
           /\ bundles' = IF a.op = "create" THEN Append(bundles, [code |-> a.code, creator |-> a.creator])
                         ELSE bundles
           /\ attached' = attached \cup ({home} \X a.rows)
  <2>1. /\ bundles' = IF a.op = "create" THEN Append(bundles, [code |-> a.code, creator |-> a.creator])
                      ELSE bundles
        /\ attached' = attached \cup ({home} \X a.rows)
    BY <1>4
  <2>2. /\ a.rows \in SUBSET DOMAIN scenarios /\ a.rows # {}
        /\ \/ a.op = "create" /\ a.code \in Codes /\ a.creator \in Creators
           \/ a.op = "attach" /\ a.bundle \in DOMAIN bundles
        /\ \A i \in a.rows : scenarios[i].owner = 0
    BY <1>0 DEF Holding, HoldsBundle, HoldsValid
  <2>3. /\ \A p \in attached : p[2] \in a.rows => p \in {home} \X a.rows
        /\ a.op = "create" => \A b \in DOMAIN bundles : bundles[b].code # a.code
    <3>1. /\ \A p \in attached : p[2] \in a.rows => a.op = "attach" /\ p[1] = a.bundle
          /\ a.op = "create" => \A b \in DOMAIN bundles : bundles[b].code # a.code
      BY <1>4 DEF Duplicate
    <3>2. \A p \in attached : p = <<p[1], p[2]>>
      BY DEF CatalogTypes
    <3> QED BY <3>1, <3>2
  <2>4. bundles \in Seq([code : Codes, creator : Creators])
    BY DEF CatalogTypes
  <2>5. /\ bundles' \in Seq([code : Codes, creator : Creators])
        /\ home \in DOMAIN bundles' /\ DOMAIN bundles' = DOMAIN bundles \cup {home}
        /\ \A b \in DOMAIN bundles : bundles'[b] = bundles[b]
        /\ a.op = "create" => bundles'[home].code = a.code /\ home \notin DOMAIN bundles
        /\ a.op # "create" => home \in DOMAIN bundles
    <3>1. CASE a.op = "create"
      <4> DEFINE new == [code |-> a.code, creator |-> a.creator]
      <4>1. new \in [code : Codes, creator : Creators] /\ new.code = a.code
        BY <2>2, <3>1
      <4>2. bundles' = Append(bundles, new) /\ home = Len(bundles')
        BY <2>1, <3>1
      <4> HIDE DEF new, home
      <4> QED BY <2>4, <3>1, <4>1, <4>2
    <3>2. CASE a.op # "create"
      BY <2>1, <2>2, <2>4, <3>2
    <3> QED BY <3>1, <3>2
  <2> HIDE DEF a, home
  <2>6. Grows /\ Checked'
    BY <1>0, <2>1, <2>5 DEF Grows, CatalogTypes, Checked, TypeOwnerCheck
  <2>7. \A r \in Slots : Holding(r)'
    BY <1>2, <2>6, HoldingKept DEF Foreign
  <2>8. CatalogTypes'
    BY <1>0, <1>2, <2>1, <2>2, <2>5 DEF CatalogTypes, Foreign
  <2>9. BundledUnowned'
    BY <1>0, <2>1, <2>2 DEF BundledUnowned
  <2>10. BundlesWhole'
    <3>1. \A p, q \in attached' : p[2] = q[2] => p = q
      <4> SUFFICES ASSUME NEW p \in attached', NEW q \in attached', p[2] = q[2] PROVE p = q
        OBVIOUS
      <4>1. CASE p \in attached /\ q \in attached
        BY <4>1 DEF BundlesWhole
      <4>2. CASE p \in {home} \X a.rows \/ q \in {home} \X a.rows
        <5>1. p \in {home} \X a.rows /\ q \in {home} \X a.rows
          BY <2>1, <2>3, <4>2
        <5> QED BY <5>1
      <4> QED BY <2>1, <4>1, <4>2
    <3>2. \A b, c \in DOMAIN bundles' : bundles'[b].code = bundles'[c].code => b = c
      BY <2>3, <2>5 DEF BundlesWhole
    <3>3. ASSUME NEW b \in DOMAIN bundles' PROVE \E p \in attached' : p[1] = b
      <4>1. CASE b \in DOMAIN bundles
        BY <2>1, <4>1 DEF BundlesWhole
      <4>2. CASE b = home
        <5>1. PICK i \in a.rows : TRUE
          BY <2>2
        <5>2. <<home, i>> \in attached'
          BY <2>1, <5>1
        <5> QED BY <4>2, <5>2
      <4> QED BY <2>5, <4>1, <4>2
    <3>4. \A g \in grants' : scenarios'[g[2]].owner = 0 /\ \E p \in attached' : p[2] = g[2]
      BY <1>0, <2>1 DEF BundlesWhole
    <3> QED BY <3>1, <3>2, <3>3, <3>4 DEF BundlesWhole
  <2>11. PersonalPrivate' /\ Checked'
    BY <1>0, <2>6 DEF PersonalPrivate
  <2> QED BY <2>7, <2>8, <2>9, <2>10, <2>11
<1> QED BY <1>3, <1>4 DEF StoreBundle

\* Redeeming: what a code names is in its bundle, so it is granted and shown as
\* nobody's personal scenario.
LEMMA RedeemingKeeps ==
    ASSUME StoreInv, NEW s \in Slots, Redeem(s) \/ FindBundle(s) \/ Grant(s)
    PROVE  StoreInv'
<1> USE DEF StoreInv
<1>0. DOMAIN at = Slots /\ DOMAIN arg = Slots
  BY DEF CatalogTypes
<1>1. CASE Redeem(s)
  <2>1. PICK u \in Members, code \in Codes :
          /\ Begin(s, "redeem", "members", [op |-> "redeem", user |-> u, code |-> code])
          /\ UNCHANGED catalogVars
    BY <1>1 DEF Redeem
  <2> DEFINE a == [op |-> "redeem", user |-> u, code |-> code]
  <2>2. Moved(s, "members", a)
    BY <2>1, HandlersMove
  <2>3. at'[s] = "members" /\ arg'[s] = a
    BY <1>0, <2>2, MovesOne
  <2>a. arg'[s].user \in Members
    BY <2>3
  <2> HIDE DEF a
  <2>4. Holding(s)'
    BY <2>3, <2>a DEF Holding, HoldsEdit, HoldsBundle, HoldsValid, HoldsRedeem, HoldsChat, Fetching
  <2> QED BY <2>1, <2>2, <2>4, MoveKeeps DEF catalogVars
<1>2. CASE FindBundle(s)
  <2> DEFINE S == Redeemed(arg[s].code)
             a == [op |-> "redeem", user |-> arg[s].user, code |-> arg[s].code, rows |-> S]
  <2>1. UNCHANGED catalogVars
    BY <1>2 DEF FindBundle
  <2>2. CASE S = {}
    BY <1>2, <2>1, <2>2, HandlersMove, MoveKeeps DEF FindBundle, catalogVars, CatalogSteps, Fetching
  <2>3. CASE S # {}
    <3>1. Moved(s, "grant", a)
      BY <1>2, <2>3, HandlersMove DEF FindBundle
    <3>2. at'[s] = "grant" /\ arg'[s] = a
      BY <1>0, <3>1, MovesOne
    <3>3. \A i \in S : \E p \in attached : p[2] = i
      BY DEF Redeemed
    <3>4. arg[s].user \in Members
      BY <1>2 DEF FindBundle, Holding, HoldsRedeem
    <3>5. arg'[s].user = arg[s].user /\ arg'[s].rows = S
      BY <3>2
    <3> HIDE DEF S, a
    <3>6. Holding(s)'
      BY <2>1, <3>2, <3>3, <3>4, <3>5
      DEF Holding, HoldsEdit, HoldsBundle, HoldsValid, HoldsRedeem, HoldsChat, Fetching, catalogVars
    <3> QED BY <2>1, <3>1, <3>6, MoveKeeps DEF catalogVars
  <2> QED BY <2>2, <2>3
<1>3. CASE Grant(s)
  <2> DEFINE a == arg[s]
  <2>1. /\ at[s] = "grant" /\ End(s)
        /\ grants' = grants \cup ({a.user} \X a.rows)
        /\ shown' \subseteq shown \cup ({a.user} \X a.rows)
        /\ UNCHANGED <<scenarios, bundles, attached>>
    BY <1>3 DEF Grant
  <2>2. /\ a.user \in Members
        /\ \A i \in a.rows : \E p \in attached : p[2] = i
    BY <2>1 DEF Holding, HoldsRedeem
  <2>3. \A i \in a.rows : i \in DOMAIN scenarios /\ scenarios[i].owner = 0
    BY <2>2 DEF CatalogTypes, BundledUnowned
  <2> HIDE DEF a
  <2>4. Foreign(CatalogSteps)
    BY <1>0, <2>1, HandlersMove, MovesOne DEF Foreign, Bystands, CatalogSteps, Fetching
  <2>5. Grows /\ Checked'
    BY <2>1 DEF Grows, CatalogTypes, Checked, TypeOwnerCheck
  <2>6. \A r \in Slots : Holding(r)'
    BY <2>4, <2>5, HoldingKept DEF Foreign
  <2>7. CatalogTypes'
    BY <2>1, <2>2, <2>3, <2>4 DEF CatalogTypes, Foreign
  <2>8. BundledUnowned'
    BY <2>1 DEF BundledUnowned
  <2>9. BundlesWhole'
    BY <2>1, <2>2, <2>3 DEF BundlesWhole
  <2>10. PersonalPrivate'
    BY <2>1, <2>3 DEF PersonalPrivate
  <2> QED BY <2>5, <2>6, <2>7, <2>8, <2>9, <2>10
<1> QED BY <1>1, <1>2, <1>3

\* What a request finds visible is the user's own or nobody's, and there.
LEMMA VisibleMine ==
    ASSUME NEW u, NEW i, NEW l, Visible(u, i, l)
    PROVE  i \in DOMAIN scenarios /\ scenarios[i].owner \in {0, u}
  BY DEF Visible, Published, Present, Tier

\* The lists show nobody's scenarios and the user's own; the lessons, which do not
\* look at the owner, show those in a category, and the CHECK keeps personal ones out.
LEMMA BrowseKeeps ==
    ASSUME StoreInv, Browse
    PROVE  StoreInv'
<1> USE DEF StoreInv
<1>0. DOMAIN at = Slots /\ DOMAIN arg = Slots
  BY DEF CatalogTypes
<1>1. PICK u \in Members, l \in Locales :
        /\ Instant("browse")
        /\ \/ shown' = shown \cup ({u} \X (Public("system", l) \cup PersonalList(u, l) \cup Lessons(u, l)))
           \/ \E i \in DOMAIN scenarios :
                Visible(u, i, l) /\ shown' = shown \cup {<<u, i>>}
        /\ UNCHANGED <<scenarios, bundles, attached, grants>>
  BY DEF Browse
<1>2. Foreign(CatalogSteps)
  BY <1>0, <1>1, InstantForeign
<1>3. \A i \in DOMAIN scenarios : scenarios[i].listed => scenarios[i].owner = 0
  BY DEF Checked, TypeOwnerCheck, CatalogTypes, Row
<1>4. PICK S \in SUBSET DOMAIN scenarios :
        /\ shown' = shown \cup ({u} \X S)
        /\ \A i \in S : scenarios[i].owner \in {0, u}
  <2>1. CASE shown' = shown \cup ({u} \X (Public("system", l) \cup PersonalList(u, l) \cup Lessons(u, l)))
    <3> DEFINE S == Public("system", l) \cup PersonalList(u, l) \cup Lessons(u, l)
    <3>1. S \in SUBSET DOMAIN scenarios
      BY DEF Public, PersonalList, Lessons
    <3>2. \A i \in S : scenarios[i].owner \in {0, u}
      BY <1>3 DEF Public, PersonalList, Lessons
    <3> HIDE DEF S
    <3> QED BY <2>1, <3>1, <3>2 DEF S
  <2>2. ASSUME NEW i \in DOMAIN scenarios, Visible(u, i, l), shown' = shown \cup {<<u, i>>}
        PROVE  \E S \in SUBSET DOMAIN scenarios :
                 /\ shown' = shown \cup ({u} \X S)
                 /\ \A j \in S : scenarios[j].owner \in {0, u}
    <3>1. shown' = shown \cup ({u} \X {i})
      BY <2>2
    <3> WITNESS {i} \in SUBSET DOMAIN scenarios
    <3> QED BY <2>2, <3>1, VisibleMine
  <2> QED BY <1>1, <2>1, <2>2
<1>5. Grows /\ Checked'
  BY <1>1 DEF Grows, CatalogTypes, Checked, TypeOwnerCheck
<1>6. \A r \in Slots : Holding(r)'
  BY <1>2, <1>5, HoldingKept DEF Foreign
<1>7. CatalogTypes'
  BY <1>1, <1>2, <1>4 DEF CatalogTypes, Foreign
<1>8. BundledUnowned' /\ BundlesWhole'
  BY <1>1 DEF BundledUnowned, BundlesWhole
<1>9. PersonalPrivate'
  BY <1>1, <1>4 DEF PersonalPrivate
<1> QED BY <1>5, <1>6, <1>7, <1>8, <1>9

\* Every id has a tier, taken or not.
LEMMA TierTyped ==
    ASSUME CatalogTypes, NEW i
    PROVE  Tier(i) \in Tiers
<1>1. CASE i \in DOMAIN scenarios
  <2>1. scenarios[i] \in Row
    BY <1>1 DEF CatalogTypes
  <2> QED BY <2>1 DEF Tier, Tiers, Row
<1>2. CASE i \notin DOMAIN scenarios
  BY <1>2 DEF Tier, Tiers
<1> QED BY <1>1, <1>2

\* What the chat's handlers hold.
ChatArg == [op : {"chat"}, user : Members, row : 1 .. MaxRows, since : Nat, from : Nat, tier : Tiers]

\* The guard of the chat touches no table; the chat it lets through shows what is
\* visible, which is the user's own or nobody's.
LEMMA ChatKeeps ==
    ASSUME StoreInv, TierTypes, NEW s \in Slots,
           \/ EnterChat(s) \/ LookUpTier(s) \/ FetchTier(s) \/ PutTier(s) \/ GuardChat(s) \/ OpenChat(s)
    PROVE  StoreInv'
<1> USE DEF StoreInv
<1>0. /\ DOMAIN at = Slots /\ DOMAIN arg = Slots
      /\ at[s] \in Fetching \cup {"tier known", "enter"} => arg[s] \in ChatArg
      /\ hour \in Nat
  BY DEF CatalogTypes, Holding, HoldsChat, ChatArg, TierTypes
<1>1. ASSUME NEW step \in Fetching \cup {"tier known", "enter"}, NEW a \in ChatArg, Moved(s, step, a),
             UNCHANGED <<scenarios, bundles, attached, grants, shown>>
      PROVE  StoreInv'
  <2>1. at'[s] = step /\ arg'[s] = a
    BY <1>0, <1>1, MovesOne
  <2>2. Holding(s)'
    BY <1>1, <2>1
    DEF Holding, HoldsEdit, HoldsBundle, HoldsValid, HoldsRedeem, HoldsChat, ChatArg, Fetching, Tiers
  <2> QED BY <1>1, <2>2, MoveKeeps
<1>2. ASSUME End(s), UNCHANGED <<scenarios, bundles, attached, grants, shown>> PROVE StoreInv'
  BY <1>2, HandlersMove, MoveKeeps DEF CatalogSteps, Fetching
<1>3. \A i : Tier(i) \in Tiers
  BY TierTyped
<1>4. CASE EnterChat(s)
  <2>1. PICK u \in Members, i \in 1 .. MaxRows :
          /\ Begin(s, "chat", "tier", [op |-> "chat", user |-> u, row |-> i, since |-> hour,
                                       from |-> hour, tier |-> "none"])
          /\ UNCHANGED catalogVars
    BY <1>4 DEF EnterChat
  <2> DEFINE a == [op |-> "chat", user |-> u, row |-> i, since |-> hour, from |-> hour, tier |-> "none"]
  <2>2. a \in ChatArg
    BY <1>0 DEF ChatArg, Tiers
  <2>3. Moved(s, "tier", a)
    BY <2>1, HandlersMove
  <2> HIDE DEF a
  <2> QED BY <1>1, <2>1, <2>2, <2>3 DEF Fetching, catalogVars
<1>5. CASE LookUpTier(s)
  <2>1. arg[s] \in ChatArg /\ UNCHANGED catalogVars
    BY <1>0, <1>5 DEF LookUpTier, Fetching
  <2>2. CASE Fresh(arg[s].row) # {}
    <3> DEFINE a == [arg[s] EXCEPT !.tier = tiers[arg[s].row].tier]
    <3>1. tiers[arg[s].row].tier \in Tiers
      BY <2>2 DEF Fresh, TierTypes
    <3>2. a \in ChatArg
      BY <2>1, <3>1 DEF ChatArg
    <3>3. Moved(s, "tier known", a)
      BY <1>5, <2>2, HandlersMove DEF LookUpTier
    <3> HIDE DEF a
    <3> QED BY <1>1, <2>1, <3>2, <3>3 DEF catalogVars
  <2>3. CASE Fresh(arg[s].row) = {}
    <3> DEFINE a == [arg[s] EXCEPT !.from = hour]
    <3>1. a \in ChatArg
      BY <1>0, <2>1 DEF ChatArg
    <3>2. Moved(s, "fetch tier", a)
      BY <1>5, <2>3, HandlersMove DEF LookUpTier
    <3> HIDE DEF a
    <3> QED BY <1>1, <2>1, <3>1, <3>2 DEF catalogVars, Fetching
  <2> QED BY <2>2, <2>3
<1>6. CASE FetchTier(s)
  <2> DEFINE a == [arg[s] EXCEPT !.tier = Tier(arg[s].row)]
  <2>1. UNCHANGED catalogVars /\ Moved(s, "put tier", a)
    BY <1>6, HandlersMove DEF FetchTier
  <2>2. a \in ChatArg
    BY <1>0, <1>3, <1>6 DEF FetchTier, Fetching, ChatArg
  <2> HIDE DEF a
  <2> QED BY <1>1, <2>1, <2>2 DEF catalogVars, Fetching
<1>7. CASE PutTier(s)
  <2>1. /\ arg[s] \in ChatArg /\ UNCHANGED <<scenarios, bundles, attached, grants, shown>>
        /\ Moved(s, "tier known", arg[s])
    BY <1>0, <1>7, HandlersMove DEF PutTier, Fetching
  <2> QED BY <1>1, <2>1
<1>8. CASE GuardChat(s)
  <2>1. /\ UNCHANGED catalogVars /\ arg[s] \in ChatArg
        /\ Moved(s, "enter", arg[s]) \/ End(s)
    BY <1>0, <1>8, HandlersMove DEF GuardChat
  <2> QED BY <1>1, <1>2, <2>1 DEF catalogVars
<1>9. CASE OpenChat(s)
  <2> DEFINE p == <<arg[s].user, arg[s].row>>
  <2>1. PICK l \in Locales :
          shown' = IF Visible(arg[s].user, arg[s].row, l) THEN shown \cup {p} ELSE shown
    BY <1>9 DEF OpenChat
  <2>2. End(s) /\ UNCHANGED <<scenarios, bundles, attached, grants>> /\ arg[s] \in ChatArg
    BY <1>0, <1>9 DEF OpenChat
  <2>3. Foreign(CatalogSteps)
    BY <1>0, <2>2, HandlersMove, MovesOne DEF Foreign, Bystands, CatalogSteps, Fetching
  <2>4. Grows /\ Checked'
    BY <2>2 DEF Grows, CatalogTypes, Checked, TypeOwnerCheck
  <2>5. CASE ~Visible(arg[s].user, arg[s].row, l)
    BY <2>1, <2>2, <2>3, <2>4, <2>5, ForeignKeeps
  <2>6. CASE Visible(arg[s].user, arg[s].row, l)
    <3>1. arg[s].row \in DOMAIN scenarios /\ scenarios[arg[s].row].owner \in {0, arg[s].user}
      BY <2>6, VisibleMine
    <3>2. arg[s].user \in Members
      BY <2>2 DEF ChatArg
    <3>3. \A r \in Slots : Holding(r)'
      BY <2>3, <2>4, HoldingKept DEF Foreign
    <3>4. CatalogTypes'
      BY <2>1, <2>2, <2>3, <2>6, <3>1, <3>2 DEF CatalogTypes, Foreign
    <3>5. BundledUnowned' /\ BundlesWhole'
      BY <2>2 DEF BundledUnowned, BundlesWhole
    <3>6. PersonalPrivate'
      BY <2>1, <2>2, <2>6, <3>1 DEF PersonalPrivate
    <3> QED BY <2>4, <3>3, <3>4, <3>5, <3>6
  <2> QED BY <2>5, <2>6
<1> QED BY <1>4, <1>5, <1>6, <1>7, <1>8, <1>9

\* No step of the catalogue breaks what the tables hold.
LEMMA StoreStep ==
    ASSUME StoreInv, TierTypes, CatalogNext
    PROVE  StoreInv'
<1>0. DOMAIN at = Slots /\ DOMAIN arg = Slots
  BY DEF StoreInv, CatalogTypes
<1>1. ASSUME UNCHANGED <<scenarios, bundles, attached, grants, shown>>, Foreign(CatalogSteps)
      PROVE  StoreInv'
  <2>1. Grows /\ Checked'
    BY <1>1 DEF StoreInv, Grows, CatalogTypes, Checked, TypeOwnerCheck
  <2> QED BY <1>1, <2>1, ForeignKeeps
<1>2. ASSUME NEW s \in Slots, CatalogStep(s) PROVE StoreInv'
  <2>1. CASE CatalogFails(s)
    <3>1. Foreign(CatalogSteps) /\ UNCHANGED catalogVars
      BY <1>0, <2>1, HandlersMove, MovesOne DEF CatalogFails, Foreign, Bystands, CatalogSteps, Fetching
    <3> QED BY <1>1, <3>1 DEF catalogVars
  <2> QED BY <1>2, <2>1, EditorsKeep, BundlingKeeps, StoreBundleKeeps, RedeemingKeeps, ChatKeeps
          DEF CatalogStep
<1>3. CASE Subscribe
  BY <1>0, <1>1, <1>3, InstantForeign DEF Subscribe
<1>4. CASE HourPasses
  BY <1>0, <1>1, <1>4 DEF HourPasses, handlerVars, Foreign, Bystands
<1>5. CASE Restart /\ CatalogRestart
  BY <1>1, <1>5, RestartIdles DEF CatalogRestart, CatalogSteps, Fetching
<1> QED BY <1>2, <1>3, <1>4, <1>5, EditorsKeep, PersonalKeeps, BrowseKeeps DEF CatalogNext

-----------------------------------------------------------------------------
(* What the guard of the chat knows of the tiers. *)

\* The awaits at which a request has asked for a tier.
TierSteps == Fetching \cup {"tier known"}

\* The history only ever learns later moments, and goes on saying what is now.
HistoryGrows ==
    /\ hour' \in Nat /\ hour <= hour'
    /\ tierHeld' \in [1 .. MaxRows -> [Tiers -> Int]]
    /\ \A i \in 1 .. MaxRows, t \in Tiers : tierHeld[i][t] <= tierHeld'[i][t] /\ tierHeld'[i][t] <= hour'
    /\ HeldNow'

\* What a request was told, or is about to be, stays right.
LEMMA ToldRightKept ==
    ASSUME StoreInv, TierInv, HistoryGrows, NEW s \in Slots, Bystands(s, TierSteps)
    PROVE  ToldRight(s)'
<1>1. CASE at'[s] \in Fetching
  <2>1. at'[s] = at[s] /\ arg'[s] = arg[s] /\ arg[s] \in ChatArg
    BY <1>1 DEF Bystands, TierSteps, StoreInv, Holding, HoldsChat, ChatArg
  <2>2. ToldRight(s)
    BY DEF TierInv, AnswerHeld
  <2>3. /\ arg[s].row \in 1 .. MaxRows /\ arg[s].tier \in Tiers
        /\ arg[s].from \in Nat /\ arg[s].since \in Nat
    BY <2>1 DEF ChatArg
  <2>4. hour \in Nat /\ hour' \in Nat /\ hour <= hour'
    BY DEF HistoryGrows, TierInv, TierTypes
  <2> DEFINE i == arg[s].row
             t == arg[s].tier
             f == arg[s].from
             q == arg[s].since
  <2>5. tierHeld[i][t] \in Int /\ tierHeld'[i][t] \in Int /\ tierHeld[i][t] <= tierHeld'[i][t]
    BY <2>3 DEF HistoryGrows, TierInv, TierTypes
  <2>6. at[s] \in Fetching => q <= f /\ f <= hour
    BY <2>2 DEF ToldRight
  <2>7. at[s] = "put tier" => tierHeld[i][t] >= f
    BY <2>2 DEF ToldRight
  <2>8. /\ at'[s] = at[s]
        /\ arg'[s].row = i /\ arg'[s].tier = t /\ arg'[s].from = f /\ arg'[s].since = q
    BY <2>1
  <2>9. f \in Nat /\ q \in Nat
    BY <2>3
  <2> HIDE DEF i, t, f, q
  <2>10. at[s] \in Fetching => f <= hour'
    BY <2>4, <2>6, <2>9
  <2>11. ASSUME at[s] = "put tier" PROVE tierHeld'[i][t] >= f
    <3> DEFINE x == tierHeld[i][t]
               y == tierHeld'[i][t]
    <3>1. x \in Int /\ y \in Int /\ x <= y
      BY <2>5
    <3>2. f <= x
      BY <2>7, <2>11
    <3> HIDE DEF x, y
    <3>3. f <= y
      BY <2>9, <3>1, <3>2
    <3> QED BY <2>9, <3>1, <3>3 DEF y
  <2> QED BY <2>6, <2>8, <2>10, <2>11 DEF ToldRight
<1>2. CASE at'[s] \notin Fetching
  BY <1>2 DEF ToldRight, Fetching
<1> QED BY <1>1, <1>2

\* The cache, left alone or emptied, stays right.
LEMMA TierKept ==
    ASSUME StoreInv, TierInv, HistoryGrows, tiers' = tiers \/ tiers' = << >>,
           \A s \in Slots : ToldRight(s)'
    PROVE  TierInv'
<1>0. TierTtl \in Nat
  BY CatalogAssumption
<1>1. TierTypes'
  BY DEF TierInv, TierTypes, HistoryGrows
<1>2. EntriesHeld'
  BY <1>0 DEF TierInv, TierTypes, EntriesHeld, HistoryGrows
<1> QED BY <1>1, <1>2 DEF TierInv, HistoryGrows, AnswerHeld

\* A step that leaves the rows and the clock alone makes no history.
LEMMA SameHistory ==
    ASSUME TierInv, UNCHANGED <<scenarios, hour, tierHeld>>
    PROVE  HistoryGrows
  BY DEF TierInv, TierTypes, HeldNow, Tier, HistoryGrows

\* Storing rows makes of the tier of each a tier it has now.
LEMMA StoreHistory ==
    ASSUME TierInv, CatalogTypes', NEW rows, Store(rows), UNCHANGED hour
    PROVE  HistoryGrows
<1>1. tierHeld' = [i \in 1 .. MaxRows |-> [t \in Tiers |-> IF Tier(i)' = t THEN hour ELSE tierHeld[i][t]]]
  BY DEF Store
<1>2. ASSUME NEW i \in 1 .. MaxRows PROVE Tier(i)' \in Tiers
  <2>1. i \in DOMAIN scenarios' => scenarios'[i] \in Row
    BY DEF CatalogTypes
  <2> QED BY <2>1 DEF Tier, Tiers, Row
<1>3. HeldNow'
  BY <1>1, <1>2 DEF HeldNow
<1>4. hour \in Int
  BY DEF TierInv, TierTypes
<1> QED BY <1>1, <1>3, <1>4 DEF TierInv, TierTypes, HistoryGrows

\* Time passes, and every row has had its tier up to now.
LEMMA HourHistory ==
    ASSUME StoreInv, TierInv, HourPasses
    PROVE  HistoryGrows
<1>1. \A i \in 1 .. MaxRows : Tier(i) \in Tiers /\ Tier(i)' = Tier(i)
  BY TierTyped DEF StoreInv, HourPasses, Tier
<1>2. /\ hour' = hour + 1
      /\ tierHeld' = [i \in 1 .. MaxRows |-> [tierHeld[i] EXCEPT ![Tier(i)] = hour']]
  BY DEF HourPasses
<1>3. HeldNow'
  BY <1>1, <1>2 DEF HeldNow, TierInv, TierTypes
<1> QED BY <1>1, <1>2, <1>3 DEF TierInv, TierTypes, HistoryGrows

-----------------------------------------------------------------------------
(* Every step is one of StaleRead, or changes nothing of what it speaks of. *)

\* What StaleRead sees of a slot.
LEMMA AskedOf ==
    ASSUME NEW s \in Slots
    PROVE  /\ TierAsked[s] = IF at[s] \in TierSteps
                             THEN StaleTier!Question(arg[s].row, arg[s].since,
                                                     IF at[s] = "tier known" THEN {arg[s].tier} ELSE {})
                             ELSE {}
           /\ TierAsked'[s] = IF at'[s] \in TierSteps
                              THEN StaleTier!Question(arg'[s].row, arg'[s].since,
                                                      IF at'[s] = "tier known" THEN {arg'[s].tier} ELSE {})
                              ELSE {}
  BY DEF TierAsked, TierSteps, StaleTier!Question

\* A step that leaves the rows and the clock alone, and asks nothing, is that of
\* requests that leave.
LEMMA QuietStep ==
    ASSUME StoreInv, TierInv, Foreign(TierSteps), UNCHANGED <<scenarios, hour, tierHeld>>,
           tiers' = tiers \/ tiers' = << >>
    PROVE  TierInv' /\ StaleTier!Next
<1>1. TierInv'
  BY SameHistory, ToldRightKept, TierKept DEF Foreign
<1> DEFINE R == {s \in Slots : at'[s] \notin TierSteps}
<1>2. \A s \in Slots : TierAsked'[s] = IF s \in R THEN {} ELSE TierAsked[s]
  BY AskedOf DEF Foreign, Bystands
<1>3. TierAsked' = [s \in Slots |-> IF s \in R THEN {} ELSE TierAsked[s]]
  BY <1>2 DEF TierAsked
<1>4. [i \in 1 .. MaxRows |-> Tier(i)]' = [i \in 1 .. MaxRows |-> Tier(i)]
  BY DEF Tier
<1>5. StaleTier!Leave(R)
  BY <1>3, <1>4 DEF StaleTier!Leave
<1>6. R \in SUBSET Slots
  OBVIOUS
<1> QED BY <1>1, <1>5, <1>6 DEF StaleTier!Next

\* A statement that changes the tier of one row at most is a write of that tier.
LEMMA WriteStep ==
    ASSUME StoreInv, CatalogTypes', TierInv, NEW rows, Store(rows), UNCHANGED <<hour, tiers>>,
           Foreign(TierSteps), \A s \in Slots : at[s] \in TierSteps => at'[s] \in TierSteps,
           NEW k \in 1 .. MaxRows, \A i \in 1 .. MaxRows : i # k => Tier(i)' = Tier(i)
    PROVE  TierInv' /\ StaleTier!Next
<1>1. TierInv'
  BY StoreHistory, ToldRightKept, TierKept DEF Foreign
<1> DEFINE v == Tier(k)'
<1>2. v \in Tiers
  <2>1. k \in DOMAIN scenarios' => scenarios'[k] \in Row
    BY DEF CatalogTypes
  <2> QED BY <2>1 DEF Tier, Tiers, Row
<1>3. TierAsked' = TierAsked
  <2>1. \A s \in Slots : TierAsked'[s] = TierAsked[s]
    BY AskedOf DEF Foreign, Bystands
  <2> QED BY <2>1 DEF TierAsked
<1>4. [i \in 1 .. MaxRows |-> Tier(i)]' = [[i \in 1 .. MaxRows |-> Tier(i)] EXCEPT ![k] = v]
  OBVIOUS
<1>5. tierHeld' = [tierHeld EXCEPT ![k][v] = hour]
  <2>1. tierHeld' = [i \in 1 .. MaxRows |-> [t \in Tiers |-> IF Tier(i)' = t THEN hour ELSE tierHeld[i][t]]]
    BY DEF Store
  <2>2. /\ tierHeld \in [1 .. MaxRows -> [Tiers -> Int]]
        /\ \A i \in 1 .. MaxRows : tierHeld[i][Tier(i)] = hour
    BY DEF TierInv, TierTypes, HeldNow
  <2>3. ASSUME NEW i \in 1 .. MaxRows, i # k PROVE tierHeld'[i] = tierHeld[i]
    BY <2>1, <2>2, <2>3
  <2>4. tierHeld'[k] = [tierHeld[k] EXCEPT ![v] = hour]
    BY <1>2, <2>1, <2>2
  <2> HIDE DEF v
  <2> QED BY <2>1, <2>2, <2>3, <2>4
<1>6. StaleTier!Write(k, v)
  BY <1>3, <1>4, <1>5 DEF StaleTier!Write
<1> QED BY <1>1, <1>2, <1>6 DEF StaleTier!Next

\* An hour is a tick.
LEMMA TickStep ==
    ASSUME StoreInv, TierInv, HourPasses
    PROVE  TierInv' /\ StaleTier!Next
<1>1. Foreign(TierSteps)
  BY DEF HourPasses, handlerVars, Foreign, Bystands, StoreInv, CatalogTypes
<1>2. TierInv'
  BY <1>1, HourHistory, ToldRightKept, TierKept DEF Foreign, HourPasses
<1>3. [i \in 1 .. MaxRows |-> Tier(i)]' = [i \in 1 .. MaxRows |-> Tier(i)]
  BY DEF Tier, HourPasses
<1>4. TierAsked' = TierAsked
  BY DEF TierAsked, HourPasses, handlerVars
<1>5. StaleTier!Tick
  BY <1>3, <1>4 DEF StaleTier!Tick, HourPasses
<1> QED BY <1>2, <1>5 DEF StaleTier!Next

\* One slot moves, and the rows and the clock stay: what StaleRead sees of the others
\* is as before.
LEMMA OneAsks ==
    ASSUME StoreInv, NEW s \in Slots, NEW step \in TierSteps, NEW a, Moved(s, step, a),
           UNCHANGED <<scenarios, hour, tierHeld>>
    PROVE  /\ UNCHANGED <<[i \in 1 .. MaxRows |-> Tier(i)], hour, tierHeld>>
           /\ step = "tier known" =>
                TierAsked' = [TierAsked EXCEPT ![s] = StaleTier!Question(a.row, a.since, {a.tier})]
           /\ step \in Fetching =>
                TierAsked' = [TierAsked EXCEPT ![s] = StaleTier!Question(a.row, a.since, {})]
<1>1. /\ at'[s] = step /\ arg'[s] = a
      /\ \A r \in Slots \ {s} : at'[r] = at[r] /\ arg'[r] = arg[r]
  BY MovesOne DEF StoreInv, CatalogTypes
<1>2. \A r \in Slots \ {s} : TierAsked'[r] = TierAsked[r]
  BY <1>1, AskedOf
<1>3. TierAsked'[s] = StaleTier!Question(a.row, a.since, IF step = "tier known" THEN {a.tier} ELSE {})
  BY <1>1, AskedOf
<1>4. \A x : TierAsked'[s] = x => TierAsked' = [TierAsked EXCEPT ![s] = x]
  BY <1>2 DEF TierAsked
<1>5. step \in Fetching => step # "tier known"
  BY DEF Fetching
<1>6. UNCHANGED <<[i \in 1 .. MaxRows |-> Tier(i)], hour, tierHeld>>
  BY DEF Tier
<1> QED BY <1>3, <1>4, <1>5, <1>6

\* A request of the chat asks for a tier, from the cache or a query, and is told it.
LEMMA ChatStep ==
    ASSUME StoreInv, TierInv, NEW s \in Slots,
           EnterChat(s) \/ LookUpTier(s) \/ FetchTier(s) \/ PutTier(s)
    PROVE  TierInv' /\ [StaleTier!Next]_(StaleTier!vars)
<1> DEFINE reg == [i \in 1 .. MaxRows |-> Tier(i)]
<1>0. /\ UNCHANGED <<scenarios, hour, tierHeld>>
      /\ HistoryGrows
      /\ hour \in Nat /\ TierTtl \in Nat
      /\ at[s] \in TierSteps => arg[s] \in ChatArg
      /\ ToldRight(s)
  BY SameHistory, CatalogAssumption
  DEF EnterChat, LookUpTier, FetchTier, PutTier, catalogVars, TierInv, TierTypes, AnswerHeld,
      StoreInv, Holding, HoldsChat, ChatArg, TierSteps
<1>1. ASSUME NEW step \in TierSteps, NEW a, Moved(s, step, a)
      PROVE  /\ UNCHANGED <<reg, hour, tierHeld>>
             /\ step = "tier known" =>
                  TierAsked' = [TierAsked EXCEPT ![s] = StaleTier!Question(a.row, a.since, {a.tier})]
             /\ step \in Fetching =>
                  TierAsked' = [TierAsked EXCEPT ![s] = StaleTier!Question(a.row, a.since, {})]
             /\ at'[s] = step /\ arg'[s] = a
             /\ \A r \in Slots \ {s} : ToldRight(r)'
  <2>1. /\ at'[s] = step /\ arg'[s] = a
        /\ \A r \in Slots \ {s} : Bystands(r, TierSteps)
    BY <1>1, MovesOne DEF StoreInv, CatalogTypes, Bystands
  <2>2. \A r \in Slots \ {s} : ToldRight(r)'
    BY <1>0, <2>1, ToldRightKept
  <2>3. /\ UNCHANGED <<reg, hour, tierHeld>>
        /\ step = "tier known" =>
             TierAsked' = [TierAsked EXCEPT ![s] = StaleTier!Question(a.row, a.since, {a.tier})]
        /\ step \in Fetching =>
             TierAsked' = [TierAsked EXCEPT ![s] = StaleTier!Question(a.row, a.since, {})]
    BY <1>0, <1>1, OneAsks
  <2> QED BY <2>1, <2>2, <2>3
<1>2. ASSUME NEW q \in [row : 1 .. MaxRows, since : Nat],
             TierAsked[s] = StaleTier!Question(q.row, q.since, {}),
             NEW v \in Tiers, tierHeld[q.row][v] >= q.since - TierTtl,
             UNCHANGED <<reg, hour, tierHeld>>,
             TierAsked' = [TierAsked EXCEPT ![s] = StaleTier!Question(q.row, q.since, {v})]
      PROVE  StaleTier!Next
  <2>1. StaleTier!Answer(s, v)
    BY <1>2 DEF StaleTier!Answer, StaleTier!Question
  <2> QED BY <2>1 DEF StaleTier!Next
<1>a. ASSUME NEW x, TierAsked[s] = x, TierAsked' = [TierAsked EXCEPT ![s] = x]
      PROVE  TierAsked' = TierAsked
  BY <1>a DEF TierAsked
<1>b. ASSUME at'[s] # "put tier", arg'[s].since <= arg'[s].from, arg'[s].from <= hour'
      PROVE  ToldRight(s)'
  BY <1>b DEF ToldRight
<1>3. CASE EnterChat(s)
  <2>1. PICK u \in Members, i \in 1 .. MaxRows :
          /\ Begin(s, "chat", "tier", [op |-> "chat", user |-> u, row |-> i, since |-> hour,
                                       from |-> hour, tier |-> "none"])
          /\ tiers' = tiers
    BY <1>3 DEF EnterChat, catalogVars
  <2> DEFINE a == [op |-> "chat", user |-> u, row |-> i, since |-> hour, from |-> hour, tier |-> "none"]
  <2>2. Moved(s, "tier", a)
    BY <2>1, HandlersMove
  <2>3. a.row = i /\ a.since = hour /\ a.from = hour
    OBVIOUS
  <2> HIDE DEF a
  <2>4. TierAsked' = [TierAsked EXCEPT ![s] = StaleTier!Question(i, hour, {})]
    BY <1>1, <2>2, <2>3 DEF TierSteps, Fetching
  <2>5. UNCHANGED <<reg, hour, tierHeld>> /\ at'[s] = "tier" /\ arg'[s] = a
    BY <1>1, <2>2 DEF TierSteps, Fetching
  <2>6. StaleTier!Ask(s, i)
    BY <2>4, <2>5 DEF StaleTier!Ask
  <2>6a. arg'[s].since = hour /\ arg'[s].from = hour
    BY <2>3, <2>5
  <2>7. ToldRight(s)'
    BY <1>0, <1>b, <2>5, <2>6a
  <2>8. \A r \in Slots : ToldRight(r)'
    BY <1>1, <2>2, <2>7 DEF TierSteps, Fetching
  <2>9. TierInv'
    BY <1>0, <2>1, <2>8, TierKept
  <2> QED BY <2>6, <2>9 DEF StaleTier!Next
<1>4. CASE LookUpTier(s)
  <2> DEFINE i == arg[s].row
             q == [row |-> i, since |-> arg[s].since]
  <2>1. /\ at[s] = "tier" /\ arg[s] \in ChatArg /\ tiers' = tiers
        /\ q \in [row : 1 .. MaxRows, since : Nat] /\ q.row = i /\ q.since = arg[s].since
    BY <1>0, <1>4 DEF LookUpTier, TierSteps, Fetching, ChatArg, catalogVars
  <2>2. TierAsked[s] = StaleTier!Question(i, arg[s].since, {})
    BY <2>1, AskedOf DEF TierSteps, Fetching
  <2>3. arg[s].since <= hour /\ arg[s].since \in Nat
    BY <1>0, <2>1 DEF ToldRight, Fetching, ChatArg
  <2>4. CASE Fresh(i) # {}
    <3> DEFINE v == tiers[i].tier
               a == [arg[s] EXCEPT !.tier = v]
    <3>1. i \in DOMAIN tiers /\ tiers[i].expires > hour
      BY <2>4 DEF Fresh
    <3>2. /\ v \in Tiers /\ tiers[i].expires \in Int /\ tierHeld[i][v] \in Int
          /\ tierHeld[i][v] >= tiers[i].expires - TierTtl
      BY <2>1, <3>1 DEF TierInv, TierTypes, EntriesHeld, ChatArg
    <3>3. Moved(s, "tier known", a)
      BY <1>4, <2>4, HandlersMove DEF LookUpTier
    <3>4. a.row = i /\ a.since = arg[s].since /\ a.tier = v
      BY <2>1 DEF ChatArg
    <3> HIDE DEF v, a
    <3>5. TierAsked' = [TierAsked EXCEPT ![s] = StaleTier!Question(i, arg[s].since, {v})]
      BY <1>1, <3>3, <3>4 DEF TierSteps
    <3>6. UNCHANGED <<reg, hour, tierHeld>> /\ at'[s] = "tier known"
      BY <1>1, <3>3 DEF TierSteps
    <3>7. tierHeld[i][v] >= arg[s].since - TierTtl
      BY <1>0, <2>3, <3>1, <3>2
    <3> HIDE DEF q
    <3>8. StaleTier!Next
      BY <1>2, <2>1, <2>2, <3>2, <3>5, <3>6, <3>7
    <3>9. \A r \in Slots : ToldRight(r)'
      BY <1>1, <3>3, <3>6 DEF TierSteps, Fetching, ToldRight
    <3> QED BY <1>0, <2>1, <3>8, <3>9, TierKept
  <2>5. CASE Fresh(i) = {}
    <3> DEFINE a == [arg[s] EXCEPT !.from = hour]
    <3>1. Moved(s, "fetch tier", a)
      BY <1>4, <2>5, HandlersMove DEF LookUpTier
    <3>2. a.row = i /\ a.since = arg[s].since /\ a.from = hour
      BY <2>1 DEF ChatArg
    <3> HIDE DEF a
    <3>3. UNCHANGED <<reg, hour, tierHeld>> /\ at'[s] = "fetch tier" /\ arg'[s] = a
      BY <1>1, <3>1 DEF TierSteps, Fetching
    <3>4. TierAsked' = TierAsked
      <4>1. TierAsked' = [TierAsked EXCEPT ![s] = StaleTier!Question(i, arg[s].since, {})]
        BY <1>1, <3>1, <3>2 DEF TierSteps, Fetching
      <4> QED BY <1>a, <2>2, <4>1
    <3>4a. arg'[s].since <= arg'[s].from /\ arg'[s].from <= hour'
      <4>1. arg'[s].since = arg[s].since /\ arg'[s].from = hour
        BY <3>2, <3>3
      <4>2. hour' = hour
        BY <1>0
      <4>3. hour <= hour
        BY <1>0
      <4> QED BY <2>3, <4>1, <4>2, <4>3
    <3>5. ToldRight(s)'
      BY <1>0, <1>b, <3>3, <3>4a
    <3>6. \A r \in Slots : ToldRight(r)'
      BY <1>1, <3>1, <3>5 DEF TierSteps, Fetching
    <3> QED BY <1>0, <2>1, <3>3, <3>4, <3>6, TierKept DEF StaleTier!vars
  <2> QED BY <2>4, <2>5
<1>5. CASE FetchTier(s)
  <2> DEFINE i == arg[s].row
             a == [arg[s] EXCEPT !.tier = Tier(i)]
  <2>1. at[s] = "fetch tier" /\ arg[s] \in ChatArg /\ tiers' = tiers /\ Moved(s, "put tier", a)
    BY <1>0, <1>5, HandlersMove DEF FetchTier, TierSteps, Fetching, catalogVars
  <2>2. TierAsked[s] = StaleTier!Question(i, arg[s].since, {})
    BY <2>1, AskedOf DEF TierSteps, Fetching
  <2>3. a.row = i /\ a.since = arg[s].since /\ a.from = arg[s].from /\ a.tier = Tier(i)
    BY <2>1 DEF ChatArg
  <2> HIDE DEF a
  <2>4. UNCHANGED <<reg, hour, tierHeld>> /\ at'[s] = "put tier" /\ arg'[s] = a
    BY <1>1, <2>1 DEF TierSteps, Fetching
  <2>5. TierAsked' = TierAsked
    BY <1>1, <1>a, <2>1, <2>2, <2>3 DEF TierSteps, Fetching
  <2>6. i \in 1 .. MaxRows /\ tierHeld[i][Tier(i)] = hour
    BY <2>1 DEF ChatArg, TierInv, HeldNow
  <2>7. arg[s].since <= arg[s].from /\ arg[s].from <= hour /\ arg[s].from \in Nat
    BY <1>0, <2>1 DEF ToldRight, Fetching, ChatArg
  <2> HIDE DEF i
  <2>8. ToldRight(s)'
    BY <1>0, <2>3, <2>4, <2>6, <2>7 DEF ToldRight
  <2>9. \A r \in Slots : ToldRight(r)'
    BY <1>1, <2>1, <2>8 DEF TierSteps, Fetching
  <2> QED BY <1>0, <2>1, <2>4, <2>5, <2>9, TierKept DEF StaleTier!vars
<1>6. CASE PutTier(s)
  <2> DEFINE i == arg[s].row
             v == arg[s].tier
             q == [row |-> i, since |-> arg[s].since]
             new == [tier |-> v, expires |-> Expires(s)]
             left == {k \in DOMAIN tiers : tiers[k].expires > arg[s].from}
  <2>1. /\ at[s] = "put tier" /\ arg[s] \in ChatArg /\ Moved(s, "tier known", arg[s])
        /\ tiers' = IF v = "none" THEN tiers
                    ELSE [k \in left \cup {i} |-> IF k = i THEN new ELSE tiers[k]]
    BY <1>0, <1>6, HandlersMove DEF PutTier, TierSteps, Fetching
  <2>2. /\ q \in [row : 1 .. MaxRows, since : Nat] /\ q.row = i /\ q.since = arg[s].since
        /\ i \in 1 .. MaxRows /\ v \in Tiers /\ arg[s].from \in Nat /\ arg[s].since \in Nat
    BY <2>1 DEF ChatArg
  <2>3. /\ arg[s].since <= arg[s].from /\ tierHeld[i][v] >= arg[s].from
        /\ tierHeld[i][v] \in Int
    BY <1>0, <2>1, <2>2 DEF ToldRight, Fetching, TierInv, TierTypes
  <2>4. TierAsked[s] = StaleTier!Question(i, arg[s].since, {})
    BY <2>1, AskedOf DEF TierSteps, Fetching
  <2>5. TierAsked' = [TierAsked EXCEPT ![s] = StaleTier!Question(i, arg[s].since, {v})]
    BY <1>1, <2>1 DEF TierSteps
  <2>6. UNCHANGED <<reg, hour, tierHeld>> /\ at'[s] = "tier known"
    BY <1>1, <2>1 DEF TierSteps
  <2>7. /\ new.tier = v /\ new.expires = arg[s].from + TierTtl
    BY DEF Expires
  <2> HIDE DEF i, v, q, new
  <2>8. tierHeld[i][v] >= arg[s].since - TierTtl
    BY <1>0, <2>2, <2>3
  <2>9. StaleTier!Next
    BY <1>2, <2>2, <2>4, <2>5, <2>6, <2>8
  <2>10. \A r \in Slots : ToldRight(r)'
    BY <1>1, <2>1, <2>6 DEF TierSteps, Fetching, ToldRight
  <2>c. \A k \in DOMAIN tiers' :
           \/ k = i /\ tiers'[k] = new
           \/ k \in DOMAIN tiers /\ tiers'[k] = tiers[k]
    BY <2>1
  <2>d. new.expires \in Int
    BY <1>0, <2>2, <2>7
  <2>11. TierTypes'
    BY <1>0, <2>2, <2>7, <2>c, <2>d DEF TierInv, TierTypes
  <2>e. tierHeld[i][new.tier] >= new.expires - TierTtl
    BY <1>0, <2>2, <2>3, <2>7
  <2>12. EntriesHeld'
    BY <1>0, <2>c, <2>e DEF TierInv, EntriesHeld
  <2> QED BY <1>0, <2>9, <2>10, <2>11, <2>12 DEF TierInv, HistoryGrows, AnswerHeld
<1> QED BY <1>3, <1>4, <1>5, <1>6

\* Inserting a row writes the tier of an id nobody had, if the CHECK lets it in.
LEMMA InsertStep ==
    ASSUME StoreInv, CatalogTypes', TierInv, NEW row \in Row, Insert(row),
           UNCHANGED <<hour, tiers, at, arg>>
    PROVE  TierInv' /\ StaleTier!Next
<1>1. Foreign(TierSteps) /\ \A s \in Slots : at[s] \in TierSteps => at'[s] \in TierSteps
  BY DEF Foreign, Bystands, StoreInv, CatalogTypes
<1>2. CASE TypeOwnerCheck(row)
  <2> DEFINE k == Len(scenarios) + 1
  <2>1. Store(Append(scenarios, row)) /\ Len(scenarios) < MaxRows
    BY <1>2 DEF Insert
  <2>2. scenarios \in Seq(Row) /\ scenarios' = Append(scenarios, row) /\ MaxRows \in Nat
    BY <2>1, CatalogAssumption DEF Store, StoreInv, CatalogTypes
  <2>3. k \in 1 .. MaxRows
    BY <2>1, <2>2
  <2>4. ASSUME NEW i \in 1 .. MaxRows, i # k PROVE Tier(i)' = Tier(i)
    <3>1. /\ i \in DOMAIN scenarios' <=> i \in DOMAIN scenarios
          /\ i \in DOMAIN scenarios => scenarios'[i] = scenarios[i]
      BY <2>2, <2>4
    <3> QED BY <3>1 DEF Tier
  <2> HIDE DEF k
  <2> QED BY <1>1, <2>1, <2>3, <2>4, WriteStep
<1>3. CASE ~TypeOwnerCheck(row)
  <2>1. UNCHANGED <<scenarios, tierHeld>>
    BY <1>3 DEF Insert
  <2> QED BY <1>1, <2>1, QuietStep
<1> QED BY <1>2, <1>3

\* Rewriting a row writes the tier it has from now on.
LEMMA RewriteStep ==
    ASSUME StoreInv, CatalogTypes', TierInv, NEW i \in DOMAIN scenarios, NEW row, NEW rows,
           rows = [scenarios EXCEPT ![i] = row], Store(rows), UNCHANGED <<hour, tiers>>,
           Foreign(TierSteps), \A s \in Slots : at[s] \in TierSteps => at'[s] \in TierSteps
    PROVE  TierInv' /\ StaleTier!Next
<1>1. /\ scenarios \in Seq(Row) /\ scenarios' = [scenarios EXCEPT ![i] = row]
      /\ Len(scenarios) <= MaxRows /\ MaxRows \in Nat
  BY CatalogAssumption DEF Store, StoreInv, CatalogTypes
<1>2. i \in 1 .. MaxRows
  BY <1>1
<1>3. \A j \in 1 .. MaxRows : j # i => Tier(j)' = Tier(j)
  BY <1>1 DEF Tier
<1> QED BY <1>2, <1>3, WriteStep

\* The handlers that ask no tier.
LEMMA OtherMoves ==
    ASSUME StoreInv, NEW s \in Slots,
           \/ EditContent(s) \/ CreateBundle(s) \/ AttachScenarios(s) \/ ValidateScenarios(s)
           \/ AssertNoAttachments(s) \/ StoreBundle(s) \/ Redeem(s) \/ FindBundle(s) \/ Grant(s)
           \/ GuardChat(s) \/ OpenChat(s) \/ CatalogFails(s)
    PROVE  Foreign(TierSteps) /\ UNCHANGED <<scenarios, hour, tierHeld, tiers>>
<1>1. UNCHANGED <<scenarios, hour, tierHeld, tiers>>
  BY DEF EditContent, CreateBundle, AttachScenarios, ValidateScenarios, AssertNoAttachments,
         StoreBundle, Redeem, FindBundle, Grant, GuardChat, OpenChat, CatalogFails, catalogVars
<1>2. ASSUME NEW step, step \notin TierSteps, NEW a, Moved(s, step, a) PROVE Foreign(TierSteps)
  BY <1>2, MovesOne DEF Foreign, Bystands, StoreInv, CatalogTypes
<1>3. ASSUME NEW step \in {"idle", "content", "attachable", "unattached", "attach", "members",
                           "grant", "enter"}
      PROVE step \notin TierSteps
  BY <1>3 DEF TierSteps, Fetching
<1>4. \E step \in {"idle", "content", "attachable", "unattached", "attach", "members",
                   "grant", "enter"}, a \in {arg'[s]} : Moved(s, step, a)
  <2>1. ASSUME NEW step, NEW a, Moved(s, step, a) PROVE arg'[s] = a
    BY <2>1, MovesOne DEF StoreInv, CatalogTypes
  <2>2. ASSUME EditContent(s) PROVE \E a : Moved(s, "content", a)
    BY <2>2, HandlersMove DEF EditContent
  <2>3. ASSUME CreateBundle(s) \/ AttachScenarios(s) PROVE \E a : Moved(s, "attachable", a)
    BY <2>3, HandlersMove DEF CreateBundle, AttachScenarios
  <2>4. ASSUME Redeem(s) PROVE \E a : Moved(s, "members", a)
    BY <2>4, HandlersMove DEF Redeem
  <2>5. ASSUME FindBundle(s) PROVE \E a : Moved(s, "grant", a) \/ Moved(s, "idle", a)
    BY <2>5, HandlersMove DEF FindBundle
  <2>6. ASSUME ValidateScenarios(s) PROVE \E a : Moved(s, "unattached", a) \/ Moved(s, "idle", a)
    BY <2>6, HandlersMove DEF ValidateScenarios
  <2>7. ASSUME AssertNoAttachments(s) PROVE \E a : Moved(s, "attach", a) \/ Moved(s, "idle", a)
    BY <2>7, HandlersMove DEF AssertNoAttachments
  <2>8. ASSUME GuardChat(s) PROVE \E a : Moved(s, "enter", a) \/ Moved(s, "idle", a)
    BY <2>8, HandlersMove DEF GuardChat
  <2>9. ASSUME StoreBundle(s) \/ Grant(s) \/ OpenChat(s) \/ CatalogFails(s) PROVE \E a : Moved(s, "idle", a)
    BY <2>9, HandlersMove DEF StoreBundle, Grant, OpenChat, CatalogFails
  <2> QED BY <2>1, <2>2, <2>3, <2>4, <2>5, <2>6, <2>7, <2>8, <2>9
<1> QED BY <1>1, <1>2, <1>3, <1>4

\* A step of the catalogue keeps the invariant and is one of StaleRead's or a stutter.
LEMMA CatalogSteppedBy ==
    ASSUME CatalogInv, CatalogNext
    PROVE  CatalogInv' /\ [StaleTier!Next]_(StaleTier!vars)
<1> USE DEF CatalogInv
<1>1. StoreInv'
  BY StoreStep DEF TierInv
<1>2. CatalogTypes' /\ CatalogTypes
  BY <1>1 DEF StoreInv
<1>3. SUFFICES TierInv' /\ [StaleTier!Next]_(StaleTier!vars)
  BY <1>1
<1>4. ASSUME NEW s \in Slots, CatalogStep(s)
      PROVE  TierInv' /\ [StaleTier!Next]_(StaleTier!vars)
  <2>1. CASE EnterChat(s) \/ LookUpTier(s) \/ FetchTier(s) \/ PutTier(s)
    BY <2>1, ChatStep
  <2>2. CASE UpdateContent(s)
    <3> DEFINE i == arg[s].row
               change == arg[s].change
               row == IF change.field = "tier" THEN [scenarios[i] EXCEPT !.tier = change.to]
                      ELSE [scenarios[i] EXCEPT !.status = change.to]
               rows == IF change.field = "tier" THEN [scenarios EXCEPT ![i].tier = change.to]
                       ELSE [scenarios EXCEPT ![i].status = change.to]
    <3>1. at[s] = "content" /\ UNCHANGED <<hour, tiers>> /\ Moved(s, "idle", Nothing)
      BY <2>2, HandlersMove DEF UpdateContent
    <3>2. Foreign(TierSteps) /\ \A r \in Slots : at[r] \in TierSteps => at'[r] \in TierSteps
      BY <3>1, MovesOne DEF StoreInv, CatalogTypes, Foreign, Bystands, TierSteps, Fetching
    <3>3. CASE Present(i)
      <4>1. i \in DOMAIN scenarios
        BY <3>1 DEF StoreInv, Holding, HoldsEdit
      <4>2. Store(rows) /\ rows = [scenarios EXCEPT ![i] = row]
        BY <2>2, <3>3 DEF UpdateContent
      <4> HIDE DEF row, rows, i
      <4> QED BY <1>1, <1>2, <3>1, <3>2, <4>1, <4>2, RewriteStep
    <3>4. CASE ~Present(i)
      <4>1. UNCHANGED <<scenarios, tierHeld>>
        BY <2>2, <3>4 DEF UpdateContent
      <4> QED BY <3>1, <3>2, <4>1, QuietStep
    <3> QED BY <3>3, <3>4
  <2>3. CASE ~(EnterChat(s) \/ LookUpTier(s) \/ FetchTier(s) \/ PutTier(s) \/ UpdateContent(s))
    BY <1>4, <2>3, OtherMoves, QuietStep DEF CatalogStep
  <2> QED BY <2>1, <2>2, <2>3
<1>5. CASE GenerateDraft
  <2>1. PICK l \in Locales, tier \in {"free", "premium"} :
          /\ Instant("draft") /\ Insert(Entry("system", "draft", tier, 0, l, FALSE))
          /\ UNCHANGED <<hour, tiers>>
    BY <1>5 DEF GenerateDraft
  <2>2. Entry("system", "draft", tier, 0, l, FALSE) \in Row
    BY DEF Entry, Row
  <2> QED BY <1>2, <2>1, <2>2, InsertStep DEF Instant
<1>6. CASE StorePersonal
  <2>1. PICK u \in Members, l \in Locales :
          /\ Instant("personalize") /\ Insert(PersonalEntry(u, l)) /\ UNCHANGED <<hour, tiers>>
    BY <1>6 DEF StorePersonal
  <2>2. PersonalEntry(u, l) \in Row
    BY DEF PersonalEntry, Entry, Row
  <2> QED BY <1>2, <2>1, <2>2, InsertStep DEF Instant
<1>7. CASE DropPersonal
  <2>1. PICK i \in DOMAIN scenarios :
          /\ Instant("personalize") /\ Store([scenarios EXCEPT ![i].live = FALSE])
          /\ UNCHANGED <<hour, tiers>>
    BY <1>7 DEF DropPersonal
  <2>2. [scenarios EXCEPT ![i].live = FALSE] = [scenarios EXCEPT ![i] = [scenarios[i] EXCEPT !.live = FALSE]]
    OBVIOUS
  <2>3. Foreign(TierSteps) /\ \A s \in Slots : at[s] \in TierSteps => at'[s] \in TierSteps
    BY <1>2, <2>1 DEF Instant, Foreign, Bystands, CatalogTypes
  <2> QED BY <1>2, <2>1, <2>2, <2>3, RewriteStep
<1>8. CASE Browse \/ Subscribe
  <2>1. Foreign(TierSteps) /\ UNCHANGED <<scenarios, hour, tierHeld, tiers>>
    BY <1>2, <1>8 DEF Browse, Subscribe, Instant, Foreign, Bystands, CatalogTypes
  <2> QED BY <2>1, QuietStep
<1>9. CASE Restart /\ CatalogRestart
  <2>1. Foreign(TierSteps) /\ UNCHANGED <<scenarios, hour, tierHeld>> /\ tiers' = << >>
    BY <1>9, RestartIdles DEF CatalogRestart, TierSteps, Fetching
  <2> QED BY <2>1, QuietStep
<1> QED BY <1>4, <1>5, <1>6, <1>7, <1>8, <1>9, TickStep DEF CatalogNext

\* A step of another module that leaves the catalogue's tables alone and none of the
\* catalogue's handlers displaced or started keeps all of it.
LEMMA CatalogUntouched ==
    ASSUME CatalogInv, Foreign(CatalogSteps), UNCHANGED catalogVars
    PROVE  CatalogInv' /\ [StaleTier!Next]_(StaleTier!vars)
<1> USE DEF CatalogInv, catalogVars
<1>1. Grows /\ Checked'
  BY DEF StoreInv, Grows, CatalogTypes, Checked, TypeOwnerCheck
<1>2. StoreInv'
  BY <1>1, ForeignKeeps
<1>3. Foreign(TierSteps)
  BY DEF Foreign, Bystands, CatalogSteps, TierSteps
<1> QED BY <1>2, <1>3, QuietStep

\* The rows there are at the start are as the table's CHECK wants them, and nothing
\* is at work.
LEMMA CatalogStart ==
    ASSUME HandlersInit, CatalogInit
    PROVE  CatalogInv /\ StaleTier!Init
<1>1. /\ scenarios \in Seq(Row) /\ Len(scenarios) <= MaxRows
      /\ \A i \in DOMAIN scenarios : TypeOwnerCheck(scenarios[i])
  BY RowsAssumption DEF HandlersInit, CatalogInit
<1>2. /\ DOMAIN at = Slots /\ DOMAIN arg = Slots
      /\ \A s \in Slots : at[s] = "idle"
  BY DEF HandlersInit
<1>3. /\ bundles = << >> /\ attached = {} /\ grants = {} /\ shown = {}
      /\ tiers = << >> /\ hour = 0
      /\ tierHeld = [i \in 1 .. MaxRows |-> [t \in Tiers |-> IF Tier(i) = t THEN 0 ELSE StaleTier!Never]]
  BY DEF CatalogInit
<1>4. MaxRows \in Nat /\ TierTtl \in Nat /\ StaleTier!Never = 0 - TierTtl - 1
  BY CatalogAssumption DEF StaleTier!Never
<1>5. CatalogTypes
  BY <1>1, <1>2, <1>3 DEF CatalogTypes
<1>6. \A i \in 1 .. MaxRows : Tier(i) \in Tiers
  BY <1>5, TierTyped
<1>7. StoreInv
  <2>1. \A s \in Slots : Holding(s)
    BY <1>2 DEF Holding, HoldsEdit, HoldsBundle, HoldsValid, HoldsRedeem, HoldsChat, Fetching
  <2>2. DOMAIN bundles = {}
    BY <1>3
  <2>3. BundledUnowned /\ BundlesWhole /\ PersonalPrivate
    BY <1>3, <2>2 DEF BundledUnowned, BundlesWhole, PersonalPrivate
  <2> QED BY <1>1, <1>5, <2>1, <2>3 DEF StoreInv, Checked
<1>8. TierTypes
  <2>1. StaleTier!Never \in Int /\ StaleTier!Never <= 0
    BY <1>4
  <2> QED BY <1>3, <2>1 DEF TierTypes
<1>9. HeldNow /\ EntriesHeld /\ AnswerHeld
  <2>1. HeldNow
    BY <1>3, <1>6 DEF HeldNow
  <2>2. EntriesHeld
    BY <1>3 DEF EntriesHeld
  <2>3. AnswerHeld
    BY <1>2 DEF AnswerHeld, ToldRight, Fetching
  <2> QED BY <2>1, <2>2, <2>3
<1>10. [i \in 1 .. MaxRows |-> Tier(i)] \in [1 .. MaxRows -> Tiers]
  BY <1>6
<1>11. TierAsked = [s \in Slots |-> {}]
  BY <1>2 DEF TierAsked, Fetching
<1>12. StaleTier!Init
  BY <1>3, <1>10, <1>11 DEF StaleTier!Init
<1> QED BY <1>7, <1>8, <1>9, <1>12 DEF CatalogInv, TierInv

-----------------------------------------------------------------------------
(* The component by itself. *)

\* The catalogue keeps its invariant.
THEOREM CatalogInvariance == CatalogSpec => []CatalogInv
<1>1. HandlersInit /\ CatalogInit => CatalogInv
  BY CatalogStart
<1>2. CatalogInv /\ [CatalogNext]_<<handlerVars, catalogVars>> => CatalogInv'
  <2>1. ASSUME CatalogInv, UNCHANGED <<handlerVars, catalogVars>> PROVE CatalogInv'
    BY <2>1, CatalogUntouched DEF handlerVars, CatalogInv, StoreInv, CatalogTypes, Foreign, Bystands
  <2> QED BY <2>1, CatalogSteppedBy
<1> QED BY <1>1, <1>2, PTL DEF CatalogSpec

\* The guard of the chat, with its cache, implements StaleRead.
THEOREM CatalogImplementsStaleRead == CatalogSpec => TierIsFresh
<1>1. HandlersInit /\ CatalogInit => StaleTier!Init
  BY CatalogStart
<1>2. CatalogInv /\ [CatalogNext]_<<handlerVars, catalogVars>> => [StaleTier!Next]_(StaleTier!vars)
  <2>1. ASSUME CatalogInv, UNCHANGED <<handlerVars, catalogVars>>
        PROVE  [StaleTier!Next]_(StaleTier!vars)
    BY <2>1, CatalogUntouched DEF handlerVars, CatalogInv, StoreInv, CatalogTypes, Foreign, Bystands
  <2> QED BY <2>1, CatalogSteppedBy
<1> QED BY <1>1, <1>2, CatalogInvariance, PTL DEF CatalogSpec, TierIsFresh, StaleTier!Spec

=============================================================================
