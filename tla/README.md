# Verification of the Flowering backend

TLA+ models, TLC runs and TLAPS proofs for the NestJS backend of Flowering, an
app for learning languages (`src/src` in the repository; TypeORM over
PostgreSQL, one Node.js process per pod). Everything is read from the code;
where a comment or a document says something else, a run shows the difference.

## 1. The system

### Components, their state and how they meet

| Component | State it keeps | Operations | Talks to |
|---|---|---|---|
| Subscription (`subscription.service.ts`, webhook controller) | rows of `subscriptions`, ids in `webhook_events` | webhook handlers by event type, `applyRcGroundTruth`, reads | RevenueCat delivers webhooks; emits `subscription.changed` |
| RevenueCat REST client | none | `getSubscriber`: payload or null | PremiumGuard, cron |
| PremiumGuard | positive cache per user, one breaker | `canActivate`, eviction | reads Subscription, calls the client, syncs |
| CircuitBreaker | state, failure count, time of opening | `execute` | wraps the client for the guard and the cron |
| Reconciliation cron | its own breaker | nightly run over stale rows | Subscription, the client |
| Scenario chat | `ai_conversations`, `ai_conversation_messages` | one turn of a roleplay, listing, transcript | model provider, vocabulary, personalization |
| Personalization | personal scenarios, trial and profile columns of `users` | intake chat, completion, offer, pruning | quota asks Subscription; shares the intake engine |
| Intake engine, onboarding, learning agent | conversations, their message counts, cached profile and scenarios | turns, completion, transcript | model provider; auth links sessions to accounts |
| Auth | `users`, `refresh_tokens` | sign-in with Firebase, linking, rotation, logout | onboarding, languages |
| Languages and the language guard | `user_languages`, TTL cache of codes | enrol, switch, auto-enrol | every request that names a language; listings mark the language |
| Vocabulary and translation | `vocabulary`, review sessions in memory, translated messages | start, rate, complete; Leitner boxes; words and sentences | scenario chat touches cards |
| Catalogue: access, lessons, admin content, bundles, redeem | `scenarios`, bundles, grants, TTL cache of tiers | draft, publish, update, attach, redeem, list, guarded chat | Subscription, personalization |
| Migrations, entities, seeds | the schema, `migrations` | `migration:run`, `migration:revert`, the seed of languages at the start | every service takes the result for granted |
| Transcription, mail, storage, progress, users | none, or columns of one row | upserts and reads | outside services |

### What is hard

* **Concurrency.** Node interleaves requests at every `await`, and several pods
  may share the database. State read before a database call, a hash or a call of
  a language model is used after it.
* **Ordering and delivery.** RevenueCat delivers events late, repeatedly and out
  of order, and its REST endpoint answers about a moment that has passed.
* **Partial failure.** A transaction may roll back, a process may die between a
  commit and what follows it, an outside call may fail or answer nonsense.
* **Caches.** Positive answers live on in memory after the row has changed.
* **Limits.** Turn caps, daily quotas, batch sizes, cooldowns, replay windows.

### What makes each part correct

* Subscription: an event changes rows exactly once, is never acknowledged
  without being settled, never overwrites newer knowledge where the code can
  tell; a transfer conserves the row; the locks cannot deadlock.
* PremiumGuard: access ends within the cache's TTL of the row losing it, and a
  revocation evicts.
* CircuitBreaker: counter and state agree whatever order answers come in; a
  failed probe reopens; an open breaker is probed again.
* Cron: no revocation without an answer about that row; a row RevenueCat no longer backs is expired in the end.
* Scenario chat: the counter and the status of a conversation agree with its
  messages; a finished conversation stays finished.
* Intake and onboarding: the count of a conversation is that of its messages; a
  transcript outgrows the cap by what is at work and no more; scenarios stored for a
  session are kept, and given to whoever completes it later.
* Auth: one account for an e-mail, whatever provider; one successor for a refresh
  token; a session is claimed once.
* Languages: one `lastLearned` per learner; no request is served in a language
  that was not active within the TTL.
* Personalization: one trial a month; a prune deletes the oldest, and not what an
  earlier one has left.
* Vocabulary: one rating per card and session; counts and boxes are those of the
  reviews; a cached sentence is in the language it says.
* Catalogue: a personal scenario is no other learner's business; bundles are whole; a
  cached tier is one the scenario had within the TTL.
* Schema: migrations run from what any release left; a revert brings back what was
  there; the result is what the entities and services expect.

## 2. Plan

Modules in order of what they protect; all of them exist.

1. `Subscription` with `SubscriptionProofs`: money and access; `Entitlements`, what the
   rest of the application takes for granted of the rows.
2. `PremiumGuard` on top of it: the cache and the REST fallback.
3. `CircuitBreaker` with `CircuitBreakerProofs`, and `Reconciliation` on top.
4. `ScenarioChat` with `ScenarioChatProofs`: the conversation row across a model call;
   `Dialogue`, what is left of it to a reader of the conversations.
5. `Handlers`, what requests at work have in common, and `StaleRead`, what a
   cache with a time to live promises.
6. `Sessions`, `Languages`, `Intake`, composed in `Accounts`.
7. `Personalization` (on `Intake`), `Reviews`, `Catalog`, composed in `Practice`.
8. `Schema`, `Migrations`, `Entities`, `Evolution`: how the database came to be.

```
Handlers <- Sessions, Languages, Intake <- Accounts <- MCAccounts
Handlers, Intake <- Personalization; Handlers <- Reviews, Catalog; these three <- Practice <- MCPractice
Schema <- Migrations <- Entities <- Evolution
Subscription <- PremiumGuard <- MCPremiumGuard;  CircuitBreaker <- Reconciliation

abstract specification   implemented by (INSTANCE ... WITH a refinement mapping)
Entitlements             Subscription, hence PremiumGuard; Reconciliation
Dialogue                 ScenarioChat
StaleRead                Languages, Catalog
```

A run is one question to the system, and each module belongs to one. Every safety
property that a passing run checks is a theorem too, in the proof module of the
component (`...Proofs`, section 5), except those of `Evolution`, and that a module
implements its abstract specification is checked and proved alike. What the plan has left
to prove: that each of `Sessions`, `Languages`, `Intake`, `Personalization` and `Reviews` keeps
its part of the invariant by itself (the lemmas are there for the compositions;
`Catalog` has it).

```
SubscriptionProofs <- PremiumGuardProofs;  CircuitBreakerProofs <- ReconciliationProofs
ScenarioChatProofs;  CatalogProofs <- PracticeProofs;  AccountsProofs
```

## 3. The modules and the code

A definition whose name ends in `Faulty` is a plausible bug in the definition
that follows it; nothing uses it. `PROJECT.json` names the source lines of every
definition that models code.

### Subscription (`subscription.service.ts`, `revenuecat-webhook.controller.ts`)

| TLA+ | Code |
|---|---|
| `subs[u]`, `lock[u]` | the committed row of a user, and its `FOR UPDATE` lock |
| `recorded`, `acked` | `webhook_events`; events answered with 200 |
| `pc[w]`, `msg[w]`, `todo[w]`, `seen[w]` | one running transaction: its step, its event or payload, the rows it has yet to lock, those it has read |
| `touched[w]` | `emittedUserIds` |
| `AckOnly`, `Drop` | duplicate event id; sandbox and replay window in the controller |
| `ProcessWebhook` | `processWebhook`: insert of the event id, `resolveUser` |
| `LockRow` | the locked read in `dispatch`, and those of `handleTransfer` in order of user id |
| `SkipEvent`, `UnhandledEvent`, `Handle...` | one action for each branch of `dispatch`, with the guard against stale events, the writes and the commit |
| `SyncFromRc`, `ApplyRcGroundTruth` | `applyRcGroundTruth` |
| `EmitChanged`, `Fail` | emission and answer after the commit; rollback and 500 |
| `Crash`, `Tick` | the process dies; time passes |

A transaction is three kinds of step: it opens, it locks row after row, it
writes and commits. Statements in between are invisible to others at READ
COMMITTED, so they need no step. Where no row exists the lock protects nothing,
and the model says so: `CanWrite` asks only for the lock of an existing row. A
second insert of an event id that is still open blocks on the unique index
(`InsertBlocked`). The field `at` of a row is not a column. It is when the newest
fact in the row happened, so that "stale" can be said without reference to the
timestamp column whose use is in question. Ids of users are numbers because the
code sorts them; `Anonymous` stands for a RevenueCat id that is no UUID, on which
PostgreSQL throws.

### Entitlements

An abstract specification of access: RevenueCat has notices to give, each of a kind
(grant, revoke, pause, extend, amend, move); `Settle` handles one, alone and once, and does
to the rows what its kind allows or nothing; `Answer` says 200 afterwards, or at once to a
notice that is to be ignored; `Learn` applies what RevenueCat says of one user when asked.
It has no transactions, no locks, no redeliveries and no crashes. `Subscription` implements it
(`ServesEntitlements`): a notice is an event with its branch of `dispatch` (`Kind`, `Notice`), `rows`
are the committed rows, `Settle` is the commit. So does `Reconciliation`, which knows of a row
its status only: all it ever does is `Learn`. What the specification rules out is
what a reviewer would fear of a handler: a cancellation, an extension or a late event
that gives access, an effect without its record or before it, a second effect, a pause
that shortens the period, a transfer that overwrites a row or loses one.
It leaves open when a notice does nothing (the timestamps); `StaleOnlyUnguarded` speaks of that.

### PremiumGuard (`premium.guard.ts`)

Extends `Subscription`, so that every request races every writer of the row.
`step[r]` is the `await` at which a request stands: `hot` is the cached answer,
then `read`, `fill`, `fetch`, `sync`, `reread`. `CanActivate`, `ReadRow`, `FillCache`,
`FetchDenied`, `FetchRc`, `Respond` are the stretches between awaits; `Announce`
is `subscription.changed` with the eviction its listener does at once. `GuardCrash`
empties the cache, for it is memory. Time passes at every await (`GuardTick`), between
a read and its fill too: the code takes the time for the entry after the answer of the query. Ghosts:
`lastActive[u]` is when the row last gave access, `overtaken` marks a fill whose row
was read before an eviction, `readAt` is the moment of the read, from which an entry
has its `lag`, the time its fill waited. Nothing in the code bounds that time.

### CircuitBreaker and Reconciliation (`circuit-breaker.ts`, the cron)

`CircuitBreaker` has the state, the failure counter and the cooldown that is left,
and any number of calls in flight. `Execute`, `Succeed` and `Err` are the start of
`execute` and its two ends. `ClientModes` says whether the wrapped function rejects on an
error, as the class expects of it, or returns null, as `getSubscriber` does, the only
one this code wraps. `Reconciliation` extends it for that client (`WiredClientAssumption`):
`RunReconciliation` queries a batch of rows that are past their period or old,
`StartChunk` sends `Parallelism` calls through the breaker at once, `ReconcileOne`,
`LoseAnswer` and `SkipOne` are the outcomes of one of them, and between chunks
the state is looked at again, as the job does, though around this client it
is always CLOSED. Rows become due and old in `PeriodEnds`, `GrowsOld`. A row may be
`Endless`: its entitlement has no end, so a renewal leaves the end of its former period in it.

### ScenarioChat (`scenario-chat.service.ts`)

One user and one scenario, as the service never relates two.

| TLA+ | Code |
|---|---|
| `convs`, `said`, `offers` | conversation rows; messages stored; calls of `maybeTrigger` |
| `step`, `conv`, `row`, `turn` | a request: its await, its conversation, the entity in memory, message and reply |
| `Load`, `FindActive`, `Create`, `Requery` | a named or the latest conversation, else `findOrCreate` with its unique violation |
| `Hold` | the short cut for DONE, else the entity is kept |
| `SelectVocabulary`, `WriteVocabulary`, `SaveNoVocabulary`, `WriteNoVocabulary` | `resolveInjectedVocabulary` and its two levels of `catch` |
| `AskModel`, `SaveUserMessage`, `SaveReply` | the model call and the two inserts |
| `SelectConversation`, `WriteConversation` | the save of the entity after the turn |
| `Finish`, `Abort` | the offer and the answer; a failure or the death of the process at any step |

`Repository.save` of TypeORM is two statements: it selects the row and updates the
columns in which the entity differs. So `Select` computes `dirty` and `Write`
applies it, and what another request does in between survives or is lost column
by column. The ghost `disturbed` collects the conversations that two requests
worked on at once, or that a failure left with messages stored and the row not
saved. The properties with "Serial" in their name speak of the others.

`Dialogue` is the abstract specification: a turn stores its messages, counts them,
puts in the words and decides on the end in one step; an end is offered once; a conversation
may be spoiled, and then loses no message, counts none that is not there and is not
opened again beside another. `ScenarioChat` implements it (`ServesDialogue`). The mapping reads the
tables as they are, except that the messages of a turn under way, in a conversation
nobody disturbed, count as stored when the turn is saved (`Told`). A turn may still have to choose
the words: where saving an empty selection failed too, they are in the entity and
reach the row with the turn.

### Handlers and StaleRead

`Handlers` is the part every module below shares: a slot serves one request, `at[s]`
is the `await` its handler is at, `arg[s]` the local variables it holds there, and a
`world` says which endpoints a behaviour calls, how often, with which rows to begin
with, and whether queries, models and the process may fail. `Restart` empties all
slots. `StaleRead` is an abstract specification: readers ask for the value of a key
and are told one it had no earlier than a window before they asked. It says nothing
of how that is done. `Languages` and `Catalog` instantiate it with a refinement
mapping (`Stale`, `StaleTier`), and their specifications imply it.

### Sessions, Languages, Intake, Accounts

| TLA+ | Code |
|---|---|
| `users`, `tokens` | accounts with their provider ids and e-mail; refresh tokens with the token they replaced (a ghost) and whether they are revoked |
| `SignIn`, `FindProvider`, `FindEmail`, `Link`, `Create` | `firebaseLogin`, `oauthLogin`: by provider, else by e-mail, else a new row; unique columns refuse the second of two |
| `FindSession`, `Claim` | `linkOnboardingSession` and its conditional update |
| `Bootstrap`, `BootstrapFind`, `BootstrapSet` | `bootstrapUserLanguage`, a transaction of three statements that sees at each what others have committed |
| `Issue`, `Refresh`, `FindToken`, `Revoke`, `Logout` | `generateTokens`, `refreshTokens`, logout |
| `rows`, `active` | `user_languages` with `lastLearned`; `languages.is_active` |
| `AddLanguage`, `InsertMarked`, `UpdateLanguage`, `SaveLanguage`, `RemoveLanguage` | `LanguageService`: clearing the mark and setting it are two steps |
| `HeaderRequest`, `Fallback`, `CheckEnrolled`, `AutoEnrol` | `LanguageContextGuard` with and without a header |
| `ClearLearned`, `MarkLastLearned` | the mark of a listing: two updates of one transaction |
| `cache`, `Resolve`, `Lookup`, `Fill` | `LanguageContextCacheService`: hit, query, eviction of what has expired and of the oldest, entry; an entry has its expiry and its place in the order of insertion |
| `convs` | intake conversations: type, owner, count, messages stored, batch of scenarios stored, and `given`, the one the last caller was given |
| `Turn`, `SaveMessage`, `CountMessages` | `runTurn`: the cap, the model, two inserts, the increment |
| `Complete`, `FindCompleted`, `Own`, `MakeScenarios`, `StoreScenarios` | `OnboardingService.complete`: scenarios beside a profile that is not structured are given and not stored |
| `Tutor`, `TutorTurn` | `LearningAgentService.chat` and `streamChat` |

Ghosts name where the code promises less: `doubled` (tokens two requests presented at
once), `mixed` (learners whose marks two handlers changed at once), `contested` and
`broken` (conversations completed by two at once, or with a turn cut short).

### Personalization, Reviews, Catalog, Practice

| TLA+ | Code |
|---|---|
| `personal`, `trial`, `lately`, `snapshot` | personal scenarios by batch and number (one transaction saves a batch, so its rows share `created_at`, the time at which it began); the trial, dedup and profile columns of `users` |
| `PersonalComplete` to `Prune` | `PersonalizationService.complete`, one action for each stretch between awaits; `SaveBatch` is the start of the save's transaction, `CommitBatch` its end, and batches may commit in another order than they began |
| `Quota`, `NothingNew`, `Doomed` | `checkQuota`, `shouldSkipGeneration`, the sets of rows the pruning query may delete: rows of one `created_at` come in any order |
| `Offer`, `TakeAdvisoryLock`, `Emit` | `maybeTrigger` under its advisory lock |
| `cards`, `sessions` | `vocabulary`; `ReviewSessionStore`, which is memory |
| `Rate`, `FindCard`, `SelectCard`, `WriteCard` | `rate`: the claim before the await, the card, and `save` as select and update |
| `Leitner` | `applyLeitner` |
| `Sentence`, `AskSentence`, `SelectMessage`, `WriteMessage` | `translateSentence` and its cache on the message |
| `scenarios`, `bundles`, `attached`, `grants` | the tables; `TypeOwnerCheck` is the CHECK of `scenarios` |
| `GenerateDraft`, `EditContent`, `UpdateContent` | `AdminContentService` on scenarios |
| `CreateBundle` to `StoreBundle`, `Redeem` to `Grant` | `KolBundleService`, `ScenariosRedeemService` |
| `Browse`, `Visible`, `Public`, `PersonalList`, `Lessons` | detail, listings, lessons |
| `EnterChat` to `OpenChat` | `ResourceAccessGuard`, `AccessTierCacheService`, `findAccessibleScenario` |

`shown` is what the services answered to whom, `made` how many generations a month
had on trial, `real` how many reviews a card has had; these are ghosts, as are `lapsed`,
`disturbed` and `crowd`, which mark overlaps.

### Schema, Migrations, Entities, Evolution

`Schema` says what PostgreSQL does with a statement: what it needs, drops, makes,
renames, demands of rows, adds to an enumerated type, and which values it uses.
A database is the set of its things (tables, columns, keys, types, policies, rows
of seeds), each within others and pointing at others. `Migrations` is the 55 files in
order (`Files`), each a sequence of statements up and down. `Entities` is the other
side: the columns of the 22 entities, the values the code stores, the unique keys
the services leave their races to (`Keys`), the rows they insert (`Rows`). `Evolution` runs
the files: `RunFile` and `CommitFiles` are `migration:run`, in TypeORM's default of one
transaction for all pending files; `RevertFile` is `migration:revert`; `RollBack` a
failure or a kill; `Seed` the start of the application, which inserts languages.
It begins with the database any earlier release left, on Supabase or elsewhere.

## 4. Runs

| Run | States | What it shows |
|---|---|---|
| `subscription` | 356,000 | a row in hand is the committed row; no lock cycle; the two predicates of access agree; a 200 means settled; every event is handled as if alone, once, as its kind allows, and answered afterwards (`Entitlements`); a write can be stale only in the ways `Unguarded` lists |
| `subscription_live` | 8,200 | every event is answered in the end, those that throw on every delivery once the replay window has closed; no transaction waits for ever, crossing transfers and a crash included; the newest event wins where all are stamped and the row exists |
| `premium_guard` | 1,454,000 | a cached grant comes no later than the TTL after access ended, plus the time the fill had waited; a revoked user is cached only until the announcement, or if an announcement overtook a fill |
| `breaker` | 440 | the class by itself: a failed probe reopens; an open breaker is probed again |
| `cron` | 38,700 | no revocation without an answer; the breaker is inert around the client of the job; what the job does to rows is what `Entitlements` allows; rows that lapse are settled as long as those the job comes back to leave room in the batch |
| `scenario_chat` | 2,529,000 | the count is backed by messages whatever happens; where requests took turns it is exact, the cap holds and the end is final; turns are as good as atomic, and what overlaps or dies spoils no more than `Dialogue` says |
| `accounts` | 1,150,000 | one account per e-mail; one successor per token; one last language; turns counted and bounded; stored scenarios kept and given again; a session claimed once; the language cache implements `StaleRead` |
| `practice` | 1,253,000 | one trial a month; one rating per card and session; counts add up; sentences match; personal scenarios stay private; bundles are whole; what a prune left is deleted only for a batch that was committed too late for it to see; the tier cache implements `StaleRead` |
| `schema` | 5,800 | where migrations stop, what a revert leaves behind, what of the code's expectations the schema does not meet |
| `bug_stale_write` | violation | a webhook that found no row to lock writes an older fact over a newer one |
| `bug_turn_cap` | violation | overlapping turns: a transcript at the cap, a row that is CHATTING |
| `bug_prune_newest` | violation | a prune deletes the newest scenarios and keeps the oldest |

### Findings

Each is a place where a comment, a test or a document says something the code does not do.

1. `applyRcGroundTruth` is said to be safe beside webhook handlers because of the
   timestamp guard. The guard judges the row the transaction has read, and
   `FOR UPDATE` on no row locks nothing. `NoStaleWrite` fails in
   `bug_stale_write`; `StaleOnlyUnguarded` shows the other ways around the guard,
   which are missing timestamps and rows that have lost theirs.
2. The cron's header promises that an outage skips the run. `getSubscriber` never
   rejects, so the breaker never opens (`InertAroundNull`, checked and proved), and
   the run goes on asking.
3. The API document promises DONE once `max_turns` is reached. `DoneAtCap` fails in
   `bug_turn_cap` when two requests overlap, with nothing failing.
4. The API document offers `force_new=true`; the code has no such field, and
   `FinalWhenSerial` shows that a finished conversation stays the answer.
5. `linkOnboardingSession` is to leave alone a session that somebody else has claimed.
   `complete` gives a session its owner and not its type, and the type is all
   the claim looks at: a later sign-in takes such a session over. `ClaimedOnce` promises
   what is left: among sign-ins one wins.
6. The prune is to delete the oldest unused scenarios over the cap. Its query keeps the
   oldest thirty and deletes the newest: `OldestPruned` fails in `bug_prune_newest`, without
   any overlap. `KeptForGood` says what the query does instead.
7. `migration:run` is said to be green on fresh setups. The 16th file names a column the
   29th adds, and nothing inserts the language 'en' the files look up (`StopsOnlyWhere`).
8. The enum files count on a transaction per migration, and the data source leaves
   the default of one for all: databases of some releases cannot be brought forward.
9. The reverts stop for good at the levels of languages, whose default a later revert
   has set to a value the older type lacks.
10. One revert restores an index no release of its files had (`SameSchema`).
11. `users.phone_number` is declared and never added; the status `paused` is stored
    and not in the enum; drafts of scenarios and exercises violate constraints
    (`ServesTheCode`; three findings). The models of `Subscription` and `Accounts` take the schema as the
    entities declare it.

Where a comment says more than the code keeps only when requests overlap, the property
says what is kept and names the overlap as its exception: scenarios of a session are to
have stable UUIDs (`onboarding.service.ts:90`), but two completions at once replace each other's
(`CompleteStable`, `contested`); a month is to have one trial (`personalization-quota.service.ts:43`),
but two generations at once both find it unused (`TrialOnce`, `lapsed`). And where rows the job comes back
to every night fill its batch, those behind them are not reached, against the header of the cron,
which says that rows out of sync are found and corrected: PAUSED rows, and renewed ones whose
entitlement has no end, for the update leaves the old `currentPeriodEnd` in them. This is the
premise of `EventuallyReconciled`.

Smaller observations that the models keep and no property is about: the daily ceiling of
"generations" counts rows, five to a generation, so one generation reaches it;
`assertPremiumAccess` of `ScenarioAccessService` lets everybody in although its class
comment says otherwise; a gift-code grant does not open the guarded chat;
`PersonalizationService.chat` does not compare the conversation with the
user; the learning agent sends the model the oldest twenty messages. One is latent: only `execute`
moves an OPEN breaker to HALF_OPEN, and both callers skip `execute` while it is OPEN, so a breaker
that opened would never be probed again. It cannot open as long as the client never rejects;
`Recovers` is checked of the class by itself.

### Bounds, and why they are enough

* `Users = {1, 2}`: a transfer relates two rows, nothing relates three. `Workers`
  is 2: every hazard listed is between two transactions; a cycle of
  three locks is excluded by the proof. `MaxNow = 2` gives three moments, so that
  an older, an equal and a newer fact meet; `MaxLag = 1` lets a fetched
  answer be one moment old; `ReplayWindow = 1` makes a retry too late.
  In `subscription_live` the
  window closes on the events that throw on every delivery and on no other, so that these are answered by
  being dropped and the rest by being handled.
  Each scenario of `MCSubscription` is a small set of events chosen to reach every
  handler and every early return: a life, odd events without timestamps,
  skipped, rejected, transfers both ways.
* `premium_guard`: two requests and one worker, which runs a webhook or a sync; `CacheTtl = 2` of three
  ticks, so that an entry may expire and be filled again.
* `breaker`: three callers and a threshold of three, so that the last failure
  before opening, the one that opens and a late one can be in flight together.
  `MaxFailures` caps the counter at twice the threshold, which no comparison
  tells apart from more.
* `cron`: five rows, batches of four, chunks of three: a batch leaves a row out and
  a chunk leaves one over. One row is PAUSED, two are in mid-period, two are
  entitled, one of them without an end; so three rows come back every night, one fewer than a batch
  takes.
* `scenario_chat`: two requests; `MaxTurns = 2` for 12, so that a cap is reached by two
  full turns and passed by an overlap; `MaxConvs = 2`, one finished and one that
  could follow; no model call is made once messages and offers exceed
  `MaxMessages = 3`. Two selections of words. With two requests the unique index
  never rejects an update (`Conflict`): that takes a third. The proofs cover any
  number of requests.

* `accounts` and `practice`: two slots, since every hazard listed is between two requests,
  and three to five requests a world, enough for a third to look at what two have
  left. A world offers a few endpoints, so that each behaviour stays on one
  subject: the pairs that share rows are together in one world
  (sign-in and completion, guard and language changes, personalization and
  browsing, bundles and gift codes). Two users, two languages, caches of one entry, a TTL
  of one hour of three, turn caps of two, `Cap = 3` for 30 unused scenarios with
  batches of `Size = 2` for 5, `MaxBox = 3` for 5. `MaxConvs`, `MaxCards`, `MaxRows`,
  `MaxTime` and `LastHour` bound rows and clocks. What three overlapping requests do
  is out of reach of these runs; `SentenceMatches` names such a case.
* `schema` has no bound: the files, their reverts and the seed are all there is.

`CHECK_DEADLOCK FALSE` stands in `cron`, `accounts`, `practice` and `bug_prune_newest`
only: rows that have all been settled leave the job nothing to do, and clients have sent
all their requests.

### Fairness

* Strong fairness of `LockRow` and of a transaction's write: PostgreSQL queues
  waiters for a row lock, and a lock is taken and given up again and again.
* Weak fairness of `Answer`: the event loop runs every continuation.
* Strong fairness of `Redeliver`: RevenueCat delivers an event until it is
  answered with 200, and the workers that could take it come and go.
* Breaker: requests keep coming, a call ends because the client has a timeout, time
  passes. Cron: it runs every night; strong fairness of `ReconcileOne(c)`
  says that RevenueCat, asked about a row for ever, answers once. Nothing is
  assumed of a row that is never asked about, which is why rows the job comes back to
  (`Recurring`) must leave room in the batch, the premise of `EventuallyReconciled`.
* Crashes, failures, ticks of `PremiumGuard` and everything in `ScenarioChat`, `Accounts`,
  `Practice` and `Evolution` have no fairness: only safety is checked there. These handlers
  promise nothing that must happen in the end: a request that dies is not resumed.

## 5. Proofs

All proofs are for every value of the constants that satisfies the named
assumptions of the modules, which TLC evaluates in the runs:

* `Subscription`: numbers for users and bounds, well-formed scenarios in which an id
  names one event and a timestamp is either missing or right, `NULL`s that are no values.
  `PremiumGuard`: a positive TTL, and a mark for "no sync" that is no worker (`NoneAssumption`).
* `CircuitBreaker`, `Reconciliation`: a positive threshold, batch and parallelism, and for the
  job the client it is wired to, which returns null on an error.
  `ScenarioChat`: a positive turn cap.
* `Sessions`: the accounts there are at the start have e-mails of their own, and whoever
  linked one had its e-mail (`UsersAssumption`); a provider knows a user by one id and by
  one verified e-mail for good (`IdentitiesAssumption`). The second is about the
  environment: were a provider to change the e-mail behind an id, the code would
  go on serving the account it finds by id, with the e-mail it had.
* `Languages`, `Catalog`, `Reviews`, `Personalization`, `Intake`: numbers for bounds, and what
  the first rows hold: rows that satisfy the CHECK of the table (`RowsAssumption`),
  conversations nobody has cut a turn of short (`IntakeAssumption`), personal scenarios
  of which a prune has left what it leaves (`PersonalAssumption`).

Worlds, slots, users, languages, rows and moments are arbitrary otherwise; only
`IntakeAssumption` wants finitely many slots, as it counts what is at work in them.

### SubscriptionProofs

`IndInv` is `TypeOK`, `InHand` (a busy worker has a message), `Paid` (an ACTIVE row has a
paid plan), `SnapshotFresh`, `LockOrder` (a lock belongs to an open transaction,
below all rows it has yet to lock), `OneInFlight` (an open event is recorded
nowhere and open nowhere else), `AnswerRecorded` and `AckedIsSettled`. No part
is inductive alone. A handler writes what it computes from the row it has read; that
this is the committed row needs the locks, and that the write is a row needs the
types of the row it was computed from.

Every handler ends its transaction in one of a few legal ways. The lemmas
`...Ends` show it handler by handler, and the action properties follow from
those ways, not from the handlers: `ExactlyOnce`, `Conservation`, `GuardedWrites`.
`DeadlockFree` comes from `LockOrder`, `GuardAgreement` from `Paid`.

`SubscriptionImplementsEntitlements` takes the handlers once more (`...Serves`): the row each
leaves behind, computed from the row it read, is one the kind of its event allows the
committed row to become, which is where `SnapshotFresh` is needed; that the event is not
recorded yet is `OneInFlight`; that no sandbox event comes as far as a transaction is `Production`,
an invariant of its own. Steps that commit nothing are stutters (`QuietImplements`).

### PremiumGuardProofs

A step of the guard is a step of `Subscription` or leaves its variables alone
(`GuardImplementsSubscription`), so all that is proved of webhooks holds of the syncs
the guard starts, that they implement `Entitlements` included (`GuardedSubscription`). `CacheFollowsRevocation` is not inductive: it says
nothing of a request that has read the row and has yet to fill the cache. `GuardInv` adds
`FillHeard`, that such a request of a user who has lost access meanwhile either has
the announcement still to come or was overtaken by it, and `FillFresh`, that the row gave
access when the request read it (`readAt`). From this `EntryBounded` follows, that an entry ends
no later than its lifetime after the last access and the time its fill waited, and so `StaleGrant`.
The proof needs of `Subscription` that a commit announces every user whose row changes
its status, a fact about each handler (`...Ends`).

### CircuitBreakerProofs and ReconciliationProofs

`Counts` ties state, counter and client mode together: OPEN and HALF_OPEN mean that the
threshold has been reached, and that takes a client that rejects.
From it `StateFollowsCount`, `Inert` and `ProbeReopens`. A run of the job is no behaviour of
`CircuitBreaker`, as a chunk sends several calls through it in one turn; but it keeps
`Counts` (`CronInv`), and with that the breaker of the job is inert too (`InertInJob`).
`NoMassRevoke` says what a step may do to a row.
`CronImplementsEntitlements`: a step that changes a status is an answer applied
(`AnswerReports`), and every other step of the job is a stutter.

### ScenarioChatProofs

`ChatInv` has three levels. For any interleaving: what a request holds in memory
plus what it has stored and not yet counted (`Uncounted`) is at most the messages
there are, which is what makes `CountBacked` inductive, as a save may put
back a count that is old but never one that is invented. For a conversation that is
not `disturbed`: it has one holder (`Alone`), whose entity follows the row column by
column, including which columns a save under way has found to differ (`InStep`).
And for such a conversation as a whole (`Orderly`): exact count when nobody holds
it, below the cap while CHATTING, offered at most once. The proof takes each action
in a lemma `...Keeps`; `Framed` carries over the conversations a step does not
touch. `Touches` then says what any step may do to a row, from which
`SerialChatsAreFinal` and `SerialWordsStay` follow.

`ChatImplementsDialogue` rests on two facts about the mapping: what is told of an undisturbed
conversation is the count in its row (`ToldIsSeen`, from `ExactNow`), so saving messages is a
stutter and `WriteConversation` is the turn (`TurnServes`); and `Paced`, that words are chosen before the
model is asked and a save adds what one turn can add, which bounds what comes to
light when a conversation is spoiled (`Spoils`). Steps on a disturbed conversation are `Suffer`
(`Suffers`, `OverwriteServes`), where `Conflict` keeps a second one from being opened.

### CatalogProofs and PracticeProofs

`CatalogInv` has two halves. `StoreInv`: types and CHECK of the tables, what each handler
holds at each await (`Holding`), and that nothing in a bundle has an owner
(`BundledUnowned`), which carries `BundlesWhole` and `PersonalPrivate` through the awaits between
validation and insert. `TierInv`: an entry of the cache, and a tier about to be
entered, was right when its query ran (`EntriesHeld`, `ToldRight`); with it every step of
the guard is one of `StaleRead` or a stutter (`CatalogImplementsStaleRead`).

`PracticeInv` adds a part for each module. `TrialInv`: of a user without overlaps, whoever is
promised a trial has had none, and the one that was had is marked or about to be.
`ScenarioInv`: of the unused rows that prunes have left there are at most `Cap`. An `OFFSET` of `Cap`
that reaches one of them leaves `Cap` others, so one of those was not left by a prune, and it is
no younger: a batch committed too late for that prune to see (`PrunedOnce`). `RowInv` and `ClaimInv`: a card on its way to the database counts one review
more than it has had, and each claim of a session has one holder. `SentenceInv`: which of the
two columns of a message a translation under way will write. The handlers of one module
leave the slots at the awaits of another alone (`MovesAside`), so each part is
disturbed by its own steps only.

### AccountsProofs

`AccountsInv` has four parts.

* Accounts and tokens (`SessionInv`): e-mails are unique; whoever linked an account has its
  e-mail; a handler that has found an account serves an identity that owns it. For tokens,
  `WorthOne`: a token that has a successor, or is promised one, is revoked, and one nobody
  presented twice at a time has one request to spend it or one successor. `OneSuccessor`
  alone does not see the request between the revocation and the insert.
* Marks (`MarkInv`): for a learner whose marks nobody changed at once, no mark is left while an
  insert is due, none but its own while a save is, and none but those it has cleared while a
  transaction is open.
* The cache of codes (`CacheInv`): an entry was right when its query ran. Every step of the guard
  is one of `StaleRead` or a stutter, evictions, restarts and a full cache included.
* Conversations (`IntakeInv`): `Counted`, that what is stored is counted or owed by a turn at work;
  `Bounded`, what a conversation will count once the turns at work are over, of which each
  was let in below the cap; `CompletedOnce`, that the one completion at work has found what is
  there, to which `GivenInv` adds that the last caller was given what is stored. The proofs count slots: a step takes one slot out of, or into, the sets that owe.

`AccountPerEmail`, `SuccessorPerToken`, `MarkPerLearner`, `TurnsAddUp` and `TranscriptCapped` follow
from the parts, `CompletionStable` and `ClaimOnce` from what a step may write under
them, `LanguagesImplementStaleRead` from `CacheInv`. A step of one part leaves the others alone,
except that a sign-in takes a session over (`ConvsClaimed`).

Each inductive invariant, and each refinement, was model-checked on the run of its
module before it was proved.

### Only model-checked

* Liveness and fairness (`EventuallyAcked`, `TransactionsEnd`, `NewestEventWins`, `Recovers`,
  `EventuallyReconciled`): the prover has no ENABLED and no fairness.
* `StopsOnlyWhere`, `SameSchema`, `ServesTheCode` of `Evolution`: one finite history, folded over
  sequences of statements. What a fold computes is an induction over data, and TLC
  goes through all of it anyway.
* The violations, by their nature.

Type correctness of `Subscription`, `CircuitBreaker` and `ScenarioChat` is proved
(`TypeCorrect`, within `CountsInvariant`, `ChatTypes`), as is that counter and state of the
breaker agree (`StateFollowsCount`); the runs do not repeat them. Types of the other
modules are part of their inductive invariants.

No module uses recursion, and no theorem rests on an induction over data: the rows of a table
are indexed, the personal scenarios and the cache are functions, and
where a proof counts, it counts sets that a step changes by one element.

## 6. Not modelled

Components, with reasons in `PROJECT.json`: guards without state, transcription and the
model providers, mail, storage, Firebase's own checks, wiring. `ProgressService` is called by
nothing; `UserService` reads and updates columns no decision reads. Registration, login,
one-time passwords and password reset by e-mail exist in `AuthService` behind routes
that all answer 410, so no behaviour reaches them. The selection of words to inject and
the matching of used words are text processing; `ScenarioChat` takes any selection.

In the modelled parts the following is abstracted:

* what RevenueCat's documents look like, and their parsing: an answer is a payload or null;
* authentication of the webhook, and columns that no decision reads, `users.native_language` among them;
* no user registers while a webhook is under way, so an event that comes before its user
  does is recorded and never applied, and no property covers the sign-up that follows;
* the prompt, the history's text, the usage rows of `trackUsage` and the two read-only
  endpoints of the scenario chat; paging, search, order and wording everywhere;
* `checkQuota` reads the plan, the rows and the trial in one step of the model, and in three
  queries of the code;
* the list of scenarios for admins, which shows them every row, personal ones too;
* waits for row locks inside the transactions on the marks of a learner: the model lets
  more interleavings through than PostgreSQL does, all of them for learners it then counts as `mixed`;
* two attachments of one scenario to one bundle at once: the second changes nothing, whether
  `save` finds the row and skips it or the unique column refuses it;
* translateChunk, which upserts the row translateWord does; ranges and definitions;
* several pods share rows, and the workers and requests of the models may be in
  different pods, but caches, sessions in memory and breakers are those of one;
* migrations: the values they rewrite in rows, and whether rows violate what a statement
  demands (between the 43rd and the 45th file the seed of languages does), comments, grants, the wording of checks
  other than `scenarios_type_owner_check`. What PostgreSQL allows is that of its current
  versions: a value added to a type born in the same transaction may be used at once.
