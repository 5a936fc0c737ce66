--------------------------- MODULE AccountsProofs ---------------------------
(***************************************************************************)
(* Proofs about Accounts: sign-in and refresh tokens, the languages of a   *)
(* learner, the cache of language codes and the conversations with a       *)
(* model, at work in one process, for any users, worlds and number of      *)
(* requests.  The invariant has a part for each; a step of one part leaves *)
(* the others alone, except where a sign-in takes a session over.          *)
(***************************************************************************)
EXTENDS Accounts, FiniteSetTheorems, TLAPS

\* A sequence, of whatever it holds.
IsSequence(q) == Len(q) \in Nat /\ q = [i \in 1 .. Len(q) |-> q[i]]

-----------------------------------------------------------------------------
(* The accounts and their tokens. *)

Finding == {"find provider", "find email", "link", "create"}
Presented == {"find token", "revoke"}
Linking == {"session", "claim", "bootstrap", "bootstrap find", "bootstrap set"}
SessionSteps == Finding \cup Presented \cup Linking \cup {"issue"}

\* An account has the e-mail of whoever signs in to it.
Owns(a, i) == i \in Identities /\ Verified(i) /\ a \in Accounts /\ users[a].email = i.email

AccountRows ==
    /\ IsSequence(users)
    /\ \A a \in Accounts : DOMAIN users[a] = Providers \cup {"email"}
    /\ \A a, b \in Accounts : users[a].email = users[b].email => a = b
    /\ \A a \in Accounts, i \in Identities : Verified(i) /\ users[a][i.provider] = i.id => Owns(a, i)

TokenRows ==
    /\ IsSequence(tokens)
    /\ \A t \in DOMAIN tokens :
         /\ DOMAIN tokens[t] = {"user", "by", "parent", "revoked"}
         /\ tokens[t].parent \in {0} \cup DOMAIN tokens /\ tokens[t].revoked \in BOOLEAN
         /\ Owns(tokens[t].user, tokens[t].by)

\* What a handler holds: the identity it serves, the account found, the token shown.
Served(s) == Owns(arg[s].user, arg[s].who)
HoldsIdentity(s) ==
    /\ at[s] \in Finding => arg[s].who \in Identities /\ Verified(arg[s].who)
    /\ at[s] \in Linking \cup {"link", "issue"} => Served(s)
HoldsToken(s) ==
    /\ at[s] \in Presented => arg[s].token \in DOMAIN tokens
    /\ at[s] \in Linking => arg[s].parent = 0
    /\ at[s] = "issue" => arg[s].parent \in {0} \cup DOMAIN tokens

\* Requests that are about to give a successor to a token.
Spending(t) == Presenting(t) \cup {s \in Slots : at[s] = "issue" /\ arg[s].parent = t}

\* A token that has a successor, or is promised one, is revoked.  One that nobody
\* presented twice at a time has one request to spend it, or one successor.
WorthOne(t) ==
    /\ Successors(t) # {} \/ (\E s \in Slots : at[s] = "issue" /\ arg[s].parent = t) => tokens[t].revoked
    /\ t \notin doubled =>
         /\ \A r, s \in Spending(t) : r = s
         /\ Spending(t) # {} => Successors(t) = {}
         /\ \A m, n \in Successors(t) : m = n

AccountInv == AccountRows /\ TokenRows /\ \A s \in Slots : HoldsIdentity(s)
TokenInv ==
    /\ \A s \in Slots : HoldsToken(s)
    /\ \A t \in DOMAIN tokens : WorthOne(t)
SessionInv == AccountInv /\ TokenInv

-----------------------------------------------------------------------------
(* The marks. *)

MarkSteps == {"clear", "insert", "update clear", "update save", "mark set"}
MarkAwaits == MarkSteps \cup InTransaction
\* Those at which a handler relies on the marks.
Relying == {"insert", "update save"} \cup InTransaction

\* A table in which a user learns a language once, and the marks it holds.
LanguageTable(q) ==
    /\ IsSequence(q)
    /\ \A i \in DOMAIN q :
         DOMAIN q[i] = {"user", "lang", "marked", "live"} /\ q[i].marked \in BOOLEAN /\ q[i].live \in BOOLEAN
    /\ \A i, j \in DOMAIN q : q[i].live /\ q[j].live /\ q[i].user = q[j].user /\ q[i].lang = q[j].lang => i = j
MarkedIn(q, u) == {i \in DOMAIN q : q[i].live /\ q[i].user = u /\ q[i].marked}

\* The rows a handler holds are its learner's.
HoldsLanguage(s) ==
    /\ at[s] \in {"update clear", "update save"} =>
         arg[s].row \in DOMAIN rows /\ arg[s].user = rows[arg[s].row].user /\ arg[s].marked \in BOOLEAN
    /\ at[s] \in InTransaction =>
         \A i \in arg[s].cleared : i \in DOMAIN rows /\ rows[i].user = arg[s].user
    /\ at[s] = "bootstrap set" =>
         /\ \A i \in arg[s].found : i \in DOMAIN rows /\ rows[i].user = arg[s].user
         /\ \A i, j \in arg[s].found : i = j

\* Nobody else changed the marks of u: none is left for an insert to join, none but its
\* own for a save, and none but those it clears for a transaction.
MarkedOnce(u) ==
    /\ \A i, j \in Marked(u) : i = j
    /\ \A s \in Slots : at[s] = "insert" /\ arg[s].user = u => Marked(u) = {}
    /\ \A s \in Slots : at[s] = "update save" /\ arg[s].user = u /\ arg[s].marked => Marked(u) \subseteq {arg[s].row}
    /\ \A s \in Slots : at[s] \in InTransaction /\ arg[s].user = u => Marked(u) \subseteq arg[s].cleared

MarkInv ==
    /\ LanguageTable(rows)
    /\ \A s \in Slots : HoldsLanguage(s)
    /\ \A u \in Learners \ mixed : MarkedOnce(u)

-----------------------------------------------------------------------------
(* The cache of language codes. *)

HeldTypes ==
    /\ now \in Nat /\ active \in [Langs -> BOOLEAN] /\ held \in [Langs -> [BOOLEAN -> Int]]
    /\ \A l \in Langs, v \in BOOLEAN : held[l][v] <= now
HeldNow == \A l \in Langs : held[l][active[l]] = now

\* An entry was right when its query ran.
LastActive(l) == held[l][TRUE]
EntryHeld(l) == l \in Langs /\ cache[l].expires \in Int /\ LastActive(l) >= cache[l].expires - Ttl

FoundActive(s) == LastActive(arg[s].lang) >= arg[s].from

HoldsRequest(s) ==
    /\ at[s] \in Resolving \cup {"enrolled", "enrol"} => arg[s].op = "header"
    /\ at[s] \in Resolving \cup Guarded /\ arg[s].op = "header" =>
         /\ DOMAIN arg[s] = {"op", "user", "lang", "route", "asked", "from"}
         /\ arg[s].lang \in Langs /\ arg[s].asked \in Nat /\ arg[s].from \in Nat
         /\ arg[s].asked <= arg[s].from /\ arg[s].from <= now
    /\ at[s] = "fill" => FoundActive(s)

CacheInv ==
    /\ HeldTypes /\ HeldNow
    /\ \A l \in DOMAIN cache : EntryHeld(l)
    /\ \A s \in Slots : HoldsRequest(s)

-----------------------------------------------------------------------------
(* The conversations. *)

Answering == {"message", "reply", "count"}
TurnSteps == Answering \cup {"open", "turn", "tutor"}
CompletionSteps == {"own", "scenarios", "store"}
IntakeSteps == TurnSteps \cup CompletionSteps \cup {"complete", "transcript"}
ConvFields == {"kind", "owner", "lang", "count", "said", "batch", "given"}

ConvRows ==
    /\ IsSequence(convs) /\ batches \in Nat
    /\ \A c \in DOMAIN convs :
         /\ DOMAIN convs[c] = ConvFields
         /\ convs[c].count \in Nat /\ convs[c].said \in Nat /\ convs[c].batch \in Nat

HoldsConv(s) ==
    /\ at[s] \in IntakeSteps \ {"open"} => arg[s].conv \in DOMAIN convs
    /\ at[s] \in Answering => arg[s].first \in BOOLEAN
    /\ at[s] = "message" => ~arg[s].first
    /\ at[s] = "transcript" => arg[s].count \in Nat /\ arg[s].count <= convs[arg[s].conv].said

\* What is stored is counted or about to be, but for turns that were cut short.
Counted(c) ==
    /\ convs[c].count + Cardinality(Spoken(c)) + Cardinality(Answered(c)) <= convs[c].said
    /\ c \notin broken => convs[c].said = convs[c].count + Cardinality(Spoken(c)) + Cardinality(Answered(c))

\* What a conversation will count once the turns at work are over: a turn was let in
\* while the count was below the cap.
AtWork(c) == {s \in Slots : at[s] \in Answering /\ arg[s].conv = c}
Speaking(c) == {s \in AtWork(c) : ~arg[s].first}
Bounded(c) ==
    "tutor" \notin world.ops =>
      convs[c].count + Cardinality(AtWork(c)) + Cardinality(Speaking(c)) <= 2 * MaxTurns - 2 + 2 * Cardinality(Slots)
NoTutor(s) == at[s] = "tutor" => "tutor" \in world.ops

\* Of two completions that are not at work together one finds what the other made.
CompletedOnce(c) ==
    c \notin contested =>
      /\ \A r, s \in Completing(c) : r = s
      /\ \A s \in Completing(c) : convs[c].batch = IF at[s] = "own" THEN arg[s].batch ELSE 0

IntakeInv ==
    /\ ConvRows
    /\ \A s \in Slots : HoldsConv(s) /\ NoTutor(s)
    /\ \A c \in DOMAIN convs : Counted(c) /\ Bounded(c) /\ CompletedOnce(c)

AccountsInv ==
    /\ DOMAIN at = Slots /\ DOMAIN arg = Slots
    /\ SessionInv /\ MarkInv /\ CacheInv /\ IntakeInv

-----------------------------------------------------------------------------
(* The handlers. *)

\* The handler in a slot goes to an await, with new local variables.
Moved(s, step, a) ==
    /\ at' = [at EXCEPT ![s] = step]
    /\ arg' = [arg EXCEPT ![s] = a]
Stays(s) == at'[s] = at[s] /\ arg'[s] = arg[s]

\* A handler moves from one of its module's awaits, or from none, to another.
MovesIn(s, steps) == at[s] \in steps \cup {"idle"} /\ \E step \in steps \cup {"idle"} : \E a : Moved(s, step, a)
\* A step leaves the handlers that are at these awaits where they are, and starts none.
Aside(steps) ==
    /\ DOMAIN at' = Slots /\ DOMAIN arg' = Slots
    /\ \A s \in Slots : at[s] \in steps \/ at'[s] \in steps => Stays(s)

\* Beginning, going on and ending move one slot and no other (Begin, Go and End of
\* Handlers).
LEMMA MovesOne ==
    ASSUME DOMAIN at = Slots, DOMAIN arg = Slots, NEW s \in Slots, NEW step, NEW a, Moved(s, step, a)
    PROVE  /\ DOMAIN at' = Slots /\ DOMAIN arg' = Slots
           /\ at'[s] = step /\ arg'[s] = a
           /\ \A r \in Slots \ {s} : Stays(r)
  BY DEF Moved, Stays

\* The three ways a handler moves are moves.
LEMMA HandlersMove ==
    ASSUME NEW s \in Slots, NEW step, NEW a, NEW op
    PROVE  /\ Begin(s, op, step, a) => Moved(s, step, a) /\ at[s] = "idle" /\ world' = world
           /\ Go(s, step, a) => Moved(s, step, a) /\ world' = world
           /\ End(s) => Moved(s, "idle", Nothing) /\ world' = world
  BY DEF Begin, Go, End, Moved

\* A handler that moves among its own awaits leaves the others' alone.
LEMMA MovesAside ==
    ASSUME DOMAIN at = Slots, DOMAIN arg = Slots, NEW s \in Slots, NEW own, MovesIn(s, own),
           NEW steps, steps \cap own = {}, "idle" \notin steps
    PROVE  Aside(steps)
<1>1. PICK step \in own \cup {"idle"} : \E a : Moved(s, step, a)
  BY DEF MovesIn
<1>2. /\ DOMAIN at' = Slots /\ DOMAIN arg' = Slots /\ at'[s] = step
      /\ \A r \in Slots \ {s} : Stays(r)
  BY <1>1, MovesOne
<1>3. at[s] \notin steps /\ at'[s] \notin steps
  BY <1>2 DEF MovesIn
<1> QED BY <1>2, <1>3 DEF Aside

\* A sequence keeps its domain under an update and grows by one with an append.
LEMMA SequenceKept ==
    ASSUME NEW q, IsSequence(q), NEW e
    PROVE  /\ \A i \in DOMAIN q : /\ IsSequence([q EXCEPT ![i] = e])
                                  /\ DOMAIN [q EXCEPT ![i] = e] = DOMAIN q
           /\ DOMAIN q = 1 .. Len(q) /\ Len(q) \in Nat
           /\ IsSequence(Append(q, e)) /\ DOMAIN Append(q, e) = 1 .. Len(q) + 1
           /\ Len(Append(q, e)) = Len(q) + 1
           /\ \A i \in DOMAIN q : Append(q, e)[i] = q[i]
           /\ Append(q, e)[Len(q) + 1] = e
<1> DEFINE S == {q[i] : i \in 1 .. Len(q)} \cup {e}
<1>1. Len(q) \in Nat /\ DOMAIN q = 1 .. Len(q)
  BY DEF IsSequence
<1>2. q \in [1 .. Len(q) -> S]
  BY DEF IsSequence
<1> HIDE DEF S
<1>3. q \in Seq(S) /\ e \in S
  BY <1>1, <1>2 DEF S
<1>4. ASSUME NEW p \in Seq(S) PROVE IsSequence(p) /\ DOMAIN p = 1 .. Len(p)
  BY <1>4 DEF IsSequence
<1>5. \A i \in DOMAIN q : [q EXCEPT ![i] = e] \in Seq(S) /\ DOMAIN [q EXCEPT ![i] = e] = DOMAIN q
  BY <1>3
<1>6. /\ Append(q, e) \in Seq(S) /\ Len(Append(q, e)) = Len(q) + 1
      /\ \A i \in DOMAIN q : Append(q, e)[i] = q[i]
      /\ Append(q, e)[Len(q) + 1] = e
  BY <1>3
<1> QED BY <1>1, <1>4, <1>5, <1>6

\* A sequence that is rebuilt place by place is one, of the same length.
LEMMA SequenceRebuilt ==
    ASSUME NEW q, IsSequence(q), NEW p, DOMAIN p = DOMAIN q, p = [i \in DOMAIN q |-> p[i]]
    PROVE  IsSequence(p)
<1> DEFINE S == {p[i] : i \in DOMAIN q}
<1>1. Len(q) \in Nat /\ DOMAIN q = 1 .. Len(q)
  BY DEF IsSequence
<1>2. p \in [1 .. Len(q) -> S]
  BY <1>1
<1> HIDE DEF S
<1>3. p \in Seq(S)
  BY <1>1, <1>2
<1> QED BY <1>3 DEF IsSequence

-----------------------------------------------------------------------------
(* Whose slot it is. *)

LanguageSteps == Resolving \cup Guarded \cup MarkSteps

\* No await belongs to two modules.
LEMMA OwnAwaits ==
    /\ SessionSteps \cap LanguageSteps = {} /\ SessionSteps \cap IntakeSteps = {}
    /\ LanguageSteps \cap IntakeSteps = {} /\ (Resolving \cup Guarded) \cap MarkSteps = {}
    /\ "idle" \notin SessionSteps /\ "idle" \notin LanguageSteps /\ "idle" \notin IntakeSteps
  BY DEF SessionSteps, Finding, Presented, Linking, LanguageSteps, Resolving, Guarded, MarkSteps,
         IntakeSteps, TurnSteps, Answering, CompletionSteps

\* The steps of a sign-in, its session among them, keep to their awaits.
LinkStep(s) ==
    FindSession(s) \/ Claim(s) \/ Bootstrap(s) \/ BootstrapFind(s) \/ BootstrapSet(s) \/ LinkFails(s)

LEMMA SessionOwn ==
    ASSUME NEW s \in Slots, SessionStep(s) \/ LinkStep(s)
    PROVE  MovesIn(s, SessionSteps) /\ world' = world
<1> USE HandlersMove DEF MovesIn, SessionSteps, Finding, Presented, Linking
<1>1. CASE SignIn(s) \/ Refresh(s)
  BY <1>1 DEF SignIn, Refresh
<1>2. CASE FindProvider(s)
  BY <1>2 DEF FindProvider, Known
<1>3. CASE FindEmail(s)
  BY <1>3 DEF FindEmail
<1>4. CASE Link(s) \/ Create(s)
  BY <1>4 DEF Link, Create, Known
<1>5. CASE Issue(s) \/ FindToken(s) \/ Revoke(s) \/ SignInFails(s)
  BY <1>5 DEF Issue, FindToken, Revoke, SignInFails
<1>6. CASE FindSession(s) \/ Claim(s)
  BY <1>6 DEF FindSession, Claim
<1>7. CASE Bootstrap(s) \/ BootstrapFind(s)
  BY <1>7 DEF Bootstrap, BootstrapFind
<1>8. CASE BootstrapSet(s) \/ LinkFails(s)
  BY <1>8 DEF BootstrapSet, LinkFails
<1> QED BY <1>1, <1>2, <1>3, <1>4, <1>5, <1>6, <1>7, <1>8 DEF SessionStep, LinkStep

\* The handlers of sign-in and refresh come to none of the transaction's awaits.
LEMMA SessionMarksNothing ==
    ASSUME DOMAIN at = Slots, DOMAIN arg = Slots, NEW s \in Slots, SessionStep(s)
    PROVE  \A r \in Slots : Stays(r) \/ at'[r] \notin MarkAwaits
<1> USE HandlersMove DEF MarkAwaits, MarkSteps, InTransaction
<1>1. ASSUME NEW step, step \notin MarkAwaits, NEW a, Moved(s, step, a)
      PROVE  \A r \in Slots : Stays(r) \/ at'[r] \notin MarkAwaits
  BY <1>1, MovesOne
<1>2. CASE SignIn(s) \/ Refresh(s)
  BY <1>1, <1>2 DEF SignIn, Refresh
<1>3. CASE FindProvider(s)
  BY <1>1, <1>3 DEF FindProvider, Known
<1>4. CASE FindEmail(s)
  BY <1>1, <1>4 DEF FindEmail
<1>5. CASE Link(s) \/ Create(s)
  BY <1>1, <1>5 DEF Link, Create, Known
<1>6. CASE Issue(s) \/ FindToken(s) \/ Revoke(s) \/ SignInFails(s)
  BY <1>1, <1>6 DEF Issue, FindToken, Revoke, SignInFails
<1> QED BY <1>2, <1>3, <1>4, <1>5, <1>6 DEF SessionStep

\* So do the handlers of the languages,
LEMMA LanguageOwn ==
    ASSUME NEW s \in Slots, LanguageStep(s)
    PROVE  MovesIn(s, LanguageSteps) /\ world' = world
<1> USE HandlersMove DEF MovesIn, LanguageSteps, Resolving, Guarded, MarkSteps
<1>1. CASE AddLanguage(s) \/ UpdateLanguage(s)
  BY <1>1 DEF AddLanguage, UpdateLanguage
<1>2. CASE Clear(s) \/ InsertMarked(s) \/ SaveLanguage(s)
  BY <1>2 DEF Clear, InsertMarked, SaveLanguage
<1>3. CASE HeaderRequest(s) \/ Fallback(s)
  BY <1>3 DEF HeaderRequest, Fallback
<1>4. CASE Resolve(s) \/ Lookup(s) \/ Fill(s)
  BY <1>4 DEF Resolve, Lookup, Fill
<1>5. CASE CheckEnrolled(s) \/ AutoEnrol(s)
  BY <1>5 DEF CheckEnrolled, AutoEnrol, Guarding
<1>6. CASE ClearLearned(s) \/ MarkLastLearned(s) \/ LanguageFails(s)
  BY <1>6 DEF ClearLearned, MarkLastLearned, LanguageFails
<1> QED BY <1>1, <1>2, <1>3, <1>4, <1>5, <1>6 DEF LanguageStep

\* and those of the conversations.
LEMMA IntakeOwn ==
    ASSUME NEW s \in Slots, IntakeStep(s)
    PROVE  MovesIn(s, IntakeSteps) /\ world' = world
<1> USE HandlersMove DEF MovesIn, IntakeSteps, TurnSteps, Answering, CompletionSteps
<1>1. CASE OnboardingChat(s) \/ Tutor(s)
  BY <1>1 DEF OnboardingChat, Tutor
<1>2. CASE OpenSession(s) \/ TutorTurn(s)
  BY <1>2 DEF OpenSession, TutorTurn
<1>3. CASE Turn(s)
  BY <1>3 DEF Turn
<1>4. CASE SaveMessage(s) \/ CountMessages(s) \/ IntakeFails(s)
  BY <1>4 DEF SaveMessage, CountMessages, IntakeFails
<1>5. CASE Complete(s) \/ Transcript(s) \/ ShowTranscript(s)
  BY <1>5 DEF Complete, Transcript, ShowTranscript
<1>6. CASE FindCompleted(s)
  BY <1>6 DEF FindCompleted, AfterOwner
<1>7. CASE Own(s) \/ MakeScenarios(s) \/ StoreScenarios(s)
  BY <1>7 DEF Own, AfterOwner, MakeScenarios, StoreScenarios
<1> QED BY <1>1, <1>2, <1>3, <1>4, <1>5, <1>6, <1>7 DEF IntakeStep, TurnStep


-----------------------------------------------------------------------------
(* The accounts. *)

\* No account is lost and none changes its e-mail.
EmailsKept ==
    /\ Accounts \subseteq Accounts'
    /\ \A a \in Accounts : users'[a].email = users[a].email

LEMMA OwnerKept ==
    ASSUME EmailsKept, NEW a, NEW i, Owns(a, i)
    PROVE  Owns(a, i)'
  BY DEF EmailsKept, Owns

\* What a handler knows of an account stays true while it waits, and is nothing once
\* it has ended.
LEMMA IdentityKept ==
    ASSUME EmailsKept, NEW s \in Slots, HoldsIdentity(s), Stays(s) \/ at'[s] \notin SessionSteps
    PROVE  HoldsIdentity(s)'
<1>1. CASE Stays(s)
  BY <1>1, OwnerKept DEF HoldsIdentity, Served, Stays
<1>2. CASE at'[s] \notin SessionSteps
  BY <1>2 DEF HoldsIdentity, SessionSteps, Finding, Linking
<1> QED BY <1>1, <1>2

\* The tables are left alone, and of the handlers one moves at most.
LEMMA AccountsCalm ==
    ASSUME AccountInv, UNCHANGED <<users, tokens>>, \A s \in Slots : HoldsIdentity(s)'
    PROVE  AccountInv'
<1>1. AccountRows'
  BY DEF AccountInv, AccountRows, Owns, Accounts
<1>2. TokenRows'
  BY DEF AccountInv, TokenRows, Owns, Accounts
<1> QED BY <1>1, <1>2 DEF AccountInv

\* No token is made, revoked or promised a successor.
LEMMA TokensCalm ==
    ASSUME AccountInv, TokenInv, UNCHANGED <<tokens, doubled>>, \A s \in Slots : HoldsToken(s)',
           \A s \in Slots : /\ at'[s] = "revoke" => at[s] = "revoke" /\ arg'[s].token = arg[s].token
                            /\ at'[s] = "issue" => arg'[s].parent = 0 \/ (at[s] = "issue" /\ arg'[s].parent = arg[s].parent)
    PROVE  TokenInv'
<1>1. ASSUME NEW t \in DOMAIN tokens PROVE WorthOne(t)'
  <2>1. t # 0
    BY DEF AccountInv, TokenRows, IsSequence
  <2>2. \A s \in Slots : at'[s] = "issue" /\ arg'[s].parent = t => at[s] = "issue" /\ arg[s].parent = t
    BY <2>1
  <2>3. Spending(t)' \subseteq Spending(t)
    BY <2>2 DEF Spending, Presenting
  <2>4. Successors(t)' = Successors(t)
    BY DEF Successors
  <2>5. WorthOne(t)
    BY DEF TokenInv
  <2> QED BY <2>2, <2>3, <2>4, <2>5 DEF WorthOne
<1> QED BY <1>1 DEF TokenInv

\* A handler goes from one await to another and touches no table of these.
LEMMA SessionMoves ==
    ASSUME DOMAIN at = Slots, DOMAIN arg = Slots, SessionInv, UNCHANGED sessionVars,
           NEW s \in Slots, NEW step, NEW a, Moved(s, step, a),
           step \in Finding => a.who \in Identities /\ Verified(a.who),
           step \in Linking \cup {"link", "issue"} => Owns(a.user, a.who),
           step \in Linking \cup {"issue"} => a.parent = 0,
           step \in Presented => a.token \in DOMAIN tokens, step # "revoke"
    PROVE  SessionInv'
<1>1. /\ at'[s] = step /\ arg'[s] = a
      /\ \A r \in Slots \ {s} : Stays(r)
  BY MovesOne
<1>2. EmailsKept /\ UNCHANGED <<users, tokens, doubled>>
  BY DEF EmailsKept, sessionVars, Accounts
<1>3. ASSUME NEW r \in Slots PROVE HoldsIdentity(r)'
  <2>1. CASE r = s
    <3>1. at'[s] \in Finding => arg'[s].who \in Identities /\ Verified(arg'[s].who)
      BY <1>1
    <3>2. at'[s] \in Linking \cup {"link", "issue"} => Owns(arg'[s].user, arg'[s].who)
      BY <1>1
    <3>3. at'[s] \in Linking \cup {"link", "issue"} => Owns(a.user, a.who)'
      BY <3>2, <1>1, <1>2, OwnerKept
    <3> QED BY <1>1, <2>1, <3>1, <3>3 DEF HoldsIdentity, Served
  <2>2. CASE r # s
    BY <1>1, <1>2, <2>2, IdentityKept DEF SessionInv, AccountInv
  <2> QED BY <2>1, <2>2
<1>4. ASSUME NEW r \in Slots PROVE HoldsToken(r)'
  <2>1. CASE r = s
    BY <1>1, <1>2, <2>1 DEF HoldsToken
  <2>2. CASE r # s
    BY <1>1, <1>2, <2>2 DEF HoldsToken, Stays, SessionInv, TokenInv
  <2> QED BY <2>1, <2>2
<1>5. AccountInv'
  BY <1>2, <1>3, AccountsCalm DEF SessionInv
<1>6. \A r \in Slots : /\ at'[r] = "revoke" => at[r] = "revoke" /\ arg'[r].token = arg[r].token
                       /\ at'[r] = "issue" => arg'[r].parent = 0 \/ (at[r] = "issue" /\ arg'[r].parent = arg[r].parent)
  BY <1>1 DEF Stays
<1>7. TokenInv'
  BY <1>2, <1>4, <1>6, TokensCalm DEF SessionInv
<1> QED BY <1>5, <1>7 DEF SessionInv

\* The handlers of other modules.
LEMMA SessionUntouched ==
    ASSUME SessionInv, UNCHANGED sessionVars,
           \A s \in Slots : Stays(s) \/ at'[s] \notin SessionSteps
    PROVE  SessionInv'
<1>1. EmailsKept /\ UNCHANGED <<users, tokens, doubled>>
  BY DEF EmailsKept, sessionVars, Accounts
<1>2. \A s \in Slots : HoldsIdentity(s)'
  BY <1>1, IdentityKept DEF SessionInv, AccountInv
<1>3. \A s \in Slots : HoldsToken(s)'
  BY <1>1 DEF SessionInv, TokenInv, HoldsToken, Stays, SessionSteps, Presented, Linking
<1>4. \A s \in Slots : /\ at'[s] = "revoke" => at[s] = "revoke" /\ arg'[s].token = arg[s].token
                       /\ at'[s] = "issue" => arg'[s].parent = 0 \/ (at[s] = "issue" /\ arg'[s].parent = arg[s].parent)
  BY DEF Stays, SessionSteps, Presented
<1> QED BY <1>1, <1>2, <1>3, <1>4, AccountsCalm, TokensCalm DEF SessionInv


\* An account is made or linked, and the handler that did it goes on to answer.
LEMMA AccountsGrow ==
    ASSUME DOMAIN at = Slots, DOMAIN arg = Slots, SessionInv, EmailsKept, AccountRows', UNCHANGED <<tokens, doubled>>,
           NEW s \in Slots, NEW step, NEW a, Moved(s, step, a), step \in {"session", "issue"}, a.parent = 0,
           Served(s)'
    PROVE  SessionInv'
<1>1. /\ at'[s] = step /\ arg'[s] = a
      /\ \A r \in Slots \ {s} : Stays(r)
  BY MovesOne
<1>2. TokenRows'
  BY OwnerKept DEF SessionInv, AccountInv, TokenRows
<1>3. ASSUME NEW r \in Slots PROVE HoldsIdentity(r)' /\ HoldsToken(r)'
  <2>1. CASE r = s
    BY <1>1, <2>1 DEF HoldsIdentity, HoldsToken, Served, Finding, Linking, Presented
  <2>2. CASE r # s
    <3>1. HoldsIdentity(r)'
      BY <1>1, <2>2, IdentityKept DEF SessionInv, AccountInv
    <3>2. HoldsToken(r)'
      BY <1>1, <2>2 DEF HoldsToken, Stays, SessionInv, TokenInv
    <3> QED BY <3>1, <3>2
  <2> QED BY <2>1, <2>2
<1>4. \A r \in Slots : /\ at'[r] = "revoke" => at[r] = "revoke" /\ arg'[r].token = arg[r].token
                       /\ at'[r] = "issue" => arg'[r].parent = 0 \/ (at[r] = "issue" /\ arg'[r].parent = arg[r].parent)
  BY <1>1 DEF Stays
<1>5. AccountInv'
  BY <1>2, <1>3 DEF AccountInv
<1>6. TokenInv'
  BY <1>3, <1>4, TokensCalm DEF SessionInv
<1> QED BY <1>5, <1>6 DEF SessionInv

\* Signing in: the search by the provider's id, and by the e-mail.
LEMMA AccountFound ==
    ASSUME DOMAIN at = Slots, DOMAIN arg = Slots, SessionInv, NEW s \in Slots,
           SignIn(s) \/ FindProvider(s) \/ FindEmail(s) \/ SignInFails(s) \/ Refresh(s)
    PROVE  SessionInv'
<1> USE DEF Finding, Linking, Presented
<1>1. CASE SignIn(s)
  <2>1. PICK i \in Identities, c \in Conversations :
          /\ Verified(i) /\ UNCHANGED sessionVars
          /\ Moved(s, "find provider", [op |-> "firebase", who |-> i, conv |-> c])
    BY <1>1, HandlersMove DEF SignIn
  <2> QED BY <2>1, SessionMoves
<1>2. CASE FindProvider(s)
  <2>1. arg[s].who \in Identities /\ Verified(arg[s].who) /\ UNCHANGED sessionVars
    BY <1>2 DEF FindProvider, SessionInv, AccountInv, HoldsIdentity
  <2>2. ASSUME NEW a \in Owning(arg[s].who), Known(s, a) PROVE SessionInv'
    <3>1. Owns(a, arg[s].who)
      BY <2>1 DEF Owning, SessionInv, AccountInv, AccountRows
    <3>2. PICK step \in {"session", "issue"} :
            Moved(s, step, [op |-> "firebase", who |-> arg[s].who, conv |-> arg[s].conv, user |-> a, parent |-> 0])
      BY <2>2, HandlersMove DEF Known
    <3> QED BY <2>1, <3>1, <3>2, SessionMoves
  <2>3. CASE Go(s, "find email", arg[s])
    <3>1. Moved(s, "find email", arg[s])
      BY <2>3, HandlersMove
    <3> QED BY <2>1, <3>1, SessionMoves
  <2> QED BY <1>2, <2>2, <2>3 DEF FindProvider
<1>3. CASE FindEmail(s)
  <2>1. arg[s].who \in Identities /\ Verified(arg[s].who) /\ UNCHANGED sessionVars
    BY <1>3 DEF FindEmail, SessionInv, AccountInv, HoldsIdentity
  <2>2. ASSUME NEW a \in WithEmail(arg[s].who.email),
               Go(s, "link", [op |-> "firebase", who |-> arg[s].who, conv |-> arg[s].conv, user |-> a])
        PROVE  SessionInv'
    <3>1. Owns(a, arg[s].who)
      BY <2>1 DEF WithEmail, Owns
    <3>2. Moved(s, "link", [op |-> "firebase", who |-> arg[s].who, conv |-> arg[s].conv, user |-> a])
      BY <2>2, HandlersMove
    <3> QED BY <2>1, <3>1, <3>2, SessionMoves
  <2>3. CASE Go(s, "create", arg[s])
    <3>1. Moved(s, "create", arg[s])
      BY <2>3, HandlersMove
    <3> QED BY <2>1, <3>1, SessionMoves
  <2> QED BY <1>3, <2>2, <2>3 DEF FindEmail
<1>4. CASE SignInFails(s)
  <2>1. Moved(s, "idle", Nothing) /\ UNCHANGED sessionVars
    BY <1>4, HandlersMove DEF SignInFails
  <2> QED BY <2>1, SessionMoves
<1>5. CASE Refresh(s)
  <2>1. PICK t \in DOMAIN tokens : Moved(s, "find token", [op |-> "refresh", token |-> t]) /\ UNCHANGED sessionVars
    BY <1>5, HandlersMove DEF Refresh
  <2> QED BY <2>1, SessionMoves
<1> QED BY <1>1, <1>2, <1>3, <1>4, <1>5

\* The provider's id is written to the account that has the e-mail.
LEMMA AccountLinked ==
    ASSUME DOMAIN at = Slots, DOMAIN arg = Slots, SessionInv, NEW s \in Slots, Link(s)
    PROVE  SessionInv'
<1> USE DEF Finding, Linking, Presented
<1>1. PICK i, u : i = arg[s].who /\ u = arg[s].user
  OBVIOUS
<1>2. Owns(u, i) /\ UNCHANGED <<tokens, doubled>>
  BY <1>1 DEF Link, SessionInv, AccountInv, HoldsIdentity, Served
<1>3. i \in Identities /\ Verified(i) /\ u \in Accounts /\ i.provider \in Providers /\ i.provider # "email"
  BY <1>2 DEF Owns, Verified, Providers
<1>4. CASE End(s) /\ UNCHANGED users
  <2>1. Moved(s, "idle", Nothing) /\ UNCHANGED sessionVars
    BY <1>2, <1>4, HandlersMove DEF sessionVars
  <2> QED BY <2>1, SessionMoves
<1>5. CASE users' = [users EXCEPT ![u][i.provider] = i.id] /\ Known(s, u)
  <2>1. PICK row : row = [users[u] EXCEPT ![i.provider] = i.id]
    OBVIOUS
  <2>2. users' = [users EXCEPT ![u] = row]
    BY <1>5, <2>1
  <2>3. DOMAIN users[u] = Providers \cup {"email"} /\ IsSequence(users)
    BY <1>3 DEF SessionInv, AccountInv, AccountRows
  <2>4. /\ DOMAIN row = Providers \cup {"email"} /\ row.email = users[u].email
        /\ \A p \in Providers : row[p] = IF p = i.provider THEN i.id ELSE users[u][p]
    BY <1>3, <2>1, <2>3 DEF Providers
  <2>5. IsSequence(users') /\ Accounts' = Accounts
    BY <1>3, <2>2, <2>3, SequenceKept DEF Accounts
  <2>6. \A a \in Accounts : users'[a] = IF a = u THEN row ELSE users[a]
    BY <2>2 DEF Accounts
  <2>7. EmailsKept
    BY <2>4, <2>5, <2>6 DEF EmailsKept
  <2>8. ASSUME NEW a \in Accounts, NEW j \in Identities, Verified(j), users'[a][j.provider] = j.id
        PROVE  Owns(a, j)'
    <3>1. j.provider \in Providers
      BY <2>8 DEF Verified
    <3>2. CASE users[a][j.provider] = j.id
      <4>1. Owns(a, j)
        BY <2>8, <3>2 DEF SessionInv, AccountInv, AccountRows
      <4> QED BY <4>1, <2>7, OwnerKept
    <3>3. CASE a = u /\ j.provider = i.provider /\ j.id = i.id
      <4>1. j.email = i.email
        BY <1>3, <2>8, <3>3, IdentitiesAssumption
      <4>2. Owns(u, j)
        BY <1>2, <2>8, <4>1 DEF Owns
      <4> QED BY <3>3, <4>2, <2>7, OwnerKept
    <3> QED BY <2>4, <2>6, <2>8, <3>1, <3>2, <3>3
  <2>9. AccountRows'
    <3>1. \A a \in Accounts' : DOMAIN users'[a] = Providers \cup {"email"}
      BY <2>4, <2>5, <2>6 DEF SessionInv, AccountInv, AccountRows
    <3>2. \A a, b \in Accounts' : users'[a].email = users'[b].email => a = b
      BY <2>5, <2>7 DEF SessionInv, AccountInv, AccountRows, EmailsKept
    <3> QED BY <2>5, <2>8, <3>1, <3>2 DEF AccountRows
  <2>10. PICK a : a = [op |-> "firebase", who |-> i, conv |-> arg[s].conv, user |-> u, parent |-> 0]
    OBVIOUS
  <2>11. PICK step \in {"session", "issue"} : Moved(s, step, a)
    BY <1>1, <1>5, <2>10, HandlersMove DEF Known
  <2>12. arg'[s] = a
    BY <2>11, MovesOne
  <2>13. Owns(u, i)'
    BY <1>2, <2>7, OwnerKept
  <2>14. Served(s)'
    BY <2>10, <2>12, <2>13 DEF Served
  <2>15. a.parent = 0
    BY <2>10
  <2> QED BY <1>2, <2>7, <2>9, <2>11, <2>14, <2>15, AccountsGrow
<1> QED BY <1>1, <1>4, <1>5 DEF Link


\* An account is created where none has the e-mail, nor the provider's id.
LEMMA AccountCreated ==
    ASSUME DOMAIN at = Slots, DOMAIN arg = Slots, SessionInv, NEW s \in Slots, Create(s)
    PROVE  SessionInv'
<1> USE DEF Finding, Linking, Presented
<1>1. PICK i, row, n : i = arg[s].who /\ row = NewAccount(i) /\ n = Len(users) + 1
  OBVIOUS
<1>2. i \in Identities /\ Verified(i) /\ UNCHANGED <<tokens, doubled>>
  BY <1>1 DEF Create, SessionInv, AccountInv, HoldsIdentity
<1>3. CASE End(s) /\ UNCHANGED users
  <2>1. Moved(s, "idle", Nothing) /\ UNCHANGED sessionVars
    BY <1>2, <1>3, HandlersMove DEF sessionVars
  <2> QED BY <2>1, SessionMoves
<1>4. CASE WithEmail(i.email) \cup Owning(i) = {} /\ users' = Append(users, row) /\ Known(s, Len(users'))
  <2>1. IsSequence(users) /\ n \in Nat \ {0} /\ Accounts = 1 .. n - 1
    BY <1>1 DEF SessionInv, AccountInv, AccountRows, IsSequence, Accounts
  <2>2. /\ IsSequence(users') /\ Accounts' = 1 .. n /\ Len(users') = n
        /\ \A a \in Accounts : users'[a] = users[a]
        /\ users'[n] = row
    BY <1>1, <1>4, <2>1, SequenceKept DEF Accounts
  <2>3. /\ DOMAIN row = Providers \cup {"email"} /\ row.email = i.email
        /\ \A p \in Providers : row[p] = IF p = i.provider THEN i.id ELSE Null
    BY <1>1 DEF NewAccount, Providers
  <2>4. \A a \in Accounts : users[a].email # i.email
    BY <1>4 DEF WithEmail
  <2>5. EmailsKept
    BY <2>1, <2>2 DEF EmailsKept
  <2>6. ASSUME NEW a \in Accounts', NEW j \in Identities, Verified(j), users'[a][j.provider] = j.id
        PROVE  Owns(a, j)'
    <3>1. CASE a = n
      <4>1. j.provider \in Providers /\ j.id # Null
        BY <2>6, IdentitiesAssumption DEF Verified
      <4>2. j.provider = i.provider /\ j.id = i.id
        BY <2>2, <2>3, <2>6, <3>1, <4>1
      <4>3. j.email = i.email
        BY <1>2, <2>6, <4>2, IdentitiesAssumption
      <4> QED BY <2>2, <2>3, <2>6, <3>1, <4>3 DEF Owns
    <3>2. CASE a \in Accounts
      <4>1. Owns(a, j)
        BY <2>2, <2>6, <3>2 DEF SessionInv, AccountInv, AccountRows
      <4> QED BY <4>1, <2>5, OwnerKept
    <3> QED BY <2>1, <2>2, <3>1, <3>2
  <2>7. AccountRows'
    <3>1. \A a \in Accounts' : DOMAIN users'[a] = Providers \cup {"email"}
      BY <2>1, <2>2, <2>3 DEF SessionInv, AccountInv, AccountRows
    <3>2. \A a, b \in Accounts' : users'[a].email = users'[b].email => a = b
      BY <2>1, <2>2, <2>3, <2>4 DEF SessionInv, AccountInv, AccountRows
    <3> QED BY <2>2, <2>6, <3>1, <3>2 DEF AccountRows
  <2>8. PICK a : a = [op |-> "firebase", who |-> i, conv |-> arg[s].conv, user |-> n, parent |-> 0]
    OBVIOUS
  <2>9. PICK step \in {"session", "issue"} : Moved(s, step, a)
    BY <1>1, <1>4, <2>2, <2>8, HandlersMove DEF Known
  <2>10. arg'[s] = a
    BY <2>9, MovesOne
  <2>11. Owns(n, i)'
    BY <1>2, <2>1, <2>2, <2>3 DEF Owns
  <2>12. Served(s)' /\ a.parent = 0
    BY <2>8, <2>10, <2>11 DEF Served
  <2> QED BY <1>2, <2>5, <2>7, <2>9, <2>12, AccountsGrow
<1> QED BY <1>1, <1>4, <1>3 DEF Create

-----------------------------------------------------------------------------
(* The tokens. *)

\* The tokens change and the accounts do not: the handlers know what they knew.
LEMMA AccountsStand ==
    ASSUME AccountInv, UNCHANGED users, TokenRows',
           NEW s \in Slots, \A r \in Slots \ {s} : Stays(r), HoldsIdentity(s)'
    PROVE  AccountInv'
<1>1. EmailsKept
  BY DEF EmailsKept, Accounts
<1>2. AccountRows'
  BY DEF AccountInv, AccountRows, Owns, Accounts
<1>3. \A r \in Slots \ {s} : HoldsIdentity(r)'
  BY <1>1, IdentityKept DEF AccountInv
<1> QED BY <1>2, <1>3 DEF AccountInv

\* The new token: if it is a successor, the one that was promised.
LEMMA TokenIssued ==
    ASSUME DOMAIN at = Slots, DOMAIN arg = Slots, SessionInv, NEW s \in Slots, Issue(s)
    PROVE  SessionInv'
<1> USE DEF Finding, Linking, Presented
<1>1. PICK p, row, n : /\ p = arg[s].parent /\ n = Len(tokens) + 1
                       /\ row = [user |-> arg[s].user, by |-> arg[s].who, parent |-> p, revoked |-> FALSE]
  OBVIOUS
<1>2. /\ at'[s] = "idle" /\ arg'[s] = Nothing
      /\ \A r \in Slots \ {s} : Stays(r)
      /\ at[s] = "issue" /\ tokens' = Append(tokens, row) /\ UNCHANGED <<users, doubled>>
  BY <1>1, HandlersMove, MovesOne DEF Issue
<1>3. IsSequence(tokens) /\ n \in Nat \ {0} /\ DOMAIN tokens = 1 .. n - 1
  BY <1>1 DEF SessionInv, AccountInv, TokenRows, IsSequence
<1>4. /\ IsSequence(tokens') /\ DOMAIN tokens' = 1 .. n
      /\ \A t \in DOMAIN tokens : tokens'[t] = tokens[t]
      /\ tokens'[n] = row
  BY <1>1, <1>2, <1>3, SequenceKept
<1>5. p \in {0} \cup DOMAIN tokens
  BY <1>1, <1>2 DEF SessionInv, TokenInv, HoldsToken
<1>6. Owns(row.user, row.by)
  BY <1>1, <1>2 DEF SessionInv, AccountInv, HoldsIdentity, Served
<1>7. \A a, i : Owns(a, i) => Owns(a, i)'
  BY <1>2 DEF Owns, Accounts
<1>8. TokenRows'
  <2>1. ASSUME NEW t \in DOMAIN tokens'
        PROVE  /\ DOMAIN tokens'[t] = {"user", "by", "parent", "revoked"}
               /\ tokens'[t].parent \in {0} \cup DOMAIN tokens' /\ tokens'[t].revoked \in BOOLEAN
               /\ Owns(tokens'[t].user, tokens'[t].by)
    <3>1. CASE t = n
      <4>1. /\ DOMAIN row = {"user", "by", "parent", "revoked"}
            /\ row.parent = p /\ row.revoked = FALSE
        BY <1>1
      <4>2. tokens'[t] = row /\ p \in {0} \cup DOMAIN tokens'
        BY <1>3, <1>4, <1>5, <3>1
      <4> QED BY <1>6, <4>1, <4>2
    <3>2. CASE t \in DOMAIN tokens
      BY <1>3, <1>4, <3>2 DEF SessionInv, AccountInv, TokenRows
    <3> QED BY <1>3, <1>4, <3>1, <3>2
  <2>2. \A t \in DOMAIN tokens' : Owns(tokens'[t].user, tokens'[t].by) => Owns(tokens[t].user, tokens[t].by)'
    BY <1>2 DEF Owns, Accounts
  <2> QED BY <1>4, <2>1, <2>2 DEF TokenRows
<1>9. HoldsIdentity(s)'
  BY <1>2 DEF HoldsIdentity
<1>10. AccountInv'
  BY <1>2, <1>8, <1>9, AccountsStand DEF SessionInv
<1>11. ASSUME NEW r \in Slots PROVE HoldsToken(r)'
  <2>1. CASE r = s
    BY <1>2, <2>1 DEF HoldsToken
  <2>2. CASE r # s
    <3>1. HoldsToken(r) /\ Stays(r)
      BY <1>2, <2>2 DEF SessionInv, TokenInv
    <3>2. DOMAIN tokens \subseteq DOMAIN tokens'
      BY <1>3, <1>4
    <3> QED BY <3>1, <3>2 DEF HoldsToken, Stays
  <2> QED BY <2>1, <2>2
<1>12. ASSUME NEW t \in DOMAIN tokens' PROVE WorthOne(t)'
  <2>1. \A r \in Slots : at'[r] = "issue" /\ arg'[r].parent = t => r # s /\ at[r] = "issue" /\ arg[r].parent = t
    BY <1>2 DEF Stays
  <2>2. Spending(t)' \subseteq Spending(t) \ {s}
    BY <1>2, <2>1 DEF Spending, Presenting, Stays
  <2>3. Successors(t)' = Successors(t) \cup {m \in {n} : p = t}
    BY <1>1, <1>3, <1>4 DEF Successors
  <2>4. CASE t = n
    <3>1. Successors(t) = {} /\ p # t
      BY <1>3, <1>5, <2>4 DEF Successors, SessionInv, AccountInv, TokenRows
    <3>2. Spending(t) = {}
      <4>1. t \notin {0} \cup DOMAIN tokens
        BY <1>3, <2>4
      <4>2. \A r \in Slots : HoldsToken(r)
        BY DEF SessionInv, TokenInv
      <4> QED BY <4>1, <4>2 DEF Spending, Presenting, HoldsToken
    <3>3. Successors(t)' = {} /\ Spending(t)' = {}
      BY <2>2, <2>3, <3>1, <3>2
    <3> QED BY <3>3 DEF WorthOne, Spending
  <2>5. CASE t \in DOMAIN tokens /\ p # t
    <3>1. Successors(t)' = Successors(t)
      BY <2>3, <2>5
    <3>2. WorthOne(t) /\ tokens'[t] = tokens[t]
      BY <1>4, <2>5 DEF SessionInv, TokenInv
    <3> QED BY <1>2, <2>1, <2>2, <3>1, <3>2 DEF WorthOne
  <2>6. CASE t \in DOMAIN tokens /\ p = t
    <3>1. Successors(t)' = Successors(t) \cup {n}
      BY <2>3, <2>6
    <3>2. WorthOne(t) /\ tokens'[t] = tokens[t]
      BY <1>4, <2>6 DEF SessionInv, TokenInv
    <3>3. s \in Spending(t) /\ tokens[t].revoked
      BY <1>1, <1>2, <2>6, <3>2 DEF Spending, WorthOne
    <3>4. t \notin doubled => Successors(t) = {} /\ Spending(t)' = {}
      BY <2>2, <3>2, <3>3 DEF WorthOne
    <3> QED BY <1>2, <3>1, <3>2, <3>3, <3>4 DEF WorthOne
  <2> QED BY <1>3, <1>4, <2>4, <2>5, <2>6
<1> QED BY <1>10, <1>11, <1>12 DEF SessionInv, TokenInv


\* A valid token is presented: by this request alone, or it counts as doubled.
LEMMA TokenFound ==
    ASSUME DOMAIN at = Slots, DOMAIN arg = Slots, SessionInv, NEW s \in Slots, FindToken(s)
    PROVE  SessionInv'
<1> USE DEF Finding, Linking, Presented
<1>1. PICK t : t = arg[s].token
  OBVIOUS
<1>2. at[s] = "find token" /\ UNCHANGED <<users, tokens>> /\ t \in DOMAIN tokens
  BY <1>1 DEF FindToken, SessionInv, TokenInv, HoldsToken
<1>3. CASE End(s) /\ UNCHANGED doubled
  <2>1. Moved(s, "idle", Nothing) /\ UNCHANGED sessionVars
    BY <1>2, <1>3, HandlersMove DEF sessionVars
  <2> QED BY <2>1, SessionMoves
<1>4. CASE /\ ~tokens[t].revoked /\ Go(s, "revoke", arg[s])
           /\ doubled' = IF Presenting(t) = {} THEN doubled ELSE doubled \cup {t}
  <2>1. /\ at'[s] = "revoke" /\ arg'[s] = arg[s]
        /\ \A r \in Slots \ {s} : Stays(r)
    BY <1>4, HandlersMove, MovesOne
  <2>2. TokenRows' /\ HoldsIdentity(s)'
    <3>1. TokenRows'
      BY <1>2 DEF SessionInv, AccountInv, TokenRows, Owns, Accounts
    <3> QED BY <2>1, <3>1 DEF HoldsIdentity
  <2>3. AccountInv'
    BY <1>2, <2>1, <2>2, AccountsStand DEF SessionInv
  <2>4. ASSUME NEW r \in Slots PROVE HoldsToken(r)'
    <3>1. CASE r = s
      BY <1>1, <1>2, <2>1, <3>1 DEF HoldsToken
    <3>2. CASE r # s
      BY <1>2, <2>1, <3>2 DEF HoldsToken, SessionInv, TokenInv, Stays
    <3> QED BY <3>1, <3>2
  <2>5. ASSUME NEW x \in DOMAIN tokens PROVE WorthOne(x)'
    <3>1. WorthOne(x) /\ Successors(x)' = Successors(x)
      BY <1>2 DEF SessionInv, TokenInv, Successors
    <3>2. \A r \in Slots : at'[r] = "issue" /\ arg'[r].parent = x => at[r] = "issue" /\ arg[r].parent = x
      BY <2>1 DEF Stays
    <3>3. CASE x # t
      <4>1. Spending(x)' \subseteq Spending(x)
        BY <1>1, <2>1, <3>2, <3>3 DEF Spending, Presenting, Stays
      <4>2. x \notin doubled' => x \notin doubled
        BY <1>4
      <4> QED BY <1>2, <3>1, <3>2, <4>1, <4>2 DEF WorthOne
    <3>4. CASE x = t
      <4>1. ~tokens[x].revoked
        BY <1>4, <3>4
      <4>2. Successors(x) = {} /\ ~(\E r \in Slots : at[r] = "issue" /\ arg[r].parent = x)
        BY <3>1, <4>1 DEF WorthOne
      <4>3. x \notin doubled' => Presenting(x) = {}
        BY <1>4, <3>4
      <4>4. Spending(x)' \subseteq Presenting(x) \cup {s}
        BY <2>1, <3>2, <4>2 DEF Spending, Presenting, Stays
      <4>5. Successors(x)' = {} /\ ~(\E r \in Slots : at'[r] = "issue" /\ arg'[r].parent = x)
        BY <3>1, <3>2, <4>2
      <4> QED BY <4>3, <4>4, <4>5 DEF WorthOne
    <3> QED BY <3>3, <3>4
  <2> QED BY <1>2, <2>3, <2>4, <2>5 DEF SessionInv, TokenInv
<1> QED BY <1>1, <1>2, <1>3, <1>4 DEF FindToken

\* Tokens are revoked, by a rotation or a logout: the rows are otherwise the same.
RevokedSome ==
    /\ tokens' = [t \in DOMAIN tokens |-> tokens'[t]]
    /\ \A t \in DOMAIN tokens :
         /\ DOMAIN tokens'[t] = DOMAIN tokens[t] /\ tokens'[t].parent = tokens[t].parent
         /\ tokens'[t].user = tokens[t].user /\ tokens'[t].by = tokens[t].by
         /\ tokens'[t].revoked \in BOOLEAN /\ (tokens[t].revoked => tokens'[t].revoked)

LEMMA RowsRevoked ==
    ASSUME AccountInv, UNCHANGED users, RevokedSome
    PROVE  /\ TokenRows' /\ DOMAIN tokens' = DOMAIN tokens
           /\ \A t \in DOMAIN tokens :
                /\ tokens'[t].parent = tokens[t].parent /\ Successors(t)' = Successors(t)
                /\ tokens[t].revoked => tokens'[t].revoked
<1>1. DOMAIN tokens' = DOMAIN tokens
  BY DEF RevokedSome
<1>2. IsSequence(tokens')
  BY <1>1, SequenceRebuilt DEF RevokedSome, AccountInv, TokenRows
<1>3. ASSUME NEW t \in DOMAIN tokens
      PROVE  /\ DOMAIN tokens'[t] = {"user", "by", "parent", "revoked"} /\ tokens'[t].revoked \in BOOLEAN
             /\ tokens'[t].parent = tokens[t].parent /\ tokens'[t].user = tokens[t].user
             /\ tokens'[t].by = tokens[t].by /\ (tokens[t].revoked => tokens'[t].revoked)
  BY DEF RevokedSome, AccountInv, TokenRows
<1>4. \A a, i : Owns(a, i)' <=> Owns(a, i)
  BY DEF Owns, Accounts
<1>5. TokenRows'
  <2>1. \A t \in DOMAIN tokens' : tokens'[t].parent \in {0} \cup DOMAIN tokens'
    BY <1>1, <1>3 DEF AccountInv, TokenRows
  <2>2. \A t \in DOMAIN tokens' : Owns(tokens[t].user, tokens[t].by)'
    BY <1>1, <1>3 DEF AccountInv, TokenRows, Owns, Accounts
  <2> QED BY <1>1, <1>2, <1>3, <2>1, <2>2 DEF TokenRows
<1> QED BY <1>1, <1>3, <1>5 DEF Successors

\* A rotation revokes the token before it asks for the new one.
LEMMA TokenRevoked ==
    ASSUME DOMAIN at = Slots, DOMAIN arg = Slots, SessionInv, NEW s \in Slots, Revoke(s)
    PROVE  SessionInv'
<1> USE DEF Finding, Linking, Presented
<1>1. PICK t, a : /\ t = arg[s].token
                  /\ a = [op |-> "refresh", who |-> tokens[t].by, user |-> tokens[t].user, parent |-> t]
  OBVIOUS
<1>2. /\ at[s] = "revoke" /\ UNCHANGED <<users, doubled>> /\ t \in DOMAIN tokens
      /\ tokens' = [tokens EXCEPT ![t].revoked = TRUE] /\ Moved(s, "issue", a)
  BY <1>1, HandlersMove DEF Revoke, SessionInv, TokenInv, HoldsToken
<1>3. /\ at'[s] = "issue" /\ arg'[s] = a
      /\ \A r \in Slots \ {s} : Stays(r)
  BY <1>2, MovesOne
<1>4. RevokedSome
  <2>1. \A x \in DOMAIN tokens : DOMAIN tokens[x] = {"user", "by", "parent", "revoked"} /\ tokens[x].revoked \in BOOLEAN
    BY DEF SessionInv, AccountInv, TokenRows
  <2> QED BY <1>2, <2>1 DEF RevokedSome
<1>5. /\ TokenRows' /\ DOMAIN tokens' = DOMAIN tokens
      /\ \A x \in DOMAIN tokens :
           /\ Successors(x)' = Successors(x)
           /\ tokens[x].revoked => tokens'[x].revoked
  BY <1>2, <1>4, RowsRevoked DEF SessionInv
<1>6. tokens'[t].revoked /\ Owns(tokens[t].user, tokens[t].by)
  BY <1>2 DEF SessionInv, AccountInv, TokenRows
<1>7. Served(s)'
  <2>1. Owns(a.user, a.who)
    BY <1>1, <1>6
  <2>2. \A u, i : Owns(u, i) => Owns(u, i)'
    BY <1>2 DEF Owns, Accounts
  <2> QED BY <1>3, <2>1, <2>2 DEF Served
<1>8. AccountInv'
  <2>1. HoldsIdentity(s)'
    BY <1>3, <1>7 DEF HoldsIdentity
  <2> QED BY <1>2, <1>3, <1>5, <2>1, AccountsStand DEF SessionInv
<1>9. ASSUME NEW r \in Slots PROVE HoldsToken(r)'
  <2>1. CASE r = s
    <3>1. a.parent = t
      BY <1>1
    <3> QED BY <1>2, <1>3, <1>5, <2>1, <3>1 DEF HoldsToken
  <2>2. CASE r # s
    BY <1>3, <1>5, <2>2 DEF HoldsToken, SessionInv, TokenInv, Stays
  <2> QED BY <2>1, <2>2
<1>10. ASSUME NEW x \in DOMAIN tokens PROVE WorthOne(x)'
  <2>1. WorthOne(x)
    BY DEF SessionInv, TokenInv
  <2>2. a.parent = t
    BY <1>1
  <2>3. \A r \in Slots : at'[r] = "issue" /\ arg'[r].parent = x =>
          (at[r] = "issue" /\ arg[r].parent = x) \/ x = t
    BY <1>3, <2>2 DEF Stays
  <2>4. Spending(x)' \subseteq Spending(x)
    BY <1>1, <1>2, <1>3, <2>2 DEF Spending, Presenting, Stays
  <2>5. Successors(x)' # {} \/ (\E r \in Slots : at'[r] = "issue" /\ arg'[r].parent = x) => tokens'[x].revoked
    BY <1>5, <1>6, <2>1, <2>3 DEF WorthOne
  <2> QED BY <1>2, <1>5, <2>1, <2>4, <2>5 DEF WorthOne
<1> QED BY <1>5, <1>8, <1>9, <1>10 DEF SessionInv, TokenInv

\* A logout revokes all of a user's, whoever is presenting them.
LEMMA TokensRevoked ==
    ASSUME SessionInv, Logout
    PROVE  SessionInv'
<1>1. UNCHANGED <<users, doubled, at, arg>> /\ \E a \in Accounts : tokens' = RevokeAll(a)
  BY DEF Logout, Instant
<1>2. RevokedSome
  <2>1. PICK a \in Accounts : tokens' = RevokeAll(a)
    BY <1>1
  <2>2. ASSUME NEW t \in DOMAIN tokens
        PROVE  /\ DOMAIN tokens'[t] = DOMAIN tokens[t] /\ tokens'[t].parent = tokens[t].parent
               /\ tokens'[t].user = tokens[t].user /\ tokens'[t].by = tokens[t].by
               /\ tokens'[t].revoked \in BOOLEAN /\ (tokens[t].revoked => tokens'[t].revoked)
    <3>1. DOMAIN tokens[t] = {"user", "by", "parent", "revoked"} /\ tokens[t].revoked \in BOOLEAN
      BY DEF SessionInv, AccountInv, TokenRows
    <3>2. tokens'[t] = [tokens[t] EXCEPT !.revoked = tokens[t].revoked \/ tokens[t].user = a]
      BY <2>1 DEF RevokeAll
    <3> QED BY <3>1, <3>2
  <2>3. tokens' = [t \in DOMAIN tokens |-> tokens'[t]]
    BY <2>1 DEF RevokeAll
  <2> QED BY <2>2, <2>3 DEF RevokedSome
<1>3. /\ TokenRows' /\ DOMAIN tokens' = DOMAIN tokens
      /\ \A x \in DOMAIN tokens :
           /\ Successors(x)' = Successors(x)
           /\ tokens[x].revoked => tokens'[x].revoked
  BY <1>1, <1>2, RowsRevoked DEF SessionInv
<1>4. AccountInv'
  BY <1>1, <1>3 DEF SessionInv, AccountInv, AccountRows, HoldsIdentity, Served, Owns, Accounts
<1>5. \A s \in Slots : HoldsToken(s)'
  BY <1>1, <1>3 DEF SessionInv, TokenInv, HoldsToken
<1>6. ASSUME NEW x \in DOMAIN tokens PROVE WorthOne(x)'
  <2>1. WorthOne(x) /\ Spending(x)' = Spending(x)
    BY <1>1 DEF SessionInv, TokenInv, Spending, Presenting
  <2> QED BY <1>1, <1>3, <2>1 DEF WorthOne
<1> QED BY <1>3, <1>4, <1>5, <1>6 DEF SessionInv, TokenInv


\* The session of a sign-in is looked for, claimed and made the account's; the account
\* and the identity it serves stay in the handler's hands.
LEMMA SessionLinked ==
    ASSUME DOMAIN at = Slots, DOMAIN arg = Slots, SessionInv, NEW s \in Slots, LinkStep(s)
    PROVE  SessionInv'
<1> USE DEF Finding, Linking, Presented
<1>1. at[s] \in Linking /\ UNCHANGED sessionVars
  BY DEF LinkStep, FindSession, Claim, Bootstrap, BootstrapFind, BootstrapSet, LinkFails, accountVars
<1>2. Owns(arg[s].user, arg[s].who) /\ arg[s].parent = 0
  BY <1>1 DEF SessionInv, AccountInv, TokenInv, HoldsIdentity, HoldsToken, Served
<1>3. CASE Bootstrap(s) \/ BootstrapFind(s)
  <2>0. PICK step \in {"bootstrap find", "bootstrap set"} : \E c, f : Moved(s, step, Session(s, c, f))
    BY <1>3, HandlersMove DEF Bootstrap, BootstrapFind
  <2>1. PICK c, f : Moved(s, step, Session(s, c, f))
    BY <2>0
  <2>2. PICK a : a = Session(s, c, f)
    OBVIOUS
  <2>3. a.user = arg[s].user /\ a.who = arg[s].who /\ a.parent = 0
    BY <2>2 DEF Session
  <2> QED BY <1>1, <1>2, <2>1, <2>2, <2>3, SessionMoves
<1>4. CASE ~(Bootstrap(s) \/ BootstrapFind(s))
  <2>1. PICK step \in {"claim", "bootstrap", "issue"} : Moved(s, step, arg[s])
    <3>1. CASE FindSession(s) \/ LinkFails(s)
      BY <3>1, HandlersMove DEF FindSession, LinkFails
    <3>2. CASE Claim(s) \/ BootstrapSet(s)
      BY <3>2, HandlersMove DEF Claim, BootstrapSet
    <3> QED BY <1>4, <3>1, <3>2 DEF LinkStep
  <2> QED BY <1>1, <1>2, <2>1, SessionMoves
<1> QED BY <1>3, <1>4

LEMMA SessionKept ==
    ASSUME DOMAIN at = Slots, DOMAIN arg = Slots, SessionInv, NEW s \in Slots, SessionStep(s) \/ LinkStep(s)
    PROVE  SessionInv'
  BY AccountFound, AccountLinked, AccountCreated, TokenIssued, TokenFound, TokenRevoked, SessionLinked
     DEF SessionStep

\* The invariant is what the two properties say of what was issued.
LEMMA SessionMeans ==
    ASSUME SessionInv
    PROVE  OneAccount /\ OneSuccessor
<1>1. OneAccount
  BY DEF SessionInv, AccountInv, AccountRows, TokenRows, Owns, Verified, OneAccount
<1>2. ASSUME NEW t \in DOMAIN tokens PROVE /\ Successors(t) # {} => tokens[t].revoked
                                           /\ t \notin doubled => Cardinality(Successors(t)) <= 1
  <2>1. WorthOne(t)
    BY DEF SessionInv, TokenInv
  <2>2. CASE t \notin doubled /\ Successors(t) = {}
    BY <2>1, <2>2, FS_EmptySet DEF WorthOne
  <2>3. CASE t \notin doubled /\ Successors(t) # {}
    <3>1. PICK n \in Successors(t) : Successors(t) = {n}
      BY <2>1, <2>3 DEF WorthOne
    <3>2. Cardinality(Successors(t)) = 1
      BY <3>1, FS_Singleton
    <3> QED BY <2>1, <3>2 DEF WorthOne
  <2> QED BY <2>1, <2>2, <2>3 DEF WorthOne
<1> QED BY <1>1, <1>2 DEF OneSuccessor

-----------------------------------------------------------------------------
(* The marks. *)

\* A handler that may mark a language of u next.
LEMMA MarkingMoved ==
    ASSUME NEW u
    PROVE  Marking(u) = {s \in Slots : at[s] \in MarkAwaits /\ arg[s].user = u}
  BY DEF Marking, MarkAwaits, MarkSteps, InTransaction

\* No mark is set, and no handler comes to one of the awaits at which it relies on the
\* marks.
LEMMA MarksCalm ==
    ASSUME MarkInv, LanguageTable(rows'), UNCHANGED mixed, \A x : Marked(x)' \subseteq Marked(x),
           \A s \in Slots : HoldsLanguage(s)',
           \A s \in Slots : at'[s] \in Relying => Stays(s)
    PROVE  MarkInv'
<1>1. ASSUME NEW u \in Learners \ mixed' PROVE MarkedOnce(u)'
  <2>1. MarkedOnce(u) /\ Marked(u)' \subseteq Marked(u)
    BY <1>1 DEF MarkInv
  <2>2. \A s \in Slots : at'[s] \in {"insert", "update save"} \cup InTransaction => Stays(s)
    BY DEF Relying
  <2>3. /\ \A s \in Slots : at'[s] = "insert" /\ arg'[s].user = u => Marked(u)' = {}
        /\ \A s \in Slots : at'[s] = "update save" /\ arg'[s].user = u /\ arg'[s].marked => Marked(u)' \subseteq {arg'[s].row}
    BY <2>1, <2>2 DEF MarkedOnce, Stays
  <2>4. \A s \in Slots : at'[s] \in InTransaction /\ arg'[s].user = u => Marked(u)' \subseteq arg'[s].cleared
    BY <2>1, <2>2 DEF MarkedOnce, Stays
  <2> QED BY <2>1, <2>3, <2>4 DEF MarkedOnce
<1> QED BY <1>1 DEF MarkInv

\* Rows keep their learner and their place; some may be new.
RowsKept ==
    /\ DOMAIN rows \subseteq DOMAIN rows'
    /\ \A i \in DOMAIN rows : rows'[i].user = rows[i].user

\* A handler at work keeps hold of its rows.
LEMMA LanguageHeld ==
    ASSUME MarkInv, RowsKept, NEW s \in Slots, Stays(s) \/ at'[s] \notin MarkAwaits
    PROVE  HoldsLanguage(s)'
<1>1. CASE at'[s] \notin MarkAwaits
  BY <1>1 DEF HoldsLanguage, MarkAwaits, MarkSteps, InTransaction
<1>2. CASE Stays(s)
  <2>1. HoldsLanguage(s)
    BY DEF MarkInv
  <2>2. at'[s] \in {"update clear", "update save"} =>
          arg'[s].row \in DOMAIN rows' /\ arg'[s].user = rows'[arg'[s].row].user /\ arg'[s].marked \in BOOLEAN
    BY <1>2, <2>1 DEF HoldsLanguage, RowsKept, Stays
  <2>3. ASSUME at'[s] \in InTransaction, NEW i \in arg'[s].cleared
        PROVE  i \in DOMAIN rows' /\ rows'[i].user = arg'[s].user
    <3>1. at[s] \in InTransaction /\ i \in arg[s].cleared
      BY <1>2, <2>3 DEF Stays
    <3>2. i \in DOMAIN rows /\ rows[i].user = arg[s].user
      BY <2>1, <3>1 DEF HoldsLanguage
    <3> QED BY <1>2, <3>2 DEF RowsKept, Stays
  <2>4. at'[s] = "bootstrap set" =>
          /\ \A i \in arg'[s].found : i \in DOMAIN rows' /\ rows'[i].user = arg'[s].user
          /\ \A i, j \in arg'[s].found : i = j
    BY <1>2, <2>1 DEF HoldsLanguage, RowsKept, Stays
  <2> QED BY <2>2, <2>3, <2>4 DEF HoldsLanguage
<1> QED BY <1>1, <1>2

\* The handlers of other modules, and those that end.
LEMMA MarksUntouched ==
    ASSUME MarkInv, UNCHANGED <<rows, mixed>>, \A s \in Slots : Stays(s) \/ at'[s] \notin MarkAwaits
    PROVE  MarkInv'
<1>1. \A s \in Slots : HoldsLanguage(s)'
  BY LanguageHeld DEF RowsKept
<1>2. \A s \in Slots : at'[s] \in Relying => Stays(s)
  BY DEF MarkAwaits, MarkSteps, Relying
<1>3. LanguageTable(rows') /\ \A x : Marked(x)' \subseteq Marked(x)
  BY DEF MarkInv, Marked, Live
<1> QED BY <1>1, <1>2, <1>3, MarksCalm

\* The marks of u are changed by one handler: whoever else was at it makes u mixed, and
\* the others keep theirs.
LEMMA MarksWritten ==
    ASSUME MarkInv, LanguageTable(rows'), RowsKept, NEW s \in Slots, NEW u, Overlap({s}, u),
           \A r \in Slots \ {s} : Stays(r), at'[s] \notin {"update clear"} \cup InTransaction,
           at'[s] \in {"insert", "update save"} => arg'[s].user = u,
           HoldsLanguage(s)',
           \A x : x # u => Marked(x)' = Marked(x),
           u \notin mixed /\ u \in Learners /\ Marking(u) \subseteq {s} =>
             /\ \A i, j \in Marked(u)' : i = j
             /\ at'[s] \in {"insert", "update save"} => Marked(u)' = {}
    PROVE  MarkInv'
<1>1. mixed \subseteq mixed'
  BY DEF Overlap
<1>2. \A r \in Slots : HoldsLanguage(r)'
  BY LanguageHeld
<1>3. ASSUME NEW x \in Learners \ mixed' PROVE MarkedOnce(x)'
  <2>1. MarkedOnce(x)
    BY <1>1, <1>3 DEF MarkInv
  <2>2. CASE x # u
    <3>1. Marked(x)' = Marked(x)
      BY <2>2
    <3>2. /\ at'[s] = "insert" /\ arg'[s].user = x => FALSE
          /\ at'[s] = "update save" /\ arg'[s].user = x => FALSE
      BY <2>2
    <3>3. /\ \A r \in Slots : at'[r] = "insert" /\ arg'[r].user = x => Marked(x)' = {}
          /\ \A r \in Slots : at'[r] = "update save" /\ arg'[r].user = x /\ arg'[r].marked => Marked(x)' \subseteq {arg'[r].row}
      BY <2>1, <3>1, <3>2 DEF MarkedOnce, Stays
    <3>4. \A r \in Slots : at'[r] \in InTransaction /\ arg'[r].user = x => Marked(x)' \subseteq arg'[r].cleared
      BY <2>1, <3>1 DEF MarkedOnce, Stays
    <3> QED BY <2>1, <3>1, <3>3, <3>4 DEF MarkedOnce
  <2>3. CASE x = u
    <3>1. u \notin mixed /\ u \in Learners /\ Marking(u) \ {s} = {}
      BY <1>1, <1>3, <2>3 DEF Overlap
    <3>2. \A r \in Slots \ {s} : ~(at'[r] \in {"insert", "update save"} \cup InTransaction /\ arg'[r].user = u)
      BY <3>1 DEF Marking, Stays
    <3>3. /\ \A i, j \in Marked(u)' : i = j
          /\ at'[s] \in {"insert", "update save"} => Marked(u)' = {}
      BY <3>1
    <3> QED BY <2>3, <3>2, <3>3 DEF MarkedOnce
  <2> QED BY <2>2, <2>3
<1> QED BY <1>2, <1>3 DEF MarkInv


LEMMA MarkedRows ==
    ASSUME NEW u
    PROVE  Marked(u) = MarkedIn(rows, u)
  BY DEF Marked, Live, MarkedIn

\* Rows change their marks, and only those of u do.
Remarked(q, p, u) ==
    /\ p = [i \in DOMAIN q |-> p[i]]
    /\ \A i \in DOMAIN q :
         /\ DOMAIN p[i] = DOMAIN q[i] /\ p[i].marked \in BOOLEAN
         /\ p[i].user = q[i].user /\ p[i].lang = q[i].lang /\ p[i].live = q[i].live
         /\ q[i].user # u => p[i].marked = q[i].marked

LEMMA TableRemarked ==
    ASSUME NEW q, LanguageTable(q), NEW p, NEW u, Remarked(q, p, u)
    PROVE  /\ LanguageTable(p) /\ DOMAIN p = DOMAIN q
           /\ \A x : x # u => MarkedIn(p, x) = MarkedIn(q, x)
<1>1. DOMAIN p = DOMAIN q
  BY DEF Remarked
<1>2. IsSequence(p)
  BY <1>1, SequenceRebuilt DEF Remarked, LanguageTable
<1> QED BY <1>1, <1>2 DEF Remarked, LanguageTable, MarkedIn

\* A row is added for a language the user does not learn.
LEMMA TableGrows ==
    ASSUME NEW q, LanguageTable(q), NEW r, DOMAIN r = {"user", "lang", "marked", "live"},
           r.marked \in BOOLEAN, r.live \in BOOLEAN,
           \A i \in DOMAIN q : ~(q[i].live /\ q[i].user = r.user /\ q[i].lang = r.lang)
    PROVE  /\ LanguageTable(Append(q, r)) /\ DOMAIN q \subseteq DOMAIN Append(q, r)
           /\ \A i \in DOMAIN q : Append(q, r)[i] = q[i]
           /\ \A x : MarkedIn(Append(q, r), x) =
                MarkedIn(q, x) \cup {i \in {Len(q) + 1} : r.live /\ r.user = x /\ r.marked}
<1>1. /\ IsSequence(Append(q, r)) /\ DOMAIN q = 1 .. Len(q) /\ Len(q) \in Nat
      /\ DOMAIN Append(q, r) = 1 .. Len(q) + 1
      /\ \A i \in DOMAIN q : Append(q, r)[i] = q[i]
      /\ Append(q, r)[Len(q) + 1] = r
  BY SequenceKept DEF LanguageTable
<1>2. \A i \in DOMAIN Append(q, r) : i \in DOMAIN q \/ i = Len(q) + 1
  BY <1>1
<1>3. LanguageTable(Append(q, r))
  BY <1>1, <1>2 DEF LanguageTable
<1>4. ASSUME NEW x
      PROVE  MarkedIn(Append(q, r), x) = MarkedIn(q, x) \cup {i \in {Len(q) + 1} : r.live /\ r.user = x /\ r.marked}
  BY <1>1, <1>2 DEF MarkedIn
<1> QED BY <1>1, <1>3, <1>4

\* Rows of u are cleared and others of u are marked.
LEMMA TableRemade ==
    ASSUME LanguageTable(rows), NEW u, NEW C, NEW M,
           \A i \in C \cup M : i \in DOMAIN rows /\ rows[i].user = u
    PROVE  /\ Remarked(rows, Remade(C, M), u)
           /\ MarkedIn(Remade(C, M), u) \subseteq M \cup (Marked(u) \ C)
<1>1. ASSUME NEW i \in DOMAIN rows
      PROVE  /\ DOMAIN Remade(C, M)[i] = DOMAIN rows[i] /\ Remade(C, M)[i].marked \in BOOLEAN
             /\ Remade(C, M)[i].user = rows[i].user /\ Remade(C, M)[i].lang = rows[i].lang
             /\ Remade(C, M)[i].live = rows[i].live
             /\ rows[i].user # u => Remade(C, M)[i].marked = rows[i].marked
             /\ Remade(C, M)[i].marked => i \in M \/ (rows[i].marked /\ i \notin C)
  <2>1. DOMAIN rows[i] = {"user", "lang", "marked", "live"} /\ rows[i].marked \in BOOLEAN
    BY DEF LanguageTable
  <2>2. PICK b \in BOOLEAN : b = (i \in M \/ (rows[i].marked /\ i \notin C))
    OBVIOUS
  <2>3. Remade(C, M)[i] = [rows[i] EXCEPT !.marked = b]
    BY <2>2 DEF Remade
  <2>4. rows[i].user # u => b = rows[i].marked
    BY <2>1, <2>2
  <2>5. /\ DOMAIN Remade(C, M)[i] = DOMAIN rows[i] /\ Remade(C, M)[i].marked = b
        /\ Remade(C, M)[i].user = rows[i].user /\ Remade(C, M)[i].lang = rows[i].lang
        /\ Remade(C, M)[i].live = rows[i].live
    BY <2>1, <2>3
  <2> QED BY <2>2, <2>4, <2>5
<1>2. Remade(C, M) = [i \in DOMAIN rows |-> Remade(C, M)[i]] /\ DOMAIN Remade(C, M) = DOMAIN rows
  BY DEF Remade
<1>3. Remarked(rows, Remade(C, M), u)
  BY <1>1, <1>2 DEF Remarked
<1>4. MarkedIn(Remade(C, M), u) \subseteq M \cup (Marked(u) \ C)
  BY <1>1, <1>2 DEF MarkedIn, Marked, Live
<1> QED BY <1>3, <1>4


LEMMA RowsRemarked ==
    ASSUME LanguageTable(rows), NEW u, Remarked(rows, rows', u)
    PROVE  /\ LanguageTable(rows') /\ RowsKept
           /\ \A x : x # u => Marked(x)' = Marked(x)
<1>1. LanguageTable(rows') /\ DOMAIN rows' = DOMAIN rows
  BY TableRemarked
<1>2. \A x : x # u => MarkedIn(rows', x) = MarkedIn(rows, x)
  BY TableRemarked
<1>3. RowsKept
  BY <1>1 DEF RowsKept, Remarked
<1>4. \A x : Marked(x)' = MarkedIn(rows', x) /\ Marked(x) = MarkedIn(rows, x)
  BY DEF Marked, Live, MarkedIn
<1> QED BY <1>1, <1>2, <1>3, <1>4

\* A statement changes the marks of the handler's user, and no row is lost.
LEMMA MarksRemade ==
    ASSUME DOMAIN at = Slots, DOMAIN arg = Slots, MarkInv, NEW s \in Slots, NEW u, Overlap({s}, u),
           NEW step, step \notin {"clear", "update clear"} \cup InTransaction, NEW a, Moved(s, step, a),
           Remarked(rows, rows', u), HoldsLanguage(s)',
           step \in {"insert", "update save"} => a.user = u /\ MarkedIn(rows', u) = {},
           u \in Learners \ mixed => \A i, j \in MarkedIn(rows', u) : i = j
    PROVE  MarkInv'
<1>1. /\ at'[s] = step /\ arg'[s] = a
      /\ \A r \in Slots \ {s} : Stays(r)
  BY MovesOne
<1>2. LanguageTable(rows)
  BY DEF MarkInv
<1>3. LanguageTable(rows') /\ RowsKept /\ \A x : x # u => Marked(x)' = Marked(x)
  BY <1>2, RowsRemarked
<1>4. Marked(u)' = MarkedIn(rows', u)
  BY DEF Marked, Live, MarkedIn
<1>5. at'[s] \notin {"update clear"} \cup InTransaction
  BY <1>1
<1>6. at'[s] \in {"insert", "update save"} => arg'[s].user = u /\ Marked(u)' = {}
  BY <1>1, <1>4
<1>7. u \in Learners \ mixed => \A i, j \in Marked(u)' : i = j
  BY <1>4
<1>8. \A x : x # u => Marked(x)' = Marked(x)
  BY <1>3
<1> QED BY <1>1, <1>3, <1>5, <1>6, <1>7, <1>8, MarksWritten

\* The handlers of the languages that change marks: adding a language clears the
\* others first, and so does choosing one.
LEMMA MarksCleared ==
    ASSUME DOMAIN at = Slots, DOMAIN arg = Slots, MarkInv, NEW s \in Slots, Clear(s)
    PROVE  MarkInv'
<1>1. PICK u : u = arg[s].user
  OBVIOUS
<1>2. rows' = Remade(Marked(u), {}) /\ Overlap({s}, u)
  BY <1>1 DEF Clear
<1>3. PICK step \in {"insert", "update save"} : Moved(s, step, arg[s]) /\ (step = "update save" => at[s] = "update clear")
  BY HandlersMove DEF Clear
<1>4. Remarked(rows, rows', u) /\ MarkedIn(rows', u) = {}
  <2>1. \A i \in Marked(u) \cup {} : i \in DOMAIN rows /\ rows[i].user = u
    BY DEF Marked, Live
  <2>2. /\ Remarked(rows, Remade(Marked(u), {}), u)
        /\ MarkedIn(Remade(Marked(u), {}), u) \subseteq {} \cup (Marked(u) \ Marked(u))
    BY <2>1, TableRemade DEF MarkInv
  <2> QED BY <1>2, <2>2
<1>5. HoldsLanguage(s)'
  <2>1. at'[s] = step /\ arg'[s] = arg[s]
    BY <1>3, MovesOne
  <2>2. RowsKept
    BY <1>4, TableRemarked DEF RowsKept, MarkInv, Remarked
  <2>3. step \notin InTransaction /\ step # "bootstrap set"
    BY <1>3 DEF InTransaction
  <2>4. HoldsLanguage(s)
    BY DEF MarkInv
  <2>5. step \in {"update clear", "update save"} =>
          arg[s].row \in DOMAIN rows /\ arg[s].user = rows[arg[s].row].user /\ arg[s].marked \in BOOLEAN
    BY <1>3, <2>4 DEF HoldsLanguage
  <2>6. at'[s] \in {"update clear", "update save"} =>
          arg'[s].row \in DOMAIN rows' /\ arg'[s].user = rows'[arg'[s].row].user /\ arg'[s].marked \in BOOLEAN
    BY <2>1, <2>2, <2>5 DEF RowsKept
  <2> QED BY <2>1, <2>3, <2>6 DEF HoldsLanguage
<1>6. step \notin {"clear", "update clear"} \cup InTransaction
  BY <1>3 DEF InTransaction
<1> QED BY <1>1, <1>2, <1>3, <1>4, <1>5, <1>6, MarksRemade

LEMMA MarkInserted ==
    ASSUME DOMAIN at = Slots, DOMAIN arg = Slots, MarkInv, NEW s \in Slots, InsertMarked(s)
    PROVE  MarkInv'
<1>0. "idle" \notin {"update clear"} \cup InTransaction
  BY DEF InTransaction
<1>1. PICK u, r : u = arg[s].user /\ r = Row(u, arg[s].lang, TRUE)
  OBVIOUS
<1>2. /\ at[s] = "insert" /\ Overlap({s}, u) /\ Insert(s, r)
      /\ at'[s] = "idle"
      /\ \A q \in Slots \ {s} : Stays(q)
  BY <1>1, HandlersMove, MovesOne DEF InsertMarked
<1>3. /\ DOMAIN r = {"user", "lang", "marked", "live"} /\ r.marked = TRUE /\ r.live = TRUE /\ r.user = u
  BY <1>1 DEF Row
<1>4. CASE UNCHANGED rows
  <2>1. mixed \subseteq mixed' /\ RowsKept /\ LanguageTable(rows')
    BY <1>2, <1>4 DEF Overlap, RowsKept, MarkInv
  <2>2. \A x : Marked(x)' = Marked(x)
    BY <1>4 DEF Marked, Live
  <2>3. u \notin mixed /\ u \in Learners => \A i, j \in Marked(u)' : i = j
    BY <2>2 DEF MarkInv, MarkedOnce
  <2>4. HoldsLanguage(s)'
    BY <1>2 DEF HoldsLanguage, InTransaction
  <2> QED BY <1>0, <1>2, <2>1, <2>2, <2>3, <2>4, MarksWritten
<1>5. CASE Enrolled(r.user, r.lang) = {} /\ rows' = Append(rows, r)
  <2>1. \A i \in DOMAIN rows : ~(rows[i].live /\ rows[i].user = r.user /\ rows[i].lang = r.lang)
    BY <1>5 DEF Enrolled, Live
  <2>2. /\ LanguageTable(rows') /\ RowsKept
        /\ \A x : MarkedIn(rows', x) = MarkedIn(rows, x) \cup {i \in {Len(rows) + 1} : r.live /\ r.user = x /\ r.marked}
    <3>1. LanguageTable(rows) /\ r.marked \in BOOLEAN /\ r.live \in BOOLEAN
      BY <1>3 DEF MarkInv
    <3>2. /\ LanguageTable(Append(rows, r)) /\ DOMAIN rows \subseteq DOMAIN Append(rows, r)
          /\ \A i \in DOMAIN rows : Append(rows, r)[i] = rows[i]
          /\ \A x : MarkedIn(Append(rows, r), x) =
               MarkedIn(rows, x) \cup {i \in {Len(rows) + 1} : r.live /\ r.user = x /\ r.marked}
      BY <1>3, <2>1, <3>1, TableGrows
    <3> QED BY <1>5, <3>2 DEF RowsKept
  <2>3. \A x : Marked(x)' = MarkedIn(rows', x) /\ Marked(x) = MarkedIn(rows, x)
    BY DEF Marked, Live, MarkedIn
  <2>4. u \notin mixed /\ u \in Learners => Marked(u) = {}
    BY <1>1, <1>2 DEF MarkInv, MarkedOnce
  <2>5. u \notin mixed /\ u \in Learners => \A i, j \in Marked(u)' : i = j
    BY <2>2, <2>3, <2>4
  <2>6. \A x : x # u => Marked(x)' = Marked(x)
    BY <1>3, <2>2, <2>3
  <2>7. HoldsLanguage(s)'
    BY <1>2 DEF HoldsLanguage, InTransaction
  <2> QED BY <1>0, <1>2, <2>2, <2>5, <2>6, <2>7, MarksWritten
<1> QED BY <1>2, <1>4, <1>5 DEF Insert

\* The row that was read: its mark is the only one there is, if it has one.
LEMMA MarkRead ==
    ASSUME DOMAIN at = Slots, DOMAIN arg = Slots, MarkInv, NEW s \in Slots, UpdateLanguage(s)
    PROVE  MarkInv'
<1>1. PICK i \in DOMAIN rows, m \in {"set", "unset", "keep"} :
        /\ rows[i].live /\ UNCHANGED languageVars
        /\ Begin(s, "update language", IF m = "set" THEN "update clear" ELSE "update save",
                 [op |-> "update", user |-> rows[i].user, row |-> i,
                  marked |-> IF m = "keep" THEN rows[i].marked ELSE m = "set"])
  BY DEF UpdateLanguage
<1>2. PICK b, a : /\ b = IF m = "keep" THEN rows[i].marked ELSE m = "set"
                  /\ a = [op |-> "update", user |-> rows[i].user, row |-> i, marked |-> b]
  OBVIOUS
<1>3. /\ Moved(s, IF m = "set" THEN "update clear" ELSE "update save", a)
      /\ UNCHANGED <<rows, mixed>>
  BY <1>1, <1>2, HandlersMove DEF languageVars
<1>4. /\ at'[s] = (IF m = "set" THEN "update clear" ELSE "update save") /\ arg'[s] = a
      /\ \A r \in Slots \ {s} : Stays(r)
  BY <1>3, MovesOne
<1>5. b \in BOOLEAN /\ (m # "set" /\ b => rows[i].marked)
  BY <1>2 DEF MarkInv, LanguageTable
<1>6. a.user = rows[i].user /\ a.row = i /\ a.marked = b
  BY <1>2
<1>7. LanguageTable(rows') /\ \A x : Marked(x)' = Marked(x)
  BY <1>3 DEF MarkInv, Marked, Live
<1>8. ASSUME NEW r \in Slots PROVE HoldsLanguage(r)'
  <2>1. CASE r = s
    <3>1. at'[s] \in {"update clear", "update save"} /\ at'[s] \notin InTransaction
      BY <1>4 DEF InTransaction
    <3> QED BY <1>3, <1>4, <1>5, <1>6, <2>1, <3>1 DEF HoldsLanguage
  <2>2. CASE r # s
    BY <1>3, <1>4, <2>2, LanguageHeld DEF RowsKept
  <2> QED BY <2>1, <2>2
<1>9. ASSUME NEW u \in Learners \ mixed' PROVE MarkedOnce(u)'
  <2>1. MarkedOnce(u)
    BY <1>3, <1>9 DEF MarkInv
  <2>2. at'[s] # "insert"
    BY <1>4
  <2>3. at'[s] = "update save" /\ arg'[s].user = u /\ arg'[s].marked => Marked(u) \subseteq {arg'[s].row}
    <3>1. SUFFICES ASSUME m # "set", rows[i].user = u, b PROVE Marked(u) \subseteq {i}
      BY <1>4, <1>6
    <3>2. i \in Marked(u)
      BY <1>1, <1>5, <3>1 DEF Marked, Live
    <3> QED BY <2>1, <3>2 DEF MarkedOnce
  <2>4. at'[s] \notin InTransaction
    BY <1>4 DEF InTransaction
  <2>5. \A r \in Slots : at'[r] \in InTransaction /\ arg'[r].user = u => Marked(u)' \subseteq arg'[r].cleared
    BY <1>4, <1>7, <2>1, <2>4 DEF MarkedOnce, Stays
  <2>6. \A r \in Slots : at'[r] = "update save" /\ arg'[r].user = u /\ arg'[r].marked => Marked(u)' \subseteq {arg'[r].row}
    BY <1>4, <1>7, <2>1, <2>3 DEF MarkedOnce, Stays
  <2>7. \A r \in Slots : at'[r] = "insert" /\ arg'[r].user = u => Marked(u)' = {}
    BY <1>4, <1>7, <2>1, <2>2 DEF MarkedOnce, Stays
  <2> QED BY <1>7, <2>1, <2>5, <2>6, <2>7 DEF MarkedOnce
<1> QED BY <1>7, <1>8, <1>9 DEF MarkInv


\* The row is saved as it was read, or with the mark that was asked for; deleted
\* meanwhile, it is there again.
LEMMA MarkSaved ==
    ASSUME DOMAIN at = Slots, DOMAIN arg = Slots, MarkInv, NEW s \in Slots, SaveLanguage(s)
    PROVE  MarkInv'
<1>0. "idle" \notin {"update clear"} \cup InTransaction
  BY DEF InTransaction
<1>1. PICK i, u, b : i = arg[s].row /\ u = arg[s].user /\ b = arg[s].marked
  OBVIOUS
<1>2. /\ at[s] = "update save" /\ Overlap({s}, u)
      /\ at'[s] = "idle"
      /\ \A q \in Slots \ {s} : Stays(q)
  BY <1>1, HandlersMove, MovesOne DEF SaveLanguage
<1>3. i \in DOMAIN rows /\ u = rows[i].user /\ b \in BOOLEAN
  BY <1>1, <1>2 DEF MarkInv, HoldsLanguage
<1>4. u \notin mixed /\ u \in Learners =>
        (\A k, j \in Marked(u) : k = j) /\ (b => Marked(u) \subseteq {i})
  BY <1>1, <1>2 DEF MarkInv, MarkedOnce
<1>5. HoldsLanguage(s)'
  BY <1>2 DEF HoldsLanguage, InTransaction
<1>6. CASE UNCHANGED rows
  <2>1. RowsKept /\ LanguageTable(rows') /\ \A x : Marked(x)' = Marked(x)
    BY <1>6 DEF RowsKept, MarkInv, Marked, Live
  <2> QED BY <1>0, <1>2, <1>4, <1>5, <2>1, MarksWritten
<1>7. CASE /\ rows[i].live \/ Enrolled(rows[i].user, rows[i].lang) = {}
           /\ rows' = [rows EXCEPT ![i].marked = b, ![i].live = TRUE]
  <2>1. PICK r : r = [rows[i] EXCEPT !.marked = b, !.live = TRUE]
    OBVIOUS
  <2>2. LanguageTable(rows) /\ DOMAIN rows[i] = {"user", "lang", "marked", "live"}
    BY <1>3 DEF MarkInv, LanguageTable
  <2>3. /\ DOMAIN r = {"user", "lang", "marked", "live"} /\ r.marked = b /\ r.live = TRUE
        /\ r.user = u /\ r.lang = rows[i].lang
    BY <1>3, <2>1, <2>2
  <2>4. rows' = [rows EXCEPT ![i] = r]
    BY <1>7, <2>1
  <2>5. IsSequence(rows') /\ DOMAIN rows' = DOMAIN rows
    BY <1>3, <2>2, <2>4, SequenceKept DEF LanguageTable
  <2>6. \A j \in DOMAIN rows : rows'[j] = IF j = i THEN r ELSE rows[j]
    BY <2>4
  <2>7. \A j \in DOMAIN rows : rows[j].live /\ rows[j].user = u /\ rows[j].lang = rows[i].lang => j = i
    BY <1>3, <1>7, <2>2 DEF Enrolled, Live, LanguageTable
  <2>8. LanguageTable(rows')
    <3>1. \A j \in DOMAIN rows' : /\ DOMAIN rows'[j] = {"user", "lang", "marked", "live"}
                                  /\ rows'[j].marked \in BOOLEAN /\ rows'[j].live \in BOOLEAN
      BY <1>3, <2>2, <2>3, <2>5, <2>6 DEF LanguageTable
    <3>2. ASSUME NEW j \in DOMAIN rows', NEW k \in DOMAIN rows', rows'[j].live, rows'[k].live,
                 rows'[j].user = rows'[k].user, rows'[j].lang = rows'[k].lang
          PROVE  j = k
      <4>1. CASE j = i \/ k = i
        BY <1>3, <2>3, <2>5, <2>6, <2>7, <3>2, <4>1
      <4>2. CASE j # i /\ k # i
        BY <2>2, <2>5, <2>6, <3>2, <4>2 DEF LanguageTable
      <4> QED BY <4>1, <4>2
    <3> QED BY <2>5, <3>1, <3>2 DEF LanguageTable
  <2>9. RowsKept
    BY <1>3, <2>3, <2>5, <2>6 DEF RowsKept
  <2>10. \A x : x # u => Marked(x)' = Marked(x)
    BY <1>3, <2>3, <2>5, <2>6 DEF Marked, Live
  <2>11. Marked(u)' \subseteq IF b THEN Marked(u) \cup {i} ELSE Marked(u)
    BY <1>3, <2>3, <2>5, <2>6 DEF Marked, Live
  <2>12. u \notin mixed /\ u \in Learners => \A k, j \in Marked(u)' : k = j
    BY <1>3, <1>4, <2>11
  <2> QED BY <1>0, <1>2, <1>5, <2>8, <2>9, <2>10, <2>12, MarksWritten
<1> QED BY <1>1, <1>6, <1>7 DEF SaveLanguage

\* A transaction begins, or goes on, and has written nothing that others see: what it
\* will clear is all that is marked.
LEMMA MarksRead ==
    ASSUME DOMAIN at = Slots, DOMAIN arg = Slots, MarkInv, UNCHANGED <<rows, mixed>>, NEW s \in Slots,
           NEW step \in InTransaction, NEW a, Moved(s, step, a),
           \A i \in a.cleared : i \in DOMAIN rows /\ rows[i].user = a.user,
           step = "bootstrap set" =>
             /\ \A i \in a.found : i \in DOMAIN rows /\ rows[i].user = a.user
             /\ \A i, j \in a.found : i = j,
           a.user \in Learners \ mixed => Marked(a.user) \subseteq a.cleared
    PROVE  MarkInv'
<1>1. /\ at'[s] = step /\ arg'[s] = a
      /\ \A r \in Slots \ {s} : Stays(r)
  BY MovesOne
<1>2. /\ step \notin {"insert", "update save", "update clear"}
  BY DEF InTransaction
<1>3. LanguageTable(rows') /\ \A x : Marked(x)' = Marked(x)
  BY DEF MarkInv, Marked, Live
<1>4. ASSUME NEW r \in Slots PROVE HoldsLanguage(r)'
  <2>1. CASE r = s
    BY <1>1, <1>2, <2>1 DEF HoldsLanguage
  <2>2. CASE r # s
    BY <1>1, <2>2, LanguageHeld DEF RowsKept
  <2> QED BY <2>1, <2>2
<1>5. ASSUME NEW u \in Learners \ mixed' PROVE MarkedOnce(u)'
  <2>1. MarkedOnce(u)
    BY <1>5 DEF MarkInv
  <2>2. /\ \A r \in Slots : at'[r] = "insert" /\ arg'[r].user = u => Marked(u)' = {}
        /\ \A r \in Slots : at'[r] = "update save" /\ arg'[r].user = u /\ arg'[r].marked => Marked(u)' \subseteq {arg'[r].row}
    BY <1>1, <1>2, <1>3, <2>1 DEF MarkedOnce, Stays
  <2>3. ASSUME NEW r \in Slots, at'[r] \in InTransaction, arg'[r].user = u
        PROVE  Marked(u)' \subseteq arg'[r].cleared
    BY <1>1, <1>3, <1>5, <2>1, <2>3 DEF MarkedOnce, Stays
  <2> QED BY <1>3, <2>1, <2>2, <2>3 DEF MarkedOnce
<1> QED BY <1>3, <1>4, <1>5 DEF MarkInv

\* Unless others changed the marks, those a transaction has cleared are all there are.
LEMMA AllCleared ==
    ASSUME MarkInv, NEW s \in Slots, at[s] \in InTransaction, arg[s].user \in Learners \ mixed
    PROVE  Marked(arg[s].user) \subseteq arg[s].cleared
<1>1. PICK u \in Learners \ mixed : u = arg[s].user
  OBVIOUS
<1>2. MarkedOnce(u)
  BY DEF MarkInv
<1> QED BY <1>1, <1>2 DEF MarkedOnce

LEMMA MarksListing ==
    ASSUME DOMAIN at = Slots, DOMAIN arg = Slots, MarkInv, NEW s \in Slots, ClearLearned(s)
    PROVE  MarkInv'
<1>1. PICK u, l : u = arg[s].user /\ l = arg[s].lang
  OBVIOUS
<1>2. PICK a : a = [op |-> "list", user |-> u, lang |-> l, cleared |-> Live(u)]
  OBVIOUS
<1>3. Moved(s, "mark set", a) /\ UNCHANGED <<rows, mixed>>
  BY <1>1, <1>2, HandlersMove DEF ClearLearned, languageVars
<1>4. /\ \A i \in a.cleared : i \in DOMAIN rows /\ rows[i].user = a.user
      /\ Marked(a.user) \subseteq a.cleared
  BY <1>2 DEF Live, Marked
<1>5. "mark set" \in InTransaction /\ "mark set" # "bootstrap set"
  BY DEF InTransaction
<1> QED BY <1>3, <1>4, <1>5, MarksRead

LEMMA MarksBootstrapping ==
    ASSUME DOMAIN at = Slots, DOMAIN arg = Slots, MarkInv, NEW s \in Slots, Bootstrap(s) \/ BootstrapFind(s)
    PROVE  MarkInv'
<1>1. PICK u, l : u = arg[s].user /\ l = Linked(s).lang
  OBVIOUS
<1>2. UNCHANGED <<rows, mixed>>
  BY DEF Bootstrap, BootstrapFind, accountVars, languageVars
<1>3. {"bootstrap find", "bootstrap set"} \subseteq InTransaction
  BY DEF InTransaction
<1>4. CASE Bootstrap(s)
  <2>1. PICK a : a = Session(s, Marked(u), {})
    OBVIOUS
  <2>2. Moved(s, "bootstrap find", a)
    BY <1>1, <1>4, <2>1, HandlersMove DEF Bootstrap
  <2>3. /\ \A i \in a.cleared : i \in DOMAIN rows /\ rows[i].user = a.user
        /\ Marked(a.user) \subseteq a.cleared
    BY <1>1, <2>1 DEF Live, Marked, Session
  <2> QED BY <1>2, <1>3, <2>2, <2>3, MarksRead
<1>5. CASE BootstrapFind(s)
  <2>1. PICK a : a = Session(s, arg[s].cleared, Enrolled(u, l))
    OBVIOUS
  <2>2. Moved(s, "bootstrap set", a) /\ at[s] = "bootstrap find"
    BY <1>1, <1>5, <2>1, HandlersMove DEF BootstrapFind
  <2>3. a.user = u /\ a.cleared = arg[s].cleared /\ a.found = Enrolled(u, l)
    BY <1>1, <2>1 DEF Session
  <2>4. \A i \in a.cleared : i \in DOMAIN rows /\ rows[i].user = a.user
    <3>1. at[s] \in InTransaction /\ HoldsLanguage(s)
      BY <1>3, <2>2 DEF MarkInv
    <3>2. \A i \in arg[s].cleared : i \in DOMAIN rows /\ rows[i].user = arg[s].user
      BY <3>1 DEF HoldsLanguage
    <3> QED BY <1>1, <2>3, <3>2
  <2>5. /\ \A i \in a.found : i \in DOMAIN rows /\ rows[i].user = a.user
        /\ \A i, j \in a.found : i = j
    BY <2>3 DEF Enrolled, Live, MarkInv, LanguageTable
  <2>6. a.user \in Learners \ mixed => Marked(a.user) \subseteq a.cleared
    BY <1>1, <1>3, <2>2, <2>3, AllCleared
  <2> QED BY <1>2, <1>3, <2>2, <2>4, <2>5, <2>6, MarksRead
<1> QED BY <1>4, <1>5

\* A list marks the language it is asked for and no other.
LEMMA MarkListed ==
    ASSUME DOMAIN at = Slots, DOMAIN arg = Slots, MarkInv, NEW s \in Slots, MarkLastLearned(s)
    PROVE  MarkInv'
<1>0. "mark set" \in InTransaction /\ "idle" \notin {"clear", "update clear"} \cup InTransaction
  BY DEF InTransaction
<1>1. PICK u, C, M : u = arg[s].user /\ C = arg[s].cleared /\ M = Enrolled(u, arg[s].lang)
  OBVIOUS
<1>2. at[s] = "mark set" /\ rows' = Remade(C, M) /\ Overlap({s}, u) /\ Moved(s, "idle", Nothing)
  BY <1>1, HandlersMove DEF MarkLastLearned
<1>3. LanguageTable(rows) /\ \A i \in C \cup M : i \in DOMAIN rows /\ rows[i].user = u
  <2>1. at[s] \in InTransaction /\ HoldsLanguage(s)
    BY <1>0, <1>2 DEF MarkInv
  <2>2. \A i \in arg[s].cleared : i \in DOMAIN rows /\ rows[i].user = arg[s].user
    BY <2>1 DEF HoldsLanguage
  <2>3. \A i \in M : i \in DOMAIN rows /\ rows[i].user = u
    BY <1>1 DEF Enrolled, Live
  <2> QED BY <1>1, <2>2, <2>3 DEF MarkInv
<1>4. Remarked(rows, rows', u) /\ MarkedIn(rows', u) \subseteq M \cup (Marked(u) \ C)
  BY <1>2, <1>3, TableRemade
<1>5. u \in Learners \ mixed => Marked(u) \subseteq C
  BY <1>0, <1>1, <1>2, AllCleared
<1>6. \A i, j \in M : i = j
  BY <1>1, <1>3 DEF LanguageTable, Enrolled, Live
<1>7. HoldsLanguage(s)'
  <2>1. at'[s] = "idle"
    BY <1>2, MovesOne
  <2> QED BY <2>1 DEF HoldsLanguage, InTransaction
<1>8. u \in Learners \ mixed => \A i, j \in MarkedIn(rows', u) : i = j
  BY <1>4, <1>5, <1>6
<1> QED BY <1>0, <1>2, <1>4, <1>7, <1>8, MarksRemade

\* A session taken over brings its language: no other of the account's is marked.
LEMMA MarkBootstrapped ==
    ASSUME DOMAIN at = Slots, DOMAIN arg = Slots, MarkInv, NEW s \in Slots, BootstrapSet(s)
    PROVE  MarkInv'
<1>0. "bootstrap set" \in InTransaction /\ "issue" \notin {"clear", "update clear"} \cup MarkAwaits
  BY DEF InTransaction, MarkAwaits, MarkSteps
<1>1. PICK u, l, C, M :
        u = arg[s].user /\ l = Linked(s).lang /\ C = arg[s].cleared /\ M = arg[s].found
  OBVIOUS
<1>2. Moved(s, "issue", arg[s]) /\ at[s] = "bootstrap set"
  BY HandlersMove DEF BootstrapSet
<1>3. /\ at'[s] = "issue"
      /\ \A q \in Slots \ {s} : Stays(q)
  BY <1>2, MovesOne
<1>4. HoldsLanguage(s)' /\ LanguageTable(rows)
  BY <1>3 DEF HoldsLanguage, MarkInv, InTransaction
<1>5. /\ \A i \in C \cup M : i \in DOMAIN rows /\ rows[i].user = u
      /\ \A i, j \in M : i = j
  <2>1. at[s] \in InTransaction /\ HoldsLanguage(s)
    BY <1>0, <1>2 DEF MarkInv
  <2>2. \A i \in arg[s].cleared : i \in DOMAIN rows /\ rows[i].user = arg[s].user
    BY <2>1 DEF HoldsLanguage
  <2>3. /\ \A i \in arg[s].found : i \in DOMAIN rows /\ rows[i].user = arg[s].user
        /\ \A i, j \in arg[s].found : i = j
    BY <1>2, <2>1 DEF HoldsLanguage
  <2> QED BY <1>1, <2>2, <2>3
<1>6. u \in Learners \ mixed => Marked(u) \subseteq C
  BY <1>0, <1>1, <1>2, AllCleared
<1>7. CASE UNCHANGED <<rows, mixed>>
  BY <1>0, <1>3, <1>7, MarksUntouched
<1>8. CASE rows' = Remade(C, M \cap Live(u)) /\ Overlap({s}, u)
  <2>1. PICK N : N = M \cap Live(u)
    OBVIOUS
  <2>2. \A i \in C \cup N : i \in DOMAIN rows /\ rows[i].user = u
    BY <1>5, <2>1
  <2>3. Remarked(rows, rows', u) /\ MarkedIn(rows', u) \subseteq N \cup (Marked(u) \ C)
    BY <1>4, <1>8, <2>1, <2>2, TableRemade
  <2>4. u \in Learners \ mixed => \A i, j \in MarkedIn(rows', u) : i = j
    BY <1>5, <1>6, <2>1, <2>3
  <2>5. "issue" \notin {"clear", "update clear"} \cup InTransaction
    BY <1>0 DEF MarkAwaits
  <2> QED BY <1>2, <1>4, <1>8, <2>3, <2>4, <2>5, MarksRemade
<1>9. CASE Enrolled(u, l) = {} /\ rows' = Append(Remade(C, {}), Row(u, l, TRUE)) /\ Overlap({s}, u)
  <2>1. PICK q, r : q = Remade(C, {}) /\ r = Row(u, l, TRUE)
    OBVIOUS
  <2>2. Remarked(rows, q, u) /\ MarkedIn(q, u) \subseteq Marked(u) \ C
    <3>1. \A i \in C \cup {} : i \in DOMAIN rows /\ rows[i].user = u
      BY <1>5
    <3> QED BY <1>4, <2>1, <3>1, TableRemade
  <2>3. LanguageTable(q) /\ DOMAIN q = DOMAIN rows /\ \A x : x # u => MarkedIn(q, x) = MarkedIn(rows, x)
    BY <1>4, <2>2, TableRemarked
  <2>4. /\ DOMAIN r = {"user", "lang", "marked", "live"} /\ r.marked \in BOOLEAN /\ r.live \in BOOLEAN
        /\ r.user = u /\ r.lang = l
    BY <2>1 DEF Row
  <2>5. \A i \in DOMAIN q : ~(q[i].live /\ q[i].user = r.user /\ q[i].lang = r.lang)
    BY <1>9, <2>2, <2>3, <2>4 DEF Enrolled, Live, Remarked
  <2>6. /\ LanguageTable(Append(q, r)) /\ DOMAIN q \subseteq DOMAIN Append(q, r)
        /\ \A i \in DOMAIN q : Append(q, r)[i] = q[i]
        /\ \A x : MarkedIn(Append(q, r), x) = MarkedIn(q, x) \cup {i \in {Len(q) + 1} : r.live /\ r.user = x /\ r.marked}
    BY <2>3, <2>4, <2>5, TableGrows
  <2>7. rows' = Append(q, r)
    BY <1>9, <2>1
  <2>8. LanguageTable(rows') /\ RowsKept
    BY <2>2, <2>3, <2>6, <2>7 DEF RowsKept, Remarked
  <2>9. \A x : Marked(x)' = MarkedIn(rows', x) /\ Marked(x) = MarkedIn(rows, x)
    BY DEF Marked, Live, MarkedIn
  <2>10. \A x : x # u => Marked(x)' = Marked(x)
    BY <2>3, <2>4, <2>6, <2>7, <2>9
  <2>11. u \notin mixed /\ u \in Learners => \A i, j \in Marked(u)' : i = j
    BY <1>6, <2>2, <2>6, <2>7, <2>9
  <2>12. at'[s] \notin {"update clear"} \cup InTransaction /\ at'[s] \notin {"insert", "update save"}
    BY <1>0, <1>3 DEF MarkAwaits
  <2> QED BY <1>3, <1>4, <1>9, <2>8, <2>10, <2>11, <2>12, MarksWritten
<1> QED BY <1>1, <1>7, <1>8, <1>9 DEF BootstrapSet

\* An enrolment adds a language without a mark, or fails.
LEMMA MarkEnrolled ==
    ASSUME DOMAIN at = Slots, DOMAIN arg = Slots, MarkInv, NEW s \in Slots, AutoEnrol(s)
    PROVE  MarkInv'
<1>1. PICK r : r = Row(arg[s].user, arg[s].lang, FALSE)
  OBVIOUS
<1>2. PICK step \in {"mark", "idle"} : \E a : Moved(s, step, a)
  BY HandlersMove DEF AutoEnrol, Guarding
<1>3. /\ at'[s] = step /\ UNCHANGED mixed
      /\ \A q \in Slots \ {s} : Stays(q)
  BY <1>2, MovesOne DEF AutoEnrol
<1>4. CASE UNCHANGED rows
  BY <1>3, <1>4, MarksUntouched DEF MarkAwaits, MarkSteps, InTransaction
<1>5. CASE Enrolled(r.user, r.lang) = {} /\ rows' = Append(rows, r)
  <2>1. /\ DOMAIN r = {"user", "lang", "marked", "live"} /\ r.marked = FALSE /\ r.live = TRUE
    BY <1>1 DEF Row
  <2>2. \A i \in DOMAIN rows : ~(rows[i].live /\ rows[i].user = r.user /\ rows[i].lang = r.lang)
    BY <1>5 DEF Enrolled, Live
  <2>3. LanguageTable(rows) /\ r.marked \in BOOLEAN /\ r.live \in BOOLEAN
    BY <2>1 DEF MarkInv
  <2>4. /\ LanguageTable(Append(rows, r)) /\ DOMAIN rows \subseteq DOMAIN Append(rows, r)
        /\ \A i \in DOMAIN rows : Append(rows, r)[i] = rows[i]
        /\ \A x : MarkedIn(Append(rows, r), x) =
             MarkedIn(rows, x) \cup {i \in {Len(rows) + 1} : r.live /\ r.user = x /\ r.marked}
    BY <2>1, <2>2, <2>3, TableGrows
  <2>5. \A x : Marked(x)' = MarkedIn(rows', x) /\ Marked(x) = MarkedIn(rows, x)
    BY DEF Marked, Live, MarkedIn
  <2>6. \A x : Marked(x)' \subseteq Marked(x)
    BY <1>5, <2>1, <2>4, <2>5
  <2>7. LanguageTable(rows') /\ RowsKept
    BY <1>5, <2>4 DEF RowsKept
  <2>8. \A q \in Slots : Stays(q) \/ at'[q] \notin MarkAwaits
    BY <1>3 DEF MarkAwaits, MarkSteps, InTransaction
  <2>9. \A q \in Slots : HoldsLanguage(q)'
    BY <2>7, <2>8, LanguageHeld
  <2>10. \A q \in Slots : at'[q] \in Relying => Stays(q)
    BY <2>8 DEF MarkAwaits, MarkSteps, Relying
  <2> QED BY <1>3, <2>6, <2>7, <2>9, <2>10, MarksCalm
<1> QED BY <1>1, <1>4, <1>5 DEF AutoEnrol, Insert

\* A language is given up: its mark is no mark any more.
LEMMA MarkRemoved ==
    ASSUME DOMAIN at = Slots, DOMAIN arg = Slots, MarkInv, RemoveLanguage
    PROVE  MarkInv'
<1>1. UNCHANGED <<at, arg, mixed>>
  BY DEF RemoveLanguage, Instant
<1>2. PICK i \in DOMAIN rows : rows' = [rows EXCEPT ![i].live = FALSE]
  BY DEF RemoveLanguage
<1>3. PICK r : r = [rows[i] EXCEPT !.live = FALSE]
  OBVIOUS
<1>4. LanguageTable(rows) /\ DOMAIN rows[i] = {"user", "lang", "marked", "live"} /\ rows[i].marked \in BOOLEAN
  BY DEF MarkInv, LanguageTable
<1>5. /\ DOMAIN r = {"user", "lang", "marked", "live"} /\ r.live = FALSE
      /\ r.user = rows[i].user /\ r.lang = rows[i].lang /\ r.marked = rows[i].marked
  BY <1>3, <1>4
<1>6. rows' = [rows EXCEPT ![i] = r]
  BY <1>2, <1>3
<1>7. /\ IsSequence(rows') /\ DOMAIN rows' = DOMAIN rows
      /\ \A j \in DOMAIN rows : rows'[j] = IF j = i THEN r ELSE rows[j]
  BY <1>4, <1>6, SequenceKept DEF LanguageTable
<1>8. LanguageTable(rows')
  BY <1>4, <1>5, <1>7 DEF LanguageTable
<1>9. RowsKept /\ \A x : Marked(x)' \subseteq Marked(x)
  BY <1>5, <1>7 DEF RowsKept, Marked, Live
<1>10. \A s \in Slots : Stays(s)
  BY <1>1 DEF Stays
<1>11. \A s \in Slots : HoldsLanguage(s)'
  BY <1>9, <1>10, LanguageHeld
<1> QED BY <1>1, <1>8, <1>9, <1>10, <1>11, MarksCalm DEF Relying


\* The other handlers of the languages read, or begin to change marks, or end.
LEMMA MarksLeft ==
    ASSUME DOMAIN at = Slots, DOMAIN arg = Slots, MarkInv, NEW s \in Slots,
           \/ AddLanguage(s) \/ HeaderRequest(s) \/ Fallback(s) \/ Resolve(s) \/ Lookup(s) \/ Fill(s)
           \/ CheckEnrolled(s) \/ LanguageFails(s)
    PROVE  MarkInv'
<1>1. UNCHANGED <<rows, mixed>>
  BY DEF AddLanguage, HeaderRequest, Fallback, Resolve, Lookup, Fill, CheckEnrolled, LanguageFails, languageVars
<1>2. PICK step \in {"idle", "clear"} \cup Resolving \cup Guarded : \E a : Moved(s, step, a)
  <2> USE HandlersMove DEF Resolving, Guarded
  <2>1. CASE AddLanguage(s) \/ HeaderRequest(s) \/ Fallback(s)
    BY <2>1 DEF AddLanguage, HeaderRequest, Fallback
  <2>2. CASE Resolve(s) \/ Lookup(s) \/ Fill(s)
    BY <2>2 DEF Resolve, Lookup, Fill
  <2>3. CASE CheckEnrolled(s) \/ LanguageFails(s)
    BY <2>3 DEF CheckEnrolled, Guarding, LanguageFails
  <2> QED BY <2>1, <2>2, <2>3
<1>3. /\ at'[s] = step
      /\ \A q \in Slots \ {s} : Stays(q)
  BY <1>2, MovesOne
<1>4. LanguageTable(rows') /\ \A x : Marked(x)' \subseteq Marked(x)
  BY <1>1 DEF MarkInv, Marked, Live
<1>5. ASSUME NEW q \in Slots PROVE HoldsLanguage(q)'
  <2>1. CASE q = s
    BY <1>3, <2>1 DEF HoldsLanguage, Resolving, Guarded, InTransaction
  <2>2. CASE q # s
    BY <1>1, <1>3, <2>2, LanguageHeld DEF RowsKept
  <2> QED BY <2>1, <2>2
<1>6. \A q \in Slots : at'[q] \in Relying => Stays(q)
  BY <1>3 DEF Resolving, Guarded, Relying, InTransaction
<1> QED BY <1>1, <1>4, <1>5, <1>6, MarksCalm

LEMMA MarkStep ==
    ASSUME DOMAIN at = Slots, DOMAIN arg = Slots, MarkInv, NEW s \in Slots, LanguageStep(s)
    PROVE  MarkInv'
  BY MarksLeft, MarksCleared, MarkInserted, MarkRead, MarkSaved, MarksListing, MarkListed, MarkEnrolled
     DEF LanguageStep

\* The invariant is the property, for every learner whose marks nobody mixed.
LEMMA MarkMeans ==
    ASSUME MarkInv
    PROVE  OneLastLearned
<1>1. ASSUME NEW u \in Learners \ mixed PROVE Cardinality(Marked(u)) <= 1
  <2>1. \A i, j \in Marked(u) : i = j
    BY DEF MarkInv, MarkedOnce
  <2>2. CASE Marked(u) = {}
    BY <2>2, FS_EmptySet
  <2>3. CASE Marked(u) # {}
    <3>1. PICK n \in Marked(u) : Marked(u) = {n}
      BY <2>1, <2>3
    <3>2. Cardinality(Marked(u)) = 1
      BY <3>1, FS_Singleton
    <3> QED BY <3>2
  <2> QED BY <2>2, <2>3
<1> QED BY <1>1 DEF OneLastLearned


-----------------------------------------------------------------------------
(* The cache. *)

CacheSteps == Resolving \cup Guarded

\* What StaleRead sees of a slot.
LEMMA AskedOf ==
    ASSUME NEW s \in Slots
    PROVE  /\ Asked[s] = IF at[s] \in CacheSteps /\ arg[s].op = "header"
                         THEN Stale!Question(arg[s].lang, arg[s].asked, IF at[s] \in Resolving THEN {} ELSE {TRUE})
                         ELSE {}
           /\ Asked'[s] = IF at'[s] \in CacheSteps /\ arg'[s].op = "header"
                          THEN Stale!Question(arg'[s].lang, arg'[s].asked, IF at'[s] \in Resolving THEN {} ELSE {TRUE})
                          ELSE {}
  BY DEF Asked, CacheSteps, Stale!Question

\* The clock goes on, and what a language last was it was no earlier.
HistoryGrows ==
    /\ HeldTypes' /\ HeldNow' /\ now <= now'
    /\ \A l \in Langs, v \in BOOLEAN : held[l][v] <= held'[l][v]

LEMMA LastHeld ==
    ASSUME HeldTypes, HistoryGrows, NEW l \in Langs
    PROVE  /\ LastActive(l) \in Int /\ LastActive(l)' \in Int
           /\ LastActive(l) <= LastActive(l)'
<1>1. held[l] \in [BOOLEAN -> Int] /\ held'[l] \in [BOOLEAN -> Int]
  BY DEF HeldTypes, HistoryGrows
<1>2. held[l][TRUE] \in Int /\ held'[l][TRUE] \in Int
  BY <1>1, Zenon
<1>3. held[l][TRUE] <= held'[l][TRUE]
  BY Zenon DEF HistoryGrows
<1> QED BY <1>2, <1>3, Zenon DEF LastActive

LEMMA LastNow ==
    ASSUME HeldNow, NEW l \in Langs, active[l]
    PROVE  LastActive(l) = now
<1>1. CASE active[l] = TRUE
  BY <1>1, Zenon DEF HeldNow, LastActive
<1> QED BY <1>1

LEMMA SameHistory ==
    ASSUME CacheInv, UNCHANGED <<active, now, held>>
    PROVE  HistoryGrows
  BY DEF CacheInv, HeldTypes, HeldNow, HistoryGrows

\* What a request knows stays true while it waits.
LEMMA RequestKept ==
    ASSUME CacheInv, HistoryGrows, NEW s \in Slots, Stays(s) \/ at'[s] \notin CacheSteps
    PROVE  HoldsRequest(s)'
<1>1. CASE at'[s] \notin CacheSteps
  BY <1>1 DEF HoldsRequest, CacheSteps, Resolving, Guarded
<1>2. CASE Stays(s) /\ at[s] \in CacheSteps
  <2>1. HoldsRequest(s) /\ at'[s] = at[s] /\ arg'[s] = arg[s]
    BY <1>2 DEF CacheInv, Stays
  <2>2. now \in Nat /\ now' \in Nat /\ now <= now'
    BY DEF CacheInv, HeldTypes, HistoryGrows
  <2>3. ASSUME at[s] \in Resolving \cup Guarded, arg[s].op = "header"
        PROVE  arg[s].from \in Nat /\ arg[s].from <= now'
    BY <2>1, <2>2, <2>3 DEF HoldsRequest
  <2>4. ASSUME at[s] = "fill" PROVE FoundActive(s)'
    <3>1. PICK l, t : l = arg[s].lang /\ t = arg[s].from
      OBVIOUS
    <3>2. l \in Langs /\ t \in Nat /\ LastActive(l) >= t
      BY <2>1, <2>4, <3>1 DEF HoldsRequest, FoundActive, Resolving
    <3>3. LastActive(l)' >= t
      BY <3>2, LastHeld DEF CacheInv
    <3> QED BY <2>1, <3>1, <3>3, Zenon DEF FoundActive, LastActive
  <2> QED BY <2>1, <2>3, <2>4 DEF HoldsRequest
<1> QED BY <1>1, <1>2 DEF Stays

\* The cache keeps entries, and loses some.
LEMMA CacheKept ==
    ASSUME CacheInv, HistoryGrows, \A s \in Slots : HoldsRequest(s)',
           \A l \in DOMAIN cache' : l \in DOMAIN cache /\ cache'[l].expires = cache[l].expires
    PROVE  CacheInv'
<1>1. ASSUME NEW l \in DOMAIN cache' PROVE EntryHeld(l)'
  <2>1. /\ l \in Langs /\ cache[l].expires \in Int /\ LastActive(l) >= cache[l].expires - Ttl
        /\ cache'[l].expires = cache[l].expires
    BY <1>1 DEF CacheInv, EntryHeld
  <2>2. LastActive(l) \in Int /\ LastActive(l)' \in Int /\ LastActive(l) <= LastActive(l)' /\ Ttl \in Int
    BY <2>1, LastHeld, LanguagesAssumption DEF CacheInv
  <2> QED BY <2>1, <2>2 DEF EntryHeld
<1> QED BY <1>1 DEF CacheInv, HistoryGrows

\* A handler that asks nothing new and is told nothing.
Quiet(s) ==
    \/ Stays(s)
    \/ at'[s] \notin CacheSteps
    \/ at'[s] = "mark" /\ arg'[s].op # "header" /\ at[s] \notin CacheSteps
    \/ at[s] \in {"enrolled", "enrol"} /\ at'[s] \in Guarded /\ arg'[s] = arg[s]
    \/ at[s] = "lookup" /\ at'[s] = "fill" /\ arg'[s] = arg[s] /\ active[arg[s].lang]

\* Such a step is that of requests that leave.
LEMMA QuietStep ==
    ASSUME CacheInv, UNCHANGED <<active, now, held>>, cache' = cache \/ cache' = << >>,
           \A s \in Slots : Quiet(s)
    PROVE  CacheInv' /\ Stale!Next
<1>1. HistoryGrows
  BY SameHistory
<1>2. ASSUME NEW s \in Slots, ~Stays(s), at'[s] \in CacheSteps
      PROVE  HoldsRequest(s)' /\ Asked'[s] = Asked[s]
  <2>0. HoldsRequest(s) /\ HeldTypes /\ HeldNow
    BY DEF CacheInv
  <2>1. CASE at'[s] = "mark" /\ arg'[s].op # "header" /\ at[s] \notin CacheSteps
    BY <2>1, AskedOf DEF HoldsRequest, Resolving
  <2>2. CASE at[s] \in {"enrolled", "enrol"} /\ at'[s] \in Guarded /\ arg'[s] = arg[s]
    BY <2>0, <2>2, AskedOf DEF HoldsRequest, Resolving, Guarded, CacheSteps
  <2>3. CASE at[s] = "lookup" /\ at'[s] = "fill" /\ arg'[s] = arg[s] /\ active[arg[s].lang]
    <3>1. Asked'[s] = Asked[s]
      BY <2>3, AskedOf DEF Resolving, CacheSteps
    <3>2. arg[s].op = "header" /\ arg[s].lang \in Langs /\ arg[s].from \in Nat /\ arg[s].from <= now
      BY <2>0, <2>3 DEF HoldsRequest, Resolving
    <3>3. PICK l : l = arg[s].lang
      OBVIOUS
    <3>4. LastActive(l)' = now /\ now \in Nat /\ now' = now
      BY <2>0, <2>3, <3>2, <3>3, LastNow DEF LastActive, HeldTypes
    <3>5. LastActive(l)' >= arg[s].from
      BY <3>2, <3>4
    <3>6. FoundActive(s)'
      BY <2>3, <3>3, <3>5, Zenon DEF FoundActive, LastActive
    <3> QED BY <2>0, <2>3, <3>1, <3>2, <3>4, <3>6 DEF HoldsRequest, Resolving, Guarded
  <2> QED BY <1>2, <2>1, <2>2, <2>3 DEF Quiet
<1>3. \A s \in Slots : HoldsRequest(s)'
  BY <1>1, <1>2, RequestKept
<1>4. CacheInv'
  BY <1>1, <1>3, CacheKept
<1> DEFINE R == {s \in Slots : at'[s] \notin CacheSteps}
<1>5. ASSUME NEW s \in Slots PROVE Asked'[s] = IF s \in R THEN {} ELSE Asked[s]
  <2>1. CASE s \in R
    BY <2>1, AskedOf
  <2>2. CASE s \notin R
    BY <1>2, <2>2, AskedOf DEF Stays
  <2> QED BY <2>1, <2>2
<1>6. Asked' = [s \in Slots |-> IF s \in R THEN {} ELSE Asked[s]]
  BY <1>5 DEF Asked
<1>7. R \in SUBSET Slots
  OBVIOUS
<1> HIDE DEF R
<1>8. Stale!Leave(R)
  BY <1>6 DEF Stale!Leave
<1> QED BY <1>4, <1>7, <1>8 DEF Stale!Next

\* Nobody tells the cache that a language is switched on or off.
LEMMA SwitchStep ==
    ASSUME CacheInv, NEW l \in Langs, SetActive(l)
    PROVE  CacheInv' /\ Stale!Next
<1>1. /\ active' = [active EXCEPT ![l] = ~active[l]]
      /\ held' = [held EXCEPT ![l][~active[l]] = now]
      /\ UNCHANGED <<at, arg, cache, now>>
  BY DEF SetActive, Instant
<1>2. HeldTypes /\ HeldNow
  BY DEF CacheInv
<1>3. active[l] \in BOOLEAN
  BY <1>2 DEF HeldTypes
<1>4. HeldTypes' /\ HeldNow'
  <2>1. now \in Int
    BY <1>2 DEF HeldTypes
  <2>2. held' \in [Langs -> [BOOLEAN -> Int]] /\ active' \in [Langs -> BOOLEAN]
    BY <1>1, <1>2, <1>3, <2>1 DEF HeldTypes
  <2>3. \A k \in Langs, v \in BOOLEAN : held'[k][v] = IF k = l /\ v = (~active[l]) THEN now ELSE held[k][v]
    BY <1>1, <1>2, <1>3 DEF HeldTypes
  <2>4. \A k \in Langs : active'[k] = IF k = l THEN ~active[l] ELSE active[k]
    BY <1>1, <1>2 DEF HeldTypes
  <2>5. HeldTypes'
    BY <1>1, <1>2, <2>1, <2>2, <2>3 DEF HeldTypes
  <2>6. HeldNow'
    BY <1>1, <1>2, <1>3, <2>3, <2>4 DEF HeldTypes, HeldNow
  <2> QED BY <2>5, <2>6
<1>5. HistoryGrows
  BY <1>1, <1>2, <1>3, <1>4 DEF HeldTypes, HistoryGrows
<1>6. \A s \in Slots : Stays(s)
  BY <1>1 DEF Stays
<1>7. CacheInv'
  BY <1>1, <1>5, <1>6, RequestKept, CacheKept
<1>8. Asked' = Asked
  BY <1>1 DEF Asked
<1>9. Stale!Write(l, ~active[l])
  BY <1>1, <1>8 DEF Stale!Write
<1> QED BY <1>3, <1>7, <1>9 DEF Stale!Next

\* An hour is a tick.
LEMMA TickStep ==
    ASSUME CacheInv, Tick
    PROVE  CacheInv' /\ Stale!Next
<1>1. /\ now' = now + 1
      /\ held' = [l \in Langs |-> [held[l] EXCEPT ![active[l]] = now']]
      /\ UNCHANGED <<at, arg, active, cache>>
  BY DEF Tick, handlerVars
<1>2. HeldTypes /\ HeldNow
  BY DEF CacheInv
<1>3. HeldTypes' /\ HeldNow'
  BY <1>1, <1>2 DEF HeldTypes, HeldNow
<1>4. HistoryGrows
  BY <1>1, <1>2, <1>3 DEF HeldTypes, HistoryGrows
<1>5. \A s \in Slots : Stays(s)
  BY <1>1 DEF Stays
<1>6. CacheInv'
  BY <1>1, <1>4, <1>5, RequestKept, CacheKept
<1>7. Asked' = Asked
  BY <1>1 DEF Asked
<1>8. Stale!Tick
  BY <1>1, <1>7 DEF Stale!Tick
<1> QED BY <1>6, <1>8 DEF Stale!Next


\* One handler moves: what StaleRead sees of the others is as before.
LEMMA OneAsks ==
    ASSUME DOMAIN at = Slots, DOMAIN arg = Slots, NEW s \in Slots, NEW step, NEW a, Moved(s, step, a)
    PROVE  /\ at'[s] = step /\ arg'[s] = a
           /\ \A r \in Slots \ {s} : Stays(r)
           /\ step \in Resolving /\ a.op = "header" =>
                Asked' = [Asked EXCEPT ![s] = Stale!Question(a.lang, a.asked, {})]
           /\ step = "enrolled" /\ a.op = "header" =>
                Asked' = [Asked EXCEPT ![s] = Stale!Question(a.lang, a.asked, {TRUE})]
<1>1. /\ at'[s] = step /\ arg'[s] = a
      /\ \A r \in Slots \ {s} : Stays(r)
  BY MovesOne
<1>2. \A r \in Slots \ {s} : Asked'[r] = Asked[r]
  BY <1>1, AskedOf DEF Stays
<1>3. \A x : Asked'[s] = x => Asked' = [Asked EXCEPT ![s] = x]
  BY <1>2 DEF Asked
<1>4. step \in Resolving /\ a.op = "header" => Asked'[s] = Stale!Question(a.lang, a.asked, {})
  BY <1>1, AskedOf DEF CacheSteps
<1>5. step = "enrolled" /\ a.op = "header" => Asked'[s] = Stale!Question(a.lang, a.asked, {TRUE})
  BY <1>1, AskedOf DEF CacheSteps, Resolving, Guarded
<1> QED BY <1>1, <1>3, <1>4, <1>5

\* A request that waits is given its language.
LEMMA LanguageGiven ==
    ASSUME NEW s \in Slots, NEW l, NEW t, Asked[s] = Stale!Question(l, t, {}),
           LastActive(l) >= t - Ttl, UNCHANGED <<active, now, held>>,
           Asked' = [Asked EXCEPT ![s] = Stale!Question(l, t, {TRUE})]
    PROVE  Stale!Next
<1>1. PICK q : q = [key |-> l, since |-> t, told |-> {}]
  OBVIOUS
<1>2. q \in Asked[s] /\ q.key = l /\ q.since = t /\ q.told = {}
  BY <1>1 DEF Stale!Question
<1>3. held[q.key][TRUE] >= q.since - Ttl
  BY <1>2, Zenon DEF LastActive
<1>4. Asked' = [Asked EXCEPT ![s] = Stale!Question(q.key, q.since, {TRUE})]
  BY <1>2
<1>5. Stale!Answer(s, TRUE)
  BY <1>2, <1>3, <1>4, Zenon DEF Stale!Answer
<1>6. TRUE \in BOOLEAN
  OBVIOUS
<1> QED BY <1>5, <1>6, Zenon DEF Stale!Next

\* A request names a language, and is served from the cache or waits for a query.
LEMMA RequestAsks ==
    ASSUME DOMAIN at = Slots, DOMAIN arg = Slots, CacheInv, NEW s \in Slots, HeaderRequest(s)
    PROVE  CacheInv' /\ Stale!Next
<1>1. PICK u \in Learners, l \in Langs, route \in {"strict", "enrolling", "listing"} :
        Begin(s, "header request", "resolve",
              [op |-> "header", user |-> u, lang |-> l, route |-> route, asked |-> now, from |-> now])
  BY DEF HeaderRequest
<1>2. PICK a : a = [op |-> "header", user |-> u, lang |-> l, route |-> route, asked |-> now, from |-> now]
  OBVIOUS
<1>3. /\ a.op = "header" /\ a.lang = l /\ a.asked = now /\ a.from = now
      /\ DOMAIN a = {"op", "user", "lang", "route", "asked", "from"}
  BY <1>2
<1>4. Moved(s, "resolve", a) /\ UNCHANGED languageVars
  BY <1>1, <1>2, HandlersMove DEF HeaderRequest
<1>5. /\ at'[s] = "resolve" /\ arg'[s] = a
      /\ \A r \in Slots \ {s} : Stays(r)
      /\ Asked' = [Asked EXCEPT ![s] = Stale!Question(l, now, {})]
  BY <1>3, <1>4, OneAsks DEF Resolving
<1>6. HistoryGrows /\ UNCHANGED <<active, now, held, cache>> /\ now \in Nat
  BY <1>4, SameHistory DEF languageVars, CacheInv, HeldTypes
<1>7. HoldsRequest(s)'
  BY <1>3, <1>5, <1>6 DEF HoldsRequest
<1>8. CacheInv'
  BY <1>5, <1>6, <1>7, RequestKept, CacheKept
<1>9. Stale!Ask(s, l)
  BY <1>5, <1>6 DEF Stale!Ask
<1> QED BY <1>8, <1>9 DEF Stale!Next

LEMMA RequestResolved ==
    ASSUME DOMAIN at = Slots, DOMAIN arg = Slots, CacheInv, NEW s \in Slots, Resolve(s)
    PROVE  CacheInv' /\ [Stale!Next]_(Stale!vars)
<1>1. PICK l, a : l = arg[s].lang /\ a = arg[s]
  OBVIOUS
<1>2. at[s] = "resolve" /\ UNCHANGED languageVars
  BY DEF Resolve
<1>3. /\ a.op = "header" /\ l \in Langs /\ a.lang = l
      /\ DOMAIN a = {"op", "user", "lang", "route", "asked", "from"}
      /\ a.asked \in Nat /\ a.from \in Nat /\ a.asked <= a.from /\ a.from <= now
  BY <1>1, <1>2 DEF CacheInv, HoldsRequest, Resolving
<1>4. HistoryGrows /\ UNCHANGED <<active, now, held, cache>> /\ now \in Nat
  BY <1>2, SameHistory DEF languageVars, CacheInv, HeldTypes
<1>5. Asked[s] = Stale!Question(l, a.asked, {})
  BY <1>1, <1>2, <1>3, AskedOf DEF CacheSteps, Resolving
<1>6. CASE Cached(l)
  <2>1. Moved(s, "enrolled", a)
    BY <1>1, <1>6, HandlersMove DEF Resolve
  <2>2. /\ at'[s] = "enrolled" /\ arg'[s] = a
        /\ \A r \in Slots \ {s} : Stays(r)
        /\ Asked' = [Asked EXCEPT ![s] = Stale!Question(l, a.asked, {TRUE})]
    BY <1>3, <2>1, OneAsks
  <2>3. HoldsRequest(s)'
    BY <1>3, <1>4, <2>2 DEF HoldsRequest
  <2>4. CacheInv'
    BY <1>4, <2>2, <2>3, RequestKept, CacheKept
  <2>5. /\ cache[l].expires \in Int /\ cache[l].expires > now /\ LastActive(l) >= cache[l].expires - Ttl
    BY <1>6 DEF Cached, CacheInv, EntryHeld
  <2>6. LastActive(l) \in Int /\ Ttl \in Int
    BY <1>3, <1>4, LastHeld, LanguagesAssumption DEF CacheInv
  <2>7. LastActive(l) >= a.asked - Ttl
    BY <1>3, <1>4, <2>5, <2>6
  <2> QED BY <1>4, <1>5, <2>2, <2>4, <2>7, LanguageGiven
<1>7. CASE ~Cached(l)
  <2>1. PICK b : b = [arg[s] EXCEPT !.from = now]
    OBVIOUS
  <2>2. /\ b.op = "header" /\ b.lang = l /\ b.asked = a.asked /\ b.from = now
        /\ DOMAIN b = {"op", "user", "lang", "route", "asked", "from"}
    BY <1>1, <1>3, <2>1
  <2>3. Moved(s, "lookup", b)
    BY <1>1, <1>7, <2>1, HandlersMove DEF Resolve
  <2>4. /\ at'[s] = "lookup" /\ arg'[s] = b
        /\ \A r \in Slots \ {s} : Stays(r)
        /\ Asked' = [Asked EXCEPT ![s] = Stale!Question(l, a.asked, {})]
    BY <2>2, <2>3, OneAsks DEF Resolving
  <2>5. Asked' = Asked
    BY <1>5, <2>4 DEF Asked
  <2>6. HoldsRequest(s)'
    BY <1>3, <1>4, <2>2, <2>4 DEF HoldsRequest
  <2>7. CacheInv'
    BY <1>4, <2>4, <2>6, RequestKept, CacheKept
  <2> QED BY <1>4, <2>5, <2>7 DEF Stale!vars
<1> QED BY <1>6, <1>7

\* The answer of a query is put in the cache, with the time to live of the request.
LEMMA RequestFilled ==
    ASSUME DOMAIN at = Slots, DOMAIN arg = Slots, CacheInv, NEW s \in Slots, Fill(s)
    PROVE  CacheInv' /\ Stale!Next
<1>1. PICK l, a, S : l = arg[s].lang /\ a = arg[s] /\ S = Room(Kept(arg[s].from))
  OBVIOUS
<1>2. /\ at[s] = "fill" /\ UNCHANGED <<active, now, held>>
      /\ cache' = Put(S, l, a.from + Ttl)
      /\ Moved(s, "enrolled", a)
  BY <1>1, HandlersMove DEF Fill
<1>3. /\ a.op = "header" /\ l \in Langs /\ a.lang = l
      /\ DOMAIN a = {"op", "user", "lang", "route", "asked", "from"}
      /\ a.asked \in Nat /\ a.from \in Nat /\ a.asked <= a.from /\ a.from <= now
      /\ LastActive(l) >= a.from
  BY <1>1, <1>2 DEF CacheInv, HoldsRequest, FoundActive, Resolving
<1>4. HistoryGrows /\ now \in Nat
  BY <1>2, SameHistory DEF CacheInv, HeldTypes
<1>5. Asked[s] = Stale!Question(l, a.asked, {})
  BY <1>1, <1>2, <1>3, AskedOf DEF CacheSteps, Resolving
<1>6. /\ at'[s] = "enrolled" /\ arg'[s] = a
      /\ \A r \in Slots \ {s} : Stays(r)
      /\ Asked' = [Asked EXCEPT ![s] = Stale!Question(l, a.asked, {TRUE})]
  BY <1>2, <1>3, OneAsks
<1>7. \A r \in Slots : HoldsRequest(r)'
  <2>1. HoldsRequest(s)'
    BY <1>2, <1>3, <1>6 DEF HoldsRequest
  <2> QED BY <1>4, <1>6, <2>1, RequestKept
<1>8. S \subseteq DOMAIN cache
  BY <1>1 DEF Room, Kept
<1>9. LastActive(l) \in Int /\ Ttl \in Int
  BY <1>3, <1>4, LastHeld, LanguagesAssumption DEF CacheInv
<1>10. ASSUME NEW k \in DOMAIN cache' PROVE EntryHeld(k)'
  <2>1. k \in S \cup {l} /\ cache'[k].expires = IF k = l THEN a.from + Ttl ELSE cache[k].expires
    BY <1>2, <1>10 DEF Put
  <2>2. LastActive(k)' = LastActive(k)
    BY <1>2 DEF LastActive
  <2>3. CASE k = l
    <3>1. PICK e : e = a.from + Ttl
      OBVIOUS
    <3>2. e \in Int /\ LastActive(l) >= e - Ttl
      BY <1>3, <1>9, <3>1
    <3> QED BY <1>3, <2>1, <2>2, <2>3, <3>1, <3>2 DEF EntryHeld
  <2>4. CASE k # l
    <3>1. EntryHeld(k) /\ cache'[k].expires = cache[k].expires
      BY <1>8, <2>1, <2>4 DEF CacheInv
    <3> QED BY <2>2, <3>1 DEF EntryHeld
  <2> QED BY <2>3, <2>4
<1>11. CacheInv'
  BY <1>4, <1>7, <1>10 DEF CacheInv, HistoryGrows
<1>12. LastActive(l) >= a.asked - Ttl
  BY <1>3, <1>9, LanguagesAssumption
<1> QED BY <1>2, <1>5, <1>6, <1>11, <1>12, LanguageGiven

\* The other handlers of the languages ask nothing.
LEMMA RequestsLeft ==
    ASSUME DOMAIN at = Slots, DOMAIN arg = Slots, CacheInv, NEW s \in Slots,
           \/ AddLanguage(s) \/ Clear(s) \/ InsertMarked(s) \/ UpdateLanguage(s) \/ SaveLanguage(s)
           \/ Fallback(s) \/ Lookup(s) \/ CheckEnrolled(s) \/ AutoEnrol(s) \/ ClearLearned(s)
           \/ MarkLastLearned(s) \/ LanguageFails(s)
    PROVE  CacheInv' /\ Stale!Next
<1>1. UNCHANGED <<active, cache, now, held>>
  BY DEF AddLanguage, Clear, InsertMarked, UpdateLanguage, SaveLanguage, Fallback, Lookup,
         CheckEnrolled, AutoEnrol, ClearLearned, MarkLastLearned, LanguageFails, languageVars
<1>2. ASSUME NEW step, NEW a, Moved(s, step, a)
      PROVE  /\ at'[s] = step /\ arg'[s] = a
             /\ \A r \in Slots \ {s} : Stays(r)
  BY <1>2, MovesOne
<1>3. Quiet(s) /\ \A r \in Slots \ {s} : Stays(r)
  <2>1. ASSUME NEW step \in {"idle"} \cup MarkSteps, NEW a, Moved(s, step, a)
        PROVE  Quiet(s) /\ \A r \in Slots \ {s} : Stays(r)
    <3>1. step \notin CacheSteps
      BY <2>1 DEF CacheSteps, Resolving, Guarded, MarkSteps
    <3> QED BY <1>2, <2>1, <3>1 DEF Quiet
  <2>2. CASE AddLanguage(s) \/ UpdateLanguage(s)
    BY <2>1, <2>2, HandlersMove DEF AddLanguage, UpdateLanguage, MarkSteps
  <2>3. CASE Clear(s) \/ ClearLearned(s)
    BY <2>1, <2>3, HandlersMove DEF Clear, ClearLearned, MarkSteps
  <2>4. CASE InsertMarked(s) \/ SaveLanguage(s) \/ MarkLastLearned(s) \/ LanguageFails(s)
    <3>1. Moved(s, "idle", Nothing)
      BY <2>4, HandlersMove DEF InsertMarked, SaveLanguage, MarkLastLearned, LanguageFails
    <3> QED BY <2>1, <3>1
  <2>5. CASE Fallback(s)
    <3>1. PICK u, l : /\ at[s] = "idle"
                      /\ Moved(s, "mark", [op |-> "fallback", user |-> u, lang |-> l])
      BY <2>5, HandlersMove DEF Fallback
    <3>2. at'[s] = "mark" /\ arg'[s].op # "header" /\ \A r \in Slots \ {s} : Stays(r)
      BY <1>2, <3>1
    <3> QED BY <3>1, <3>2 DEF Quiet, CacheSteps, Resolving, Guarded
  <2>6. CASE Lookup(s)
    <3>1. CASE active[arg[s].lang] /\ Go(s, "fill", arg[s])
      <4>1. Moved(s, "fill", arg[s]) /\ at[s] = "lookup"
        BY <2>6, <3>1, HandlersMove DEF Lookup
      <4> QED BY <1>2, <3>1, <4>1 DEF Quiet
    <3>2. CASE End(s)
      BY <2>1, <3>2, HandlersMove
    <3> QED BY <2>6, <3>1, <3>2 DEF Lookup
  <2>7. CASE CheckEnrolled(s) \/ AutoEnrol(s)
    <3>1. at[s] \in {"enrolled", "enrol"}
      BY <2>7 DEF CheckEnrolled, AutoEnrol
    <3>2. Moved(s, "idle", Nothing) \/ \E step \in {"mark", "enrol"} : Moved(s, step, arg[s])
      BY <2>7, HandlersMove DEF CheckEnrolled, AutoEnrol, Guarding
    <3>3. CASE Moved(s, "idle", Nothing)
      BY <2>1, <3>3
    <3>4. ASSUME NEW step \in {"mark", "enrol"}, Moved(s, step, arg[s])
          PROVE  Quiet(s) /\ \A r \in Slots \ {s} : Stays(r)
      BY <1>2, <3>1, <3>4 DEF Quiet, Guarded
    <3> QED BY <3>2, <3>3, <3>4
  <2> QED BY <2>2, <2>3, <2>4, <2>5, <2>6, <2>7
<1>4. \A r \in Slots : Quiet(r)
  BY <1>3 DEF Quiet
<1> QED BY <1>1, <1>4, QuietStep

LEMMA CacheStep ==
    ASSUME DOMAIN at = Slots, DOMAIN arg = Slots, CacheInv, NEW s \in Slots, LanguageStep(s)
    PROVE  CacheInv' /\ [Stale!Next]_(Stale!vars)
  BY RequestAsks, RequestResolved, RequestFilled, RequestsLeft DEF LanguageStep

\* The handlers of other modules, and a restart.
LEMMA CacheUntouched ==
    ASSUME CacheInv, UNCHANGED <<active, now, held>>, cache' = cache \/ cache' = << >>,
           \A s \in Slots : Stays(s) \/ at'[s] \notin CacheSteps
    PROVE  CacheInv' /\ [Stale!Next]_(Stale!vars)
  BY QuietStep DEF Quiet

\* Nothing is cached and nobody waits.
LEMMA CacheStart ==
    ASSUME HandlersInit, LanguagesInit
    PROVE  CacheInv /\ Stale!Init
<1>1. /\ \A s \in Slots : at[s] = "idle"
      /\ active = [l \in Langs |-> TRUE] /\ now = 0 /\ cache = << >>
      /\ held = [l \in Langs |-> [v \in BOOLEAN |-> IF active[l] = v THEN 0 ELSE Stale!Never]]
  BY DEF HandlersInit, LanguagesInit
<1>2. Stale!Never \in Int /\ Stale!Never <= 0
  BY LanguagesAssumption DEF Stale!Never
<1>3. HeldTypes
  <2>1. \A l \in Langs, v \in BOOLEAN : held[l][v] \in {0, Stale!Never}
    BY <1>1
  <2>2. \A n \in {0, Stale!Never} : n \in Int /\ n <= now
    BY <1>1, <1>2
  <2>3. held \in [Langs -> [BOOLEAN -> {0, Stale!Never}]]
    BY <1>1
  <2>4. held \in [Langs -> [BOOLEAN -> Int]]
    BY <2>2, <2>3
  <2>5. active \in [Langs -> BOOLEAN] /\ now \in Nat
    BY <1>1
  <2> QED BY <2>1, <2>2, <2>4, <2>5 DEF HeldTypes
<1>4. HeldNow
  BY <1>1 DEF HeldNow
<1>5. \A s \in Slots : HoldsRequest(s)
  BY <1>1 DEF HoldsRequest, Resolving, Guarded
<1>6. CacheInv
  BY <1>1, <1>3, <1>4, <1>5 DEF CacheInv
<1>7. \A s \in Slots : at[s] \notin CacheSteps
  BY <1>1 DEF CacheSteps, Resolving, Guarded
<1>8. Asked = [s \in Slots |-> {}]
  BY <1>7 DEF Asked, CacheSteps
<1>9. Stale!Init
  BY <1>1, <1>8 DEF Stale!Init
<1> QED BY <1>6, <1>9

-----------------------------------------------------------------------------
(* The conversations: what the turns at work have stored and will count. *)

One(p) == IF p THEN 1 ELSE 0

LEMMA SlotSet ==
    ASSUME NEW S \in SUBSET Slots
    PROVE  Cardinality(S) \in Nat
  BY IntakeAssumption, FS_Subset, FS_CardinalityType

\* A set of slots that changes by one slot.
LEMMA OneSlot ==
    ASSUME NEW S \in SUBSET Slots, NEW T \in SUBSET Slots, NEW s \in Slots, S \ {s} = T \ {s}
    PROVE  /\ Cardinality(S) \in Nat /\ Cardinality(T) \in Nat /\ Cardinality(Slots) \in Nat
           /\ Cardinality(S) <= Cardinality(Slots) /\ Cardinality(T) <= Cardinality(Slots)
           /\ Cardinality(T) + One(s \in S) = Cardinality(S) + One(s \in T)
<1>1. IsFiniteSet(Slots)
  BY IntakeAssumption
<1>2. /\ IsFiniteSet(S) /\ IsFiniteSet(T)
      /\ Cardinality(S) <= Cardinality(Slots) /\ Cardinality(T) <= Cardinality(Slots)
  BY <1>1, FS_Subset
<1>3. Cardinality(S) \in Nat /\ Cardinality(T) \in Nat /\ Cardinality(Slots) \in Nat
  BY <1>1, <1>2, FS_CardinalityType
<1>4. ASSUME NEW R \in SUBSET Slots, IsFiniteSet(R)
      PROVE  Cardinality(R) = Cardinality(R \ {s}) + One(s \in R) /\ Cardinality(R \ {s}) \in Nat
  <2>1. IsFiniteSet(R \ {s}) /\ Cardinality(R \ {s}) = IF s \in R THEN Cardinality(R) - 1 ELSE Cardinality(R)
    BY <1>4, FS_RemoveElement
  <2>2. Cardinality(R \ {s}) \in Nat /\ Cardinality(R) \in Nat
    BY <1>4, <2>1, FS_CardinalityType
  <2> QED BY <2>1, <2>2 DEF One
<1>5. /\ Cardinality(S) = Cardinality(S \ {s}) + One(s \in S) /\ Cardinality(S \ {s}) \in Nat
      /\ Cardinality(T) = Cardinality(T \ {s}) + One(s \in T)
  BY <1>2, <1>4
<1>6. PICK R : R = S \ {s} /\ R = T \ {s}
  OBVIOUS
<1>7. Cardinality(S) = Cardinality(R) + One(s \in S) /\ Cardinality(T) = Cardinality(R) + One(s \in T)
  BY <1>5, <1>6
<1>8. PICK m, n, j, k, l : m = Cardinality(S) /\ n = Cardinality(T) /\ j = One(s \in S) /\ k = One(s \in T) /\ l = Cardinality(R)
  OBVIOUS
<1>9. j \in Nat /\ k \in Nat
  BY <1>8 DEF One
<1>10. m = l + j /\ n = l + k /\ l \in Nat
  BY <1>5, <1>6, <1>7, <1>8
<1>11. n + j = m + k
  BY <1>9, <1>10
<1> QED BY <1>2, <1>3, <1>8, <1>11

\* What the turns at work have stored in c and not counted, and what they will count.
Owed(c) == Cardinality(Spoken(c)) + Cardinality(Answered(c))
Coming(c) == Cardinality(AtWork(c)) + Cardinality(Speaking(c))
OwedBy(s, c) == One(s \in Spoken(c)) + One(s \in Answered(c))
ComingBy(s, c) == One(s \in AtWork(c)) + One(s \in Speaking(c))

LEMMA OneTurn ==
    ASSUME NEW s \in Slots, \A r \in Slots \ {s} : Stays(r), NEW c
    PROVE  /\ Owed(c) \in Nat /\ Owed(c)' \in Nat /\ Coming(c) \in Nat /\ Coming(c)' \in Nat
           /\ OwedBy(s, c) \in 0 .. 2 /\ OwedBy(s, c)' \in 0 .. 2
           /\ ComingBy(s, c) \in 0 .. 2 /\ ComingBy(s, c)' \in 0 .. 2
           /\ Owed(c)' + OwedBy(s, c) = Owed(c) + OwedBy(s, c)'
           /\ Coming(c)' + ComingBy(s, c) = Coming(c) + ComingBy(s, c)'
           /\ Cardinality(Slots) \in Nat /\ Coming(c)' <= 2 * Cardinality(Slots)
<1>1. PICK A, B, C, D : A = Spoken(c) /\ B = Answered(c) /\ C = AtWork(c) /\ D = Speaking(c)
  OBVIOUS
<1>2. PICK F, G, H, I : F = Spoken(c)' /\ G = Answered(c)' /\ H = AtWork(c)' /\ I = Speaking(c)'
  OBVIOUS
<1>3. A \ {s} = F \ {s} /\ A \in SUBSET Slots /\ F \in SUBSET Slots
  BY <1>1, <1>2 DEF Spoken, Stays
<1>4. B \ {s} = G \ {s} /\ B \in SUBSET Slots /\ G \in SUBSET Slots
  BY <1>1, <1>2 DEF Answered, Stays
<1>5. C \ {s} = H \ {s} /\ C \in SUBSET Slots /\ H \in SUBSET Slots
  BY <1>1, <1>2 DEF AtWork, Stays
<1>6. D \ {s} = I \ {s} /\ D \in SUBSET Slots /\ I \in SUBSET Slots
  BY <1>1, <1>2 DEF Speaking, AtWork, Stays
<1>7. /\ Cardinality(A) \in Nat /\ Cardinality(F) \in Nat
      /\ Cardinality(F) + One(s \in A) = Cardinality(A) + One(s \in F)
  BY <1>3, OneSlot
<1>8. /\ Cardinality(B) \in Nat /\ Cardinality(G) \in Nat
      /\ Cardinality(G) + One(s \in B) = Cardinality(B) + One(s \in G)
  BY <1>4, OneSlot
<1>9. /\ Cardinality(C) \in Nat /\ Cardinality(H) \in Nat /\ Cardinality(Slots) \in Nat
      /\ Cardinality(H) <= Cardinality(Slots)
      /\ Cardinality(H) + One(s \in C) = Cardinality(C) + One(s \in H)
  BY <1>5, OneSlot
<1>10. /\ Cardinality(D) \in Nat /\ Cardinality(I) \in Nat
       /\ Cardinality(I) <= Cardinality(Slots)
       /\ Cardinality(I) + One(s \in D) = Cardinality(D) + One(s \in I)
  BY <1>6, OneSlot
<1>11. \A p : One(p) \in 0 .. 1
  BY DEF One
<1>12. /\ Owed(c) = Cardinality(A) + Cardinality(B) /\ Coming(c) = Cardinality(C) + Cardinality(D)
       /\ OwedBy(s, c) = One(s \in A) + One(s \in B) /\ ComingBy(s, c) = One(s \in C) + One(s \in D)
  BY <1>1 DEF Owed, Coming, OwedBy, ComingBy
<1>13. /\ Owed(c)' = Cardinality(F) + Cardinality(G) /\ Coming(c)' = Cardinality(H) + Cardinality(I)
       /\ OwedBy(s, c)' = One(s \in F) + One(s \in G) /\ ComingBy(s, c)' = One(s \in H) + One(s \in I)
  BY <1>2 DEF Owed, Coming, OwedBy, ComingBy
<1> HIDE DEF One
<1>14. /\ OwedBy(s, c) \in 0 .. 2 /\ OwedBy(s, c)' \in 0 .. 2
       /\ ComingBy(s, c) \in 0 .. 2 /\ ComingBy(s, c)' \in 0 .. 2
  BY <1>11, <1>12, <1>13
<1>15. One(s \in A) \in 0 .. 1 /\ One(s \in B) \in 0 .. 1 /\ One(s \in F) \in 0 .. 1 /\ One(s \in G) \in 0 .. 1
  BY <1>11
<1>16. One(s \in C) \in 0 .. 1 /\ One(s \in D) \in 0 .. 1 /\ One(s \in H) \in 0 .. 1 /\ One(s \in I) \in 0 .. 1
  BY <1>11
<1>17. Owed(c)' + OwedBy(s, c) = Owed(c) + OwedBy(s, c)'
  BY <1>7, <1>8, <1>12, <1>13, <1>15
<1>18. Coming(c)' + ComingBy(s, c) = Coming(c) + ComingBy(s, c)'
  BY <1>9, <1>10, <1>12, <1>13, <1>16
<1>19. Coming(c)' <= 2 * Cardinality(Slots)
  BY <1>9, <1>10, <1>13
<1> QED BY <1>7, <1>8, <1>9, <1>10, <1>12, <1>13, <1>14, <1>17, <1>18, <1>19

\* The counts of a conversation stay right if what it gains is what its turn owes more.
Balanced(s, c) ==
    /\ convs'[c].said \in Nat /\ convs'[c].count \in Nat
    /\ \/ convs'[c].count + OwedBy(s, c)' + convs[c].said = convs'[c].said + convs[c].count + OwedBy(s, c)
       \/ /\ c \in broken'
          /\ convs'[c].count + OwedBy(s, c)' + convs[c].said <= convs'[c].said + convs[c].count + OwedBy(s, c)
    /\ \/ "tutor" \in world.ops
       \/ convs'[c].count + ComingBy(s, c)' <= convs[c].count + ComingBy(s, c)
       \/ convs'[c].count <= 2 * MaxTurns - 2

LEMMA TurnsBalance ==
    ASSUME IntakeInv, NEW s \in Slots, \A r \in Slots \ {s} : Stays(r), world' = world,
           broken \subseteq broken', NEW c \in DOMAIN convs, Balanced(s, c)
    PROVE  Counted(c)' /\ Bounded(c)'
<1>1. /\ Owed(c) \in Nat /\ Owed(c)' \in Nat /\ Coming(c) \in Nat /\ Coming(c)' \in Nat
      /\ OwedBy(s, c) \in 0 .. 2 /\ OwedBy(s, c)' \in 0 .. 2
      /\ ComingBy(s, c) \in 0 .. 2 /\ ComingBy(s, c)' \in 0 .. 2
      /\ Owed(c)' + OwedBy(s, c) = Owed(c) + OwedBy(s, c)'
      /\ Coming(c)' + ComingBy(s, c) = Coming(c) + ComingBy(s, c)'
      /\ Cardinality(Slots) \in Nat /\ Coming(c)' <= 2 * Cardinality(Slots)
  BY OneTurn
<1>2. PICK n, m, p, q : n = convs[c].count /\ m = convs[c].said /\ p = convs'[c].count /\ q = convs'[c].said
  OBVIOUS
<1>3. n \in Nat /\ m \in Nat /\ p \in Nat /\ q \in Nat /\ MaxTurns \in Nat
  BY <1>2, IntakeAssumption DEF Balanced, IntakeInv, ConvRows
<1>4. \A x \in {Cardinality(Spoken(c)), Cardinality(Answered(c)), Cardinality(AtWork(c)), Cardinality(Speaking(c))} : x \in Nat
  BY OneSlot DEF Spoken, Answered, AtWork, Speaking
<1>5. /\ n + Owed(c) <= m
      /\ c \notin broken => m = n + Owed(c)
      /\ "tutor" \notin world.ops => n + Coming(c) <= 2 * MaxTurns - 2 + 2 * Cardinality(Slots)
  BY <1>2, <1>3, <1>4 DEF IntakeInv, Counted, Bounded, Owed, Coming
<1>6. /\ \/ p + OwedBy(s, c)' + m = q + n + OwedBy(s, c)
         \/ c \in broken' /\ p + OwedBy(s, c)' + m <= q + n + OwedBy(s, c)
      /\ \/ "tutor" \in world.ops
         \/ p + ComingBy(s, c)' <= n + ComingBy(s, c)
         \/ p <= 2 * MaxTurns - 2
  BY <1>2 DEF Balanced
<1>7. p + Owed(c)' <= q
  BY <1>1, <1>3, <1>5, <1>6
<1>8. c \notin broken' => q = p + Owed(c)'
  <2>1. SUFFICES ASSUME c \notin broken' PROVE q = p + Owed(c)'
    OBVIOUS
  <2>2. m = n + Owed(c) /\ p + OwedBy(s, c)' + m = q + n + OwedBy(s, c)
    BY <1>5, <1>6, <2>1
  <2> QED BY <1>1, <1>3, <2>2
<1>9. "tutor" \notin world.ops => p + Coming(c)' <= 2 * MaxTurns - 2 + 2 * Cardinality(Slots)
  BY <1>1, <1>3, <1>5, <1>6
<1>10. \A x \in {Cardinality(Spoken(c)'), Cardinality(Answered(c)'), Cardinality(AtWork(c)'), Cardinality(Speaking(c)')} : x \in Nat
  BY OneSlot DEF Spoken, Answered, AtWork, Speaking
<1>11. Counted(c)'
  BY <1>2, <1>3, <1>7, <1>8, <1>10 DEF Counted, Owed
<1>12. Bounded(c)'
  BY <1>1, <1>2, <1>3, <1>9, <1>10 DEF Bounded, Coming
<1> QED BY <1>11, <1>12

\* What a turn in a slot owes, by its await.
LEMMA TurnShare ==
    ASSUME NEW s \in Slots, NEW c
    PROVE  /\ at[s] \notin Answering \/ arg[s].conv # c => OwedBy(s, c) = 0 /\ ComingBy(s, c) = 0
           /\ at[s] \in Answering /\ arg[s].conv = c =>
                /\ OwedBy(s, c) = IF at[s] = "message" THEN 0
                                  ELSE One(~arg[s].first) + One(at[s] = "count")
                /\ ComingBy(s, c) = 1 + One(~arg[s].first)
<1>1. at[s] \notin Answering \/ arg[s].conv # c =>
        s \notin Spoken(c) /\ s \notin Answered(c) /\ s \notin AtWork(c) /\ s \notin Speaking(c)
  BY DEF Spoken, Answered, AtWork, Speaking, Answering
<1>2. at[s] \in Answering /\ arg[s].conv = c =>
        /\ s \in Spoken(c) <=> at[s] # "message" /\ ~arg[s].first
        /\ s \in Answered(c) <=> at[s] = "count"
        /\ s \in AtWork(c)
        /\ s \in Speaking(c) <=> ~arg[s].first
  BY DEF Spoken, Answered, AtWork, Speaking, Answering
<1> QED BY <1>1, <1>2 DEF OwedBy, ComingBy, One

LEMMA TurnShareNext ==
    ASSUME NEW s \in Slots, NEW c
    PROVE  /\ at'[s] \notin Answering \/ arg'[s].conv # c => OwedBy(s, c)' = 0 /\ ComingBy(s, c)' = 0
           /\ at'[s] \in Answering /\ arg'[s].conv = c =>
                /\ OwedBy(s, c)' = IF at'[s] = "message" THEN 0
                                   ELSE One(~arg'[s].first) + One(at'[s] = "count")
                /\ ComingBy(s, c)' = 1 + One(~arg'[s].first)
<1>1. at'[s] \notin Answering \/ arg'[s].conv # c =>
        s \notin Spoken(c)' /\ s \notin Answered(c)' /\ s \notin AtWork(c)' /\ s \notin Speaking(c)'
  BY DEF Spoken, Answered, AtWork, Speaking, Answering
<1>2. at'[s] \in Answering /\ arg'[s].conv = c =>
        /\ s \in Spoken(c)' <=> at'[s] # "message" /\ ~arg'[s].first
        /\ s \in Answered(c)' <=> at'[s] = "count"
        /\ s \in AtWork(c)'
        /\ s \in Speaking(c)' <=> ~arg'[s].first
  BY DEF Spoken, Answered, AtWork, Speaking, Answering
<1> QED BY <1>1, <1>2 DEF OwedBy, ComingBy, One

\* No conversation is lost, and none loses messages.
ConvsGrow ==
    /\ ConvRows' /\ DOMAIN convs \subseteq DOMAIN convs'
    /\ \A c \in DOMAIN convs : convs[c].said <= convs'[c].said

\* What a handler knows of its conversation stays true while it waits.
LEMMA ConvHeld ==
    ASSUME IntakeInv, ConvsGrow, world' = world, NEW s \in Slots, Stays(s) \/ at'[s] \notin IntakeSteps
    PROVE  HoldsConv(s)' /\ NoTutor(s)'
<1>1. CASE at'[s] \notin IntakeSteps
  BY <1>1 DEF HoldsConv, NoTutor, IntakeSteps, TurnSteps, Answering
<1>2. CASE Stays(s)
  <2>1. HoldsConv(s) /\ NoTutor(s) /\ at'[s] = at[s] /\ arg'[s] = arg[s]
    BY <1>2 DEF IntakeInv, Stays
  <2>2. ASSUME at[s] = "transcript" PROVE arg[s].count <= convs'[arg[s].conv].said
    <3>1. PICK n, m, k : n = arg[s].count /\ m = convs[arg[s].conv].said /\ k = convs'[arg[s].conv].said
      OBVIOUS
    <3>2. arg[s].conv \in DOMAIN convs
      BY <2>1, <2>2 DEF HoldsConv, IntakeSteps
    <3>3. n \in Nat /\ m \in Nat /\ k \in Nat /\ n <= m /\ m <= k
      BY <2>1, <2>2, <3>1, <3>2 DEF HoldsConv, IntakeInv, ConvsGrow, ConvRows
    <3> QED BY <3>1, <3>3
  <2> QED BY <2>1, <2>2 DEF HoldsConv, NoTutor, ConvsGrow
<1> QED BY <1>1, <1>2

\* One row is written.
LEMMA ConvWritten ==
    ASSUME ConvRows, NEW c \in DOMAIN convs, NEW r, convs' = [convs EXCEPT ![c] = r], batches' \in Nat,
           DOMAIN r = ConvFields, r.count \in Nat, r.said \in Nat, r.batch \in Nat, convs[c].said <= r.said
    PROVE  /\ ConvsGrow /\ DOMAIN convs' = DOMAIN convs
           /\ \A d \in DOMAIN convs : convs'[d] = IF d = c THEN r ELSE convs[d]
<1>1. IsSequence(convs') /\ DOMAIN convs' = DOMAIN convs
  BY SequenceKept DEF ConvRows
<1>2. \A d \in DOMAIN convs : convs'[d] = IF d = c THEN r ELSE convs[d]
  OBVIOUS
<1>3. ConvRows'
  BY <1>1, <1>2 DEF ConvRows
<1>4. \A d \in DOMAIN convs : convs[d].said <= convs'[d].said
  BY <1>2 DEF ConvRows
<1> QED BY <1>1, <1>2, <1>3, <1>4 DEF ConvsGrow

\* One row is written, but its messages, its count and its scenarios stay.
ConvsStay ==
    /\ ConvsGrow /\ DOMAIN convs' = DOMAIN convs
    /\ \A c \in DOMAIN convs : /\ convs'[c].said = convs[c].said /\ convs'[c].count = convs[c].count
                            /\ convs'[c].batch = convs[c].batch

LEMMA ConvKeeps ==
    ASSUME ConvRows, NEW d \in DOMAIN convs, NEW r, convs' = [convs EXCEPT ![d] = r], batches' \in Nat,
           DOMAIN r = DOMAIN convs[d],
           r.said = convs[d].said, r.count = convs[d].count, r.batch = convs[d].batch
    PROVE  ConvsStay /\ \A c \in DOMAIN convs : convs'[c] = IF c = d THEN r ELSE convs[c]
<1>1. /\ DOMAIN r = ConvFields /\ r.count \in Nat /\ r.said \in Nat /\ r.batch \in Nat
      /\ convs[d].said <= r.said
  BY DEF ConvRows
<1>2. /\ ConvsGrow /\ DOMAIN convs' = DOMAIN convs
      /\ \A c \in DOMAIN convs : convs'[c] = IF c = d THEN r ELSE convs[c]
  BY <1>1, ConvWritten
<1> QED BY <1>2 DEF ConvsStay

LEMMA ConvsSame ==
    ASSUME ConvRows, UNCHANGED <<convs, batches>>
    PROVE  ConvsStay
  BY DEF ConvsStay, ConvsGrow, ConvRows

\* Nobody completes c, and nobody changes its scenarios.
LEMMA CompletionCalm ==
    ASSUME NEW c, CompletedOnce(c), contested \subseteq contested', convs'[c].batch = convs[c].batch,
           \A s \in Slots : Stays(s) \/ at'[s] \notin CompletionSteps
    PROVE  CompletedOnce(c)'
<1>1. \A s \in Completing(c)' : s \in Completing(c) /\ at'[s] = at[s] /\ arg'[s] = arg[s]
  BY DEF Completing, CompletionSteps, Stays
<1>2. ASSUME c \notin contested', NEW s \in Completing(c)'
      PROVE  convs'[c].batch = IF at'[s] = "own" THEN arg'[s].batch ELSE 0
  BY <1>1, <1>2 DEF CompletedOnce
<1>3. ASSUME c \notin contested', NEW r \in Completing(c)', NEW s \in Completing(c)' PROVE r = s
  BY <1>1, <1>3 DEF CompletedOnce
<1> QED BY <1>2, <1>3 DEF CompletedOnce

\* A handler of the conversations moves, and writes at most.
LEMMA IntakeMoves ==
    ASSUME DOMAIN at = Slots, DOMAIN arg = Slots, IntakeInv, NEW s \in Slots, \A r \in Slots \ {s} : Stays(r),
           world' = world, ConvsGrow, DOMAIN convs' = DOMAIN convs, broken \subseteq broken',
           HoldsConv(s)', NoTutor(s)',
           \A c \in DOMAIN convs : Balanced(s, c) /\ CompletedOnce(c)'
    PROVE  IntakeInv'
<1>1. \A r \in Slots : HoldsConv(r)' /\ NoTutor(r)'
  BY ConvHeld
<1>2. ASSUME NEW c \in DOMAIN convs' PROVE Counted(c)' /\ Bounded(c)'
  BY <1>2, TurnsBalance
<1> QED BY <1>1, <1>2 DEF IntakeInv, ConvsGrow

\* A handler that is not at a turn and does not get to one.
LEMMA SilentMove ==
    ASSUME DOMAIN at = Slots, DOMAIN arg = Slots, IntakeInv, NEW s \in Slots, \A r \in Slots \ {s} : Stays(r),
           world' = world, ConvsStay, UNCHANGED broken,
           at[s] \notin Answering, at'[s] \notin Answering, HoldsConv(s)', NoTutor(s)',
           \A c \in DOMAIN convs : CompletedOnce(c)'
    PROVE  IntakeInv'
<1>1. ASSUME NEW c \in DOMAIN convs PROVE Balanced(s, c)
  <2>1. OwedBy(s, c) = 0 /\ OwedBy(s, c)' = 0 /\ ComingBy(s, c) = 0 /\ ComingBy(s, c)' = 0
    BY TurnShare, TurnShareNext
  <2>2. /\ convs'[c].said = convs[c].said /\ convs'[c].count = convs[c].count
        /\ convs[c].said \in Nat /\ convs[c].count \in Nat
    BY DEF ConvsStay, IntakeInv, ConvRows
  <2> QED BY <2>1, <2>2 DEF Balanced
<1> QED BY <1>1, IntakeMoves DEF ConvsStay

\* A request begins: it knows a conversation there is, or the language of a new one.
LEMMA IntakeBegins ==
    ASSUME DOMAIN at = Slots, DOMAIN arg = Slots, IntakeInv, NEW s \in Slots,
           OnboardingChat(s) \/ Tutor(s) \/ Complete(s) \/ Transcript(s)
    PROVE  IntakeInv'
<1> USE DEF IntakeSteps, TurnSteps, Answering, CompletionSteps
<1>1. UNCHANGED intakeVars
  BY DEF OnboardingChat, Tutor, Complete, Transcript
<1>2. ASSUME NEW step \in {"open", "turn", "tutor", "complete", "transcript"}, NEW a, NEW op, Begin(s, op, step, a),
             step # "open" => a.conv \in DOMAIN convs,
             step = "transcript" => a.count = convs[a.conv].count, step = "tutor" => op = "tutor"
      PROVE  IntakeInv'
  <2>1. Moved(s, step, a) /\ at[s] = "idle" /\ world' = world /\ op \in world.ops
    BY <1>2, HandlersMove DEF Begin, Offered
  <2>2. /\ at'[s] = step /\ arg'[s] = a
        /\ \A r \in Slots \ {s} : Stays(r)
    BY <2>1, MovesOne
  <2>3. UNCHANGED <<convs, batches, broken, contested>>
    BY <1>1 DEF intakeVars
  <2>4. step = "transcript" => a.count \in Nat /\ a.count <= convs'[a.conv].said
    <3>1. SUFFICES ASSUME step = "transcript" PROVE a.count \in Nat /\ a.count <= convs[a.conv].said
      BY <2>3
    <3>2. PICK c : c = a.conv
      OBVIOUS
    <3>3. c \in DOMAIN convs /\ Counted(c) /\ convs[c].count \in Nat /\ convs[c].said \in Nat
      BY <1>2, <3>1, <3>2 DEF IntakeInv, ConvRows
    <3>4. Cardinality(Spoken(c)) \in Nat /\ Cardinality(Answered(c)) \in Nat
      BY OneSlot DEF Spoken, Answered
    <3> QED BY <1>2, <3>1, <3>2, <3>3, <3>4 DEF Counted
  <2>5. HoldsConv(s)' /\ NoTutor(s)'
    BY <1>2, <2>1, <2>2, <2>3, <2>4 DEF HoldsConv, NoTutor
  <2>6. ASSUME NEW c \in DOMAIN convs PROVE CompletedOnce(c)'
    BY <2>2, <2>3, CompletionCalm DEF IntakeInv
  <2>7. ConvsStay
    BY <2>3, ConvsSame DEF IntakeInv
  <2> QED BY <2>1, <2>2, <2>3, <2>5, <2>6, <2>7, SilentMove
<1>3. CASE OnboardingChat(s)
  <2>1. CASE \E l \in Targets :
               Begin(s, "onboarding chat", "open", [op |-> "turn", kind |-> "anonymous", lang |-> l, text |-> FALSE])
    BY <1>2, <2>1
  <2>2. ASSUME NEW c \in DOMAIN convs, NEW text \in BOOLEAN,
               Begin(s, "onboarding chat", "turn", [op |-> "turn", kind |-> "anonymous", conv |-> c, text |-> text])
        PROVE  IntakeInv'
    BY <1>2, <2>2
  <2> QED BY <1>3, <2>1, <2>2 DEF OnboardingChat
<1>4. CASE Tutor(s)
  <2>1. PICK c \in DOMAIN convs, u \in Callers : Begin(s, "tutor", "tutor", [op |-> "tutor", conv |-> c, user |-> u])
    BY <1>4 DEF Tutor
  <2> QED BY <1>2, <2>1
<1>5. CASE Complete(s)
  <2>1. PICK c \in DOMAIN convs, u \in Callers \cup {0} :
          Begin(s, "onboarding complete", "complete", [op |-> "complete", conv |-> c, user |-> u])
    BY <1>5 DEF Complete
  <2> QED BY <1>2, <2>1
<1>6. CASE Transcript(s)
  <2>1. PICK c \in DOMAIN convs :
          Begin(s, "transcript", "transcript", [op |-> "transcript", conv |-> c, count |-> convs[c].count])
    BY <1>6 DEF Transcript
  <2> QED BY <1>2, <2>1
<1> QED BY <1>3, <1>4, <1>5, <1>6

\* A conversation is opened, for a turn that goes on, or is not.
LEMMA IntakeOpened ==
    ASSUME DOMAIN at = Slots, DOMAIN arg = Slots, IntakeInv, NEW s \in Slots, OpenSession(s)
    PROVE  IntakeInv'
<1> USE DEF IntakeSteps, TurnSteps, Answering, CompletionSteps
<1>1. at[s] = "open" /\ UNCHANGED <<batches, broken, contested>> /\ world' = world
  BY HandlersMove DEF OpenSession
<1>2. CASE End(s) /\ UNCHANGED convs
  <2>1. at'[s] = "idle" /\ \A r \in Slots \ {s} : Stays(r)
    BY <1>2, HandlersMove, MovesOne
  <2>2. HoldsConv(s)' /\ NoTutor(s)'
    BY <2>1 DEF HoldsConv, NoTutor
  <2>3. ASSUME NEW c \in DOMAIN convs PROVE CompletedOnce(c)'
    BY <1>1, <1>2, <2>1, CompletionCalm DEF IntakeInv
  <2>4. ConvsStay
    BY <1>1, <1>2, ConvsSame DEF IntakeInv
  <2> QED BY <1>1, <1>2, <2>1, <2>2, <2>3, <2>4, SilentMove
<1>3. CASE /\ convs' = Append(convs, Conv(arg[s].lang))
           /\ Go(s, "turn", [op |-> "turn", kind |-> arg[s].kind, conv |-> Len(convs'), text |-> arg[s].text])
  <2>1. PICK r, n : r = Conv(arg[s].lang) /\ n = Len(convs) + 1
    OBVIOUS
  <2>2. DOMAIN r = ConvFields /\ r.count = 0 /\ r.said = 0 /\ r.batch = 0
    BY <2>1 DEF Conv, ConvFields
  <2>3. IsSequence(convs) /\ DOMAIN convs = 1 .. n - 1 /\ n \in Nat \ {0}
    BY <2>1 DEF IntakeInv, ConvRows, IsSequence
  <2>4. /\ IsSequence(convs') /\ DOMAIN convs' = 1 .. n /\ Len(convs') = n
        /\ \A c \in DOMAIN convs : convs'[c] = convs[c]
        /\ convs'[n] = r
    BY <1>3, <2>1, <2>3, SequenceKept
  <2>5. n \in DOMAIN convs' /\ n \notin DOMAIN convs /\ DOMAIN convs' = DOMAIN convs \cup {n}
    BY <2>3, <2>4
  <2>6. ConvRows'
    <3>1. ASSUME NEW c \in DOMAIN convs'
          PROVE  /\ DOMAIN convs'[c] = ConvFields
                 /\ convs'[c].count \in Nat /\ convs'[c].said \in Nat /\ convs'[c].batch \in Nat
      <4>1. CASE c = n
        BY <2>2, <2>4, <4>1
      <4>2. CASE c \in DOMAIN convs
        BY <2>4, <4>2 DEF IntakeInv, ConvRows
      <4> QED BY <2>5, <4>1, <4>2
    <3>2. batches' \in Nat
      BY <1>1 DEF IntakeInv, ConvRows
    <3> QED BY <2>4, <3>1, <3>2 DEF ConvRows
  <2>7. ConvsGrow
    <3>1. \A c \in DOMAIN convs : convs[c].said <= convs'[c].said
      BY <2>4 DEF IntakeInv, ConvRows
    <3> QED BY <2>5, <2>6, <3>1 DEF ConvsGrow
  <2>8. PICK a : a = [op |-> "turn", kind |-> arg[s].kind, conv |-> n, text |-> arg[s].text]
    OBVIOUS
  <2>9. at'[s] = "turn" /\ arg'[s] = a /\ a.conv = n /\ \A q \in Slots \ {s} : Stays(q)
    <3>1. Go(s, "turn", a)
      BY <1>3, <2>4, <2>8
    <3>2. Moved(s, "turn", a)
      BY <3>1, HandlersMove
    <3> QED BY <2>8, <3>2, MovesOne
  <2>10. HoldsConv(s)' /\ NoTutor(s)'
    BY <2>5, <2>9 DEF HoldsConv, NoTutor
  <2>11. \A q \in Slots : HoldsConv(q)' /\ NoTutor(q)'
    BY <1>1, <2>7, <2>9, <2>10, ConvHeld
  <2>12. ASSUME NEW c \in DOMAIN convs PROVE Counted(c)' /\ Bounded(c)' /\ CompletedOnce(c)'
    <3>1. OwedBy(s, c) = 0 /\ OwedBy(s, c)' = 0 /\ ComingBy(s, c) = 0 /\ ComingBy(s, c)' = 0
      BY <1>1, <2>9, TurnShare, TurnShareNext
    <3>2. convs'[c] = convs[c] /\ convs[c].said \in Nat /\ convs[c].count \in Nat
      BY <2>4 DEF IntakeInv, ConvRows
    <3>3. Balanced(s, c)
      BY <3>1, <3>2 DEF Balanced
    <3>4. CompletedOnce(c)'
      BY <1>1, <2>9, <3>2, CompletionCalm DEF IntakeInv
    <3> QED BY <1>1, <2>9, <3>3, <3>4, TurnsBalance
  <2>13. \A q \in Slots : at'[q] \in IntakeSteps \ {"open"} /\ arg'[q].conv = n => q = s
    <3>1. ASSUME NEW q \in Slots \ {s}, at'[q] \in IntakeSteps \ {"open"} PROVE arg'[q].conv # n
      <4>1. at'[q] = at[q] /\ arg'[q] = arg[q] /\ HoldsConv(q)
        BY <2>9 DEF Stays, IntakeInv
      <4>2. arg[q].conv \in DOMAIN convs
        BY <3>1, <4>1 DEF HoldsConv
      <4> QED BY <2>5, <4>1, <4>2
    <3> QED BY <3>1
  <2>14. Spoken(n)' = {} /\ Answered(n)' = {} /\ AtWork(n)' = {} /\ Speaking(n)' = {} /\ Completing(n)' = {}
    BY <2>9, <2>13 DEF Spoken, Answered, AtWork, Speaking, Completing
  <2>15. Counted(n)'
    BY <2>2, <2>4, <2>14, FS_EmptySet DEF Counted
  <2>16. Bounded(n)'
    <3>1. Cardinality(Slots) \in Nat /\ MaxTurns \in Nat \ {0}
      BY IntakeAssumption, FS_CardinalityType
    <3> QED BY <2>2, <2>4, <2>14, <3>1, FS_EmptySet DEF Bounded
  <2>17. CompletedOnce(n)'
    BY <2>14 DEF CompletedOnce
  <2> QED BY <2>5, <2>6, <2>11, <2>12, <2>15, <2>16, <2>17 DEF IntakeInv
<1> QED BY <1>2, <1>3 DEF OpenSession

\* A turn is let in, below the cap, or not.
LEMMA TurnBegins ==
    ASSUME DOMAIN at = Slots, DOMAIN arg = Slots, IntakeInv, NEW s \in Slots, Turn(s) \/ TutorTurn(s)
    PROVE  IntakeInv'
<1> USE DEF IntakeSteps, TurnSteps, Answering, CompletionSteps
<1>1. /\ at[s] \in {"turn", "tutor"} /\ UNCHANGED <<convs, batches, broken, contested>> /\ world' = world
      /\ at[s] = "tutor" => "tutor" \in world.ops
      /\ arg[s].conv \in DOMAIN convs
  BY HandlersMove DEF Turn, TutorTurn, intakeVars, IntakeInv, HoldsConv, NoTutor
<1>2. ConvsStay
  BY <1>1, ConvsSame DEF IntakeInv
<1>3. ASSUME at'[s] \notin CompletionSteps, \A r \in Slots \ {s} : Stays(r), NEW c \in DOMAIN convs
      PROVE  CompletedOnce(c)'
  BY <1>1, <1>3, CompletionCalm DEF IntakeInv
<1>4. CASE End(s)
  <2>1. at'[s] = "idle" /\ \A r \in Slots \ {s} : Stays(r)
    BY <1>4, HandlersMove, MovesOne
  <2>2. HoldsConv(s)' /\ NoTutor(s)'
    BY <2>1 DEF HoldsConv, NoTutor
  <2>3. \A c \in DOMAIN convs : CompletedOnce(c)'
    BY <1>3, <2>1
  <2> QED BY <1>1, <1>2, <2>1, <2>2, <2>3, SilentMove
<1>5. ASSUME NEW step \in {"message", "reply"}, NEW a, Go(s, step, a), a.conv = arg[s].conv, a.first = (step = "reply"),
             "tutor" \in world.ops \/ convs[a.conv].count <= 2 * MaxTurns - 2
      PROVE  IntakeInv'
  <2>0. Moved(s, step, a)
    BY <1>5, HandlersMove
  <2>1. at'[s] = step /\ arg'[s] = a /\ \A r \in Slots \ {s} : Stays(r)
    BY <2>0, MovesOne
  <2>2. HoldsConv(s)' /\ NoTutor(s)'
    BY <1>1, <1>5, <2>1 DEF HoldsConv, NoTutor
  <2>3. ASSUME NEW c \in DOMAIN convs PROVE Balanced(s, c)
    <3>0. OwedBy(s, c) = 0 /\ ComingBy(s, c) = 0
      BY <1>1, TurnShare
    <3>1. OwedBy(s, c)' = 0
      <4>1. CASE a.conv # c
        BY <2>1, <4>1, TurnShareNext
      <4>2. CASE step = "message"
        BY <2>1, <4>2, TurnShareNext
      <4>3. CASE a.conv = c /\ step = "reply"
        <5>1. at'[s] = "reply" /\ arg'[s].conv = c /\ arg'[s].first = TRUE
          BY <1>5, <2>1, <4>3
        <5> QED BY <5>1, TurnShareNext DEF One
      <4> QED BY <4>1, <4>2, <4>3
    <3>2. convs'[c] = convs[c] /\ convs[c].said \in Nat /\ convs[c].count \in Nat
      BY <1>1 DEF IntakeInv, ConvRows
    <3>3. c # a.conv => ComingBy(s, c)' = 0
      BY <2>1, TurnShareNext
    <3> QED BY <1>5, <3>0, <3>1, <3>2, <3>3 DEF Balanced
  <2>4. \A c \in DOMAIN convs : CompletedOnce(c)'
    BY <1>3, <1>5, <2>1
  <2> QED BY <1>1, <1>2, <2>1, <2>2, <2>3, <2>4, IntakeMoves DEF ConvsStay
<1>6. CASE Turn(s)
  <2>1. CASE Admitted(s)
    <3>1. PICK n, f : n = convs[arg[s].conv].count /\ f = (n = 0)
      OBVIOUS
    <3>2. CurrentTurn(n) <= MaxTurns /\ n \in Nat /\ MaxTurns \in Nat \ {0} /\ f \in BOOLEAN
      BY <1>1, <2>1, <3>1, IntakeAssumption DEF Admitted, IntakeInv, ConvRows
    <3>3. n <= 2 * MaxTurns - 2
      BY <3>2 DEF CurrentTurn
    <3>4. Go(s, IF f THEN "reply" ELSE "message", [op |-> "turn", conv |-> arg[s].conv, first |-> f])
      BY <1>6, <2>1, <3>1 DEF Turn
    <3>5. PICK a : a = [op |-> "turn", conv |-> arg[s].conv, first |-> f]
      OBVIOUS
    <3>6. a.conv = arg[s].conv /\ a.first = f
      BY <3>5
    <3>7. CASE f
      <4>1. Go(s, "reply", a)
        BY <3>4, <3>5, <3>7
      <4> QED BY <1>5, <3>1, <3>3, <3>6, <3>7, <4>1
    <3>8. CASE ~f
      <4>1. Go(s, "message", a)
        BY <3>4, <3>5, <3>8
      <4> QED BY <1>5, <3>1, <3>2, <3>3, <3>6, <3>8, <4>1
    <3> QED BY <3>7, <3>8
  <2> QED BY <1>4, <1>6, <2>1 DEF Turn
<1>7. CASE TutorTurn(s)
  <2>1. CASE MayUse(arg[s].conv, arg[s].user)
    <3>1. PICK a : a = [op |-> "tutor", conv |-> arg[s].conv, first |-> FALSE]
      OBVIOUS
    <3>2. Go(s, "message", a) /\ a.conv = arg[s].conv /\ a.first = FALSE /\ at[s] = "tutor"
      BY <1>7, <2>1, <3>1 DEF TutorTurn
    <3> QED BY <1>1, <1>5, <3>2
  <2> QED BY <1>4, <1>7, <2>1 DEF TutorTurn
<1> QED BY <1>6, <1>7

\* A message is stored: the turn owes one more.
LEMMA TurnSaves ==
    ASSUME DOMAIN at = Slots, DOMAIN arg = Slots, IntakeInv, NEW s \in Slots, SaveMessage(s)
    PROVE  IntakeInv'
<1>1. PICK d, a, r, step : /\ d = arg[s].conv /\ a = arg[s]
                           /\ r = [convs[d] EXCEPT !.said = @ + 1]
                           /\ step = IF at[s] = "message" THEN "reply" ELSE "count"
  OBVIOUS
<1>2. /\ at[s] \in {"message", "reply"} /\ Moved(s, step, a) /\ world' = world
      /\ convs' = [convs EXCEPT ![d] = r] /\ UNCHANGED <<batches, broken, contested>>
  BY <1>1, HandlersMove DEF SaveMessage, Said
<1>3. at'[s] = step /\ arg'[s] = a /\ \A q \in Slots \ {s} : Stays(q)
  BY <1>2, MovesOne
<1>4. d \in DOMAIN convs /\ a.conv = d /\ a.first \in BOOLEAN /\ (at[s] = "message" => ~a.first)
  BY <1>1, <1>2 DEF IntakeInv, HoldsConv, IntakeSteps, TurnSteps, Answering
<1>5. /\ ConvRows /\ DOMAIN convs[d] = ConvFields
      /\ convs[d].said \in Nat /\ convs[d].count \in Nat /\ convs[d].batch \in Nat
  BY <1>4 DEF IntakeInv, ConvRows
<1>6. /\ DOMAIN r = ConvFields /\ r.said = convs[d].said + 1 /\ r.count = convs[d].count /\ r.batch = convs[d].batch
  BY <1>1, <1>5 DEF ConvFields
<1>7. /\ ConvsGrow /\ DOMAIN convs' = DOMAIN convs
      /\ \A c \in DOMAIN convs : convs'[c] = IF c = d THEN r ELSE convs[c]
  <2>1. r.said \in Nat /\ convs[d].said <= r.said /\ r.count \in Nat /\ r.batch \in Nat /\ batches' \in Nat
    BY <1>2, <1>5, <1>6 DEF ConvRows
  <2> QED BY <1>2, <1>4, <1>5, <1>6, <2>1, ConvWritten
<1>8. HoldsConv(s)' /\ NoTutor(s)'
  BY <1>1, <1>2, <1>3, <1>4, <1>7 DEF HoldsConv, NoTutor, IntakeSteps, TurnSteps, Answering
<1>9. ASSUME NEW c \in DOMAIN convs PROVE Balanced(s, c)
  <2>1. CASE c # d
    <3>1. OwedBy(s, c) = 0 /\ OwedBy(s, c)' = 0 /\ ComingBy(s, c) = 0 /\ ComingBy(s, c)' = 0
      BY <1>1, <1>3, <1>4, <2>1, TurnShare, TurnShareNext
    <3>2. convs'[c] = convs[c] /\ convs[c].said \in Nat /\ convs[c].count \in Nat
      BY <1>7, <2>1 DEF IntakeInv, ConvRows
    <3> QED BY <3>1, <3>2 DEF Balanced
  <2>2. CASE c = d
    <3>1. /\ OwedBy(s, c) = IF at[s] = "message" THEN 0 ELSE One(~a.first)
          /\ ComingBy(s, c) = 1 + One(~a.first)
      BY <1>1, <1>2, <1>4, <2>2, TurnShare DEF Answering, One
    <3>2. /\ OwedBy(s, c)' = One(~a.first) + One(step = "count")
          /\ ComingBy(s, c)' = 1 + One(~a.first)
      BY <1>1, <1>3, <1>4, <2>2, TurnShareNext DEF Answering
    <3>3. OwedBy(s, c)' = OwedBy(s, c) + 1
      BY <1>1, <1>2, <1>4, <3>1, <3>2 DEF One
    <3>4. OwedBy(s, c) \in Nat /\ ComingBy(s, c)' = ComingBy(s, c) /\ ComingBy(s, c) \in Nat
      BY <3>1, <3>2 DEF One
    <3>5. convs'[c].said = convs[c].said + 1 /\ convs'[c].count = convs[c].count
      BY <1>6, <1>7, <2>2
    <3> QED BY <1>5, <2>2, <3>3, <3>4, <3>5 DEF Balanced
  <2> QED BY <2>1, <2>2
<1>10. ASSUME NEW c \in DOMAIN convs PROVE CompletedOnce(c)'
  <2>1. convs'[c].batch = convs[c].batch
    BY <1>6, <1>7
  <2>2. at'[s] \notin CompletionSteps
    BY <1>1, <1>3 DEF CompletionSteps
  <2> QED BY <1>2, <1>3, <2>1, <2>2, CompletionCalm DEF IntakeInv
<1> QED BY <1>2, <1>3, <1>7, <1>8, <1>9, <1>10, IntakeMoves

\* What the turn owes is counted.
LEMMA TurnCounts ==
    ASSUME DOMAIN at = Slots, DOMAIN arg = Slots, IntakeInv, NEW s \in Slots, CountMessages(s)
    PROVE  IntakeInv'
<1>1. PICK d, a, r, n : /\ d = arg[s].conv /\ a = arg[s] /\ n = Messages(a)
                        /\ r = [convs[d] EXCEPT !.count = @ + n]
  OBVIOUS
<1>2. /\ at[s] = "count" /\ Moved(s, "idle", Nothing) /\ world' = world
      /\ convs' = [convs EXCEPT ![d] = r] /\ UNCHANGED <<batches, broken, contested>>
  BY <1>1, HandlersMove DEF CountMessages
<1>3. at'[s] = "idle" /\ \A q \in Slots \ {s} : Stays(q)
  BY <1>2, MovesOne
<1>4. d \in DOMAIN convs /\ a.conv = d /\ a.first \in BOOLEAN
  BY <1>1, <1>2 DEF IntakeInv, HoldsConv, IntakeSteps, TurnSteps, Answering
<1>5. /\ ConvRows /\ DOMAIN convs[d] = ConvFields
      /\ convs[d].said \in Nat /\ convs[d].count \in Nat /\ convs[d].batch \in Nat
  BY <1>4 DEF IntakeInv, ConvRows
<1>6. /\ DOMAIN r = ConvFields /\ r.said = convs[d].said /\ r.count = convs[d].count + n /\ r.batch = convs[d].batch
  BY <1>1, <1>5 DEF ConvFields
<1>7. n = 1 + One(~a.first) /\ n \in Nat
  BY <1>1, <1>4 DEF Messages, One
<1>8. /\ ConvsGrow /\ DOMAIN convs' = DOMAIN convs
      /\ \A c \in DOMAIN convs : convs'[c] = IF c = d THEN r ELSE convs[c]
  <2>1. r.said \in Nat /\ convs[d].said <= r.said /\ r.count \in Nat /\ r.batch \in Nat /\ batches' \in Nat
    BY <1>2, <1>5, <1>6, <1>7 DEF ConvRows
  <2> QED BY <1>2, <1>4, <1>5, <1>6, <2>1, ConvWritten
<1>9. HoldsConv(s)' /\ NoTutor(s)'
  BY <1>3 DEF HoldsConv, NoTutor, IntakeSteps, TurnSteps, Answering, CompletionSteps
<1>10. ASSUME NEW c \in DOMAIN convs PROVE Balanced(s, c)
  <2>1. OwedBy(s, c)' = 0 /\ ComingBy(s, c)' = 0
    BY <1>3, TurnShareNext DEF Answering
  <2>2. CASE c # d
    <3>1. OwedBy(s, c) = 0 /\ ComingBy(s, c) = 0
      BY <1>1, <2>2, TurnShare
    <3>2. convs'[c] = convs[c] /\ convs[c].said \in Nat /\ convs[c].count \in Nat
      BY <1>8, <2>2 DEF IntakeInv, ConvRows
    <3> QED BY <2>1, <3>1, <3>2 DEF Balanced
  <2>3. CASE c = d
    <3>1. OwedBy(s, c) = n /\ ComingBy(s, c) = n
      BY <1>1, <1>2, <1>7, <2>3, TurnShare DEF Answering, One
    <3>2. convs'[c].said = convs[c].said /\ convs'[c].count = convs[c].count + n
      BY <1>6, <1>8, <2>3
    <3> QED BY <1>5, <1>7, <2>1, <2>3, <3>1, <3>2 DEF Balanced
  <2> QED BY <2>2, <2>3
<1>11. ASSUME NEW c \in DOMAIN convs PROVE CompletedOnce(c)'
  <2>1. convs'[c].batch = convs[c].batch
    BY <1>6, <1>8
  <2>2. at'[s] \notin CompletionSteps
    BY <1>3 DEF CompletionSteps
  <2> QED BY <1>2, <1>3, <2>1, <2>2, CompletionCalm DEF IntakeInv
<1> QED BY <1>2, <1>3, <1>8, <1>9, <1>10, <1>11, IntakeMoves

\* A turn that ends and owes nothing leaves the counts right; one that owes breaks them.
LEMMA OwesNothing ==
    ASSUME NEW s \in Slots, NEW c, at[s] \in Answering => arg[s].first \in BOOLEAN,
           arg[s].conv # c \/ Uncounted(s) = 0
    PROVE  OwedBy(s, c) = 0
<1>1. CASE at[s] \notin Answering \/ arg[s].conv # c
  BY <1>1, TurnShare
<1>2. CASE at[s] = "message"
  BY <1>2, TurnShare DEF Answering
<1>3. CASE at[s] = "reply" /\ arg[s].conv = c
  <2>1. arg[s].first
    BY <1>3 DEF Uncounted
  <2>2. OwedBy(s, c) = One(~arg[s].first) + One(at[s] = "count")
    BY <1>3, TurnShare DEF Answering
  <2> QED BY <1>3, <2>1, <2>2 DEF One
<1>4. CASE at[s] = "count" /\ arg[s].conv = c
  BY <1>4 DEF Uncounted, Messages
<1> QED BY <1>1, <1>2, <1>3, <1>4 DEF Answering

LEMMA IntakeEnds ==
    ASSUME DOMAIN at = Slots, DOMAIN arg = Slots, IntakeInv, NEW s \in Slots, IntakeFails(s)
    PROVE  IntakeInv'
<1>1. /\ Moved(s, "idle", Nothing) /\ world' = world /\ CutShort({s})
      /\ UNCHANGED <<convs, batches, contested>>
  BY HandlersMove DEF IntakeFails
<1>2. at'[s] = "idle" /\ \A q \in Slots \ {s} : Stays(q)
  BY <1>1, MovesOne
<1>3. HoldsConv(s)' /\ NoTutor(s)'
  BY <1>2 DEF HoldsConv, NoTutor, IntakeSteps, TurnSteps, Answering, CompletionSteps
<1>4. ConvsGrow /\ broken \subseteq broken'
  BY <1>1, ConvsSame DEF IntakeInv, CutShort, ConvsStay
<1>5. ASSUME NEW c \in DOMAIN convs PROVE Balanced(s, c)
  <2>1. OwedBy(s, c)' = 0 /\ ComingBy(s, c)' = 0
    BY <1>2, TurnShareNext DEF Answering
  <2>2. convs'[c] = convs[c] /\ convs[c].said \in Nat /\ convs[c].count \in Nat
    BY <1>1 DEF IntakeInv, ConvRows
  <2>3. OwedBy(s, c) \in 0 .. 2 /\ ComingBy(s, c) \in 0 .. 2
    BY <1>2, OneTurn
  <2>4. OwedBy(s, c) = 0 \/ c \in broken'
    <3>1. at[s] \in Answering => arg[s].first \in BOOLEAN
      BY DEF IntakeInv, HoldsConv
    <3>2. CASE arg[s].conv # c \/ Uncounted(s) = 0
      BY <3>1, <3>2, OwesNothing
    <3>3. CASE arg[s].conv = c /\ Uncounted(s) # 0
      <4>1. Uncounted(s) \in Nat
        BY DEF Uncounted, Messages
      <4>2. Uncounted(s) > 0
        BY <3>3, <4>1
      <4> QED BY <1>1, <3>3, <4>2 DEF CutShort
    <3> QED BY <3>2, <3>3
  <2> QED BY <2>1, <2>2, <2>3, <2>4 DEF Balanced
<1>6. ASSUME NEW c \in DOMAIN convs PROVE CompletedOnce(c)'
  <2>1. at'[s] \notin CompletionSteps
    BY <1>2 DEF CompletionSteps
  <2> QED BY <1>1, <1>2, <2>1, CompletionCalm DEF IntakeInv
<1> QED BY <1>1, <1>2, <1>3, <1>4, <1>5, <1>6, IntakeMoves

-----------------------------------------------------------------------------
(* The end of onboarding. *)

\* Who completes c while nobody else does was told the scenarios c has.
LEMMA CompletionFound ==
    ASSUME DOMAIN at = Slots, DOMAIN arg = Slots, IntakeInv, NEW s \in Slots, FindCompleted(s)
    PROVE  IntakeInv'
<1> USE DEF IntakeSteps, TurnSteps, Answering, CompletionSteps
<1>1. PICK d, row : d = arg[s].conv /\ row = convs[d]
  OBVIOUS
<1>2. /\ at[s] = "complete" /\ UNCHANGED <<batches, broken>> /\ world' = world
      /\ d \in DOMAIN convs
  BY <1>1, HandlersMove DEF FindCompleted, AfterOwner, IntakeInv, HoldsConv
<1>3. ConvsStay
  <2>1. ConvRows /\ batches' \in Nat
    BY <1>2 DEF IntakeInv, ConvRows
  <2>2. CASE UNCHANGED convs
    BY <1>2, <2>1, <2>2, ConvsSame
  <2>3. CASE convs' = [convs EXCEPT ![d].given = row.batch]
    <3>1. PICK r : r = [convs[d] EXCEPT !.given = row.batch]
      OBVIOUS
    <3>2. DOMAIN convs[d] = ConvFields
      BY <1>2, <2>1 DEF ConvRows
    <3>3. /\ DOMAIN r = DOMAIN convs[d]
          /\ r.said = convs[d].said /\ r.count = convs[d].count /\ r.batch = convs[d].batch
      BY <3>1, <3>2 DEF ConvFields
    <3>4. convs' = [convs EXCEPT ![d] = r]
      BY <2>3, <3>1
    <3> QED BY <1>2, <2>1, <3>3, <3>4, ConvKeeps
  <2> QED BY <1>1, <2>2, <2>3 DEF FindCompleted, AfterOwner
<1>4. ASSUME NEW step \in {"idle", "own", "scenarios"}, NEW a, Moved(s, step, a),
             step # "idle" => /\ a.conv = d
                              /\ row.batch = IF step = "own" THEN a.batch ELSE 0
                              /\ contested' = IF Completing(d) = {} THEN contested ELSE contested \cup {d},
             step = "idle" => contested \subseteq contested'
      PROVE  IntakeInv'
  <2>1. at'[s] = step /\ arg'[s] = a /\ \A r \in Slots \ {s} : Stays(r)
    BY <1>4, MovesOne
  <2>2. HoldsConv(s)' /\ NoTutor(s)'
    BY <1>2, <1>3, <1>4, <2>1 DEF HoldsConv, NoTutor, ConvsStay
  <2>3. ASSUME NEW c \in DOMAIN convs PROVE CompletedOnce(c)'
    <3>1. CASE step = "idle" \/ c # d
      <4>1. \A r \in Completing(c)' : r # s
        BY <1>4, <2>1, <3>1 DEF Completing
      <4>2. contested \subseteq contested'
        BY <1>4
      <4>3. \A r \in Completing(c)' : r \in Completing(c) /\ at'[r] = at[r] /\ arg'[r] = arg[r]
        BY <2>1, <4>1 DEF Completing, Stays
      <4>4. CompletedOnce(c) /\ convs'[c].batch = convs[c].batch
        BY <1>3 DEF IntakeInv, ConvsStay
      <4>5. ASSUME c \notin contested', NEW r \in Completing(c)'
            PROVE  convs'[c].batch = IF at'[r] = "own" THEN arg'[r].batch ELSE 0
        BY <4>2, <4>3, <4>4, <4>5 DEF CompletedOnce
      <4>6. ASSUME c \notin contested', NEW r \in Completing(c)', NEW q \in Completing(c)' PROVE r = q
        BY <4>2, <4>3, <4>4, <4>6 DEF CompletedOnce
      <4> QED BY <4>5, <4>6 DEF CompletedOnce
    <3>2. CASE step # "idle" /\ c = d /\ Completing(d) = {}
      <4>1. \A r \in Completing(c)' : r = s
        BY <2>1, <3>2 DEF Completing, Stays
      <4>2. convs'[c].batch = IF at'[s] = "own" THEN arg'[s].batch ELSE 0
        BY <1>1, <1>4, <1>3, <2>1, <3>2 DEF ConvsStay
      <4>3. ASSUME NEW r \in Completing(c)'
            PROVE  convs'[c].batch = IF at'[r] = "own" THEN arg'[r].batch ELSE 0
        BY <4>1, <4>2, <4>3
      <4> QED BY <4>1, <4>3 DEF CompletedOnce
    <3>3. CASE step # "idle" /\ c = d /\ Completing(d) # {}
      BY <1>4, <3>3 DEF CompletedOnce
    <3> QED BY <3>1, <3>2, <3>3
  <2> QED BY <1>2, <1>3, <1>4, <2>1, <2>2, <2>3, SilentMove
<1>5. CASE row.kind # "anonymous" /\ End(s) /\ UNCHANGED contested
  BY <1>4, <1>5, HandlersMove
<1>6. CASE contested' = IF Completing(d) = {} THEN contested ELSE contested \cup {d}
  <2>1. contested \subseteq contested'
    BY <1>6
  <2>2. CASE Go(s, "own", [op |-> "complete", conv |-> d, user |-> arg[s].user, batch |-> row.batch])
    <3>1. PICK a : a = [op |-> "complete", conv |-> d, user |-> arg[s].user, batch |-> row.batch]
      OBVIOUS
    <3>2. Moved(s, "own", a) /\ a.conv = d /\ a.batch = row.batch
      BY <2>2, <3>1, HandlersMove
    <3> QED BY <1>4, <1>6, <3>2
  <2>3. CASE row.batch = 0 /\ Go(s, "scenarios", arg[s])
    BY <1>1, <1>4, <1>6, <2>3, HandlersMove
  <2>4. CASE End(s)
    BY <1>4, <2>1, <2>4, HandlersMove
  <2> QED BY <1>1, <1>5, <2>2, <2>3, <2>4 DEF FindCompleted, AfterOwner
<1> QED BY <1>1, <1>5, <1>6 DEF FindCompleted

\* A completion goes on: what it was told is still so, if it is alone.
LEMMA CompletionGoesOn ==
    ASSUME DOMAIN at = Slots, DOMAIN arg = Slots, IntakeInv, NEW s \in Slots, at[s] \in CompletionSteps,
           NEW step \in {"idle", "scenarios", "store"}, Moved(s, step, IF step = "idle" THEN Nothing ELSE arg[s]),
           step = "idle" \/ at[s] # "own" \/ arg[s].batch = 0,
           world' = world, UNCHANGED <<broken, contested>>, ConvsStay
    PROVE  IntakeInv'
<1> USE DEF IntakeSteps, TurnSteps, Answering, CompletionSteps
<1>1. /\ at'[s] = step /\ (step # "idle" => arg'[s] = arg[s])
      /\ \A r \in Slots \ {s} : Stays(r)
  BY MovesOne
<1>2. HoldsConv(s)' /\ NoTutor(s)'
  BY <1>1 DEF HoldsConv, NoTutor, IntakeInv, ConvsStay
<1>4. ASSUME NEW c \in DOMAIN convs PROVE CompletedOnce(c)'
  <2>1. \A r \in Completing(c)' : r \in Completing(c)
    BY <1>1 DEF Completing, Stays
  <2>2. CompletedOnce(c) /\ convs'[c].batch = convs[c].batch
    BY DEF IntakeInv, ConvsStay
  <2>3. ASSUME c \notin contested', NEW r \in Completing(c)'
        PROVE  convs'[c].batch = IF at'[r] = "own" THEN arg'[r].batch ELSE 0
    <3>1. convs[c].batch = IF at[r] = "own" THEN arg[r].batch ELSE 0
      BY <2>1, <2>2, <2>3 DEF CompletedOnce
    <3>2. CASE r = s
      <4>1. step # "idle"
        BY <1>1, <2>3, <3>2 DEF Completing
      <4> QED BY <1>1, <2>2, <3>1, <3>2, <4>1
    <3>3. CASE r # s
      <4>1. r \in Slots \ {s}
        BY <2>1, <3>3 DEF Completing
      <4> QED BY <1>1, <2>2, <3>1, <4>1 DEF Stays
    <3> QED BY <3>2, <3>3
  <2>4. ASSUME c \notin contested', NEW r \in Completing(c)', NEW q \in Completing(c)' PROVE r = q
    BY <2>1, <2>2, <2>4 DEF CompletedOnce
  <2> QED BY <2>3, <2>4 DEF CompletedOnce
<1> QED BY <1>1, <1>2, <1>4, SilentMove

LEMMA CompletionOwns ==
    ASSUME DOMAIN at = Slots, DOMAIN arg = Slots, IntakeInv, NEW s \in Slots, Own(s) \/ MakeScenarios(s)
    PROVE  IntakeInv'
<1>0. /\ at[s] \in {"own", "scenarios"} /\ world' = world /\ UNCHANGED <<broken, contested>>
      /\ arg[s].conv \in DOMAIN convs /\ ConvRows
  BY HandlersMove DEF Own, AfterOwner, MakeScenarios, IntakeInv, HoldsConv, IntakeSteps, CompletionSteps
<1>1. PICK d : d = arg[s].conv
  OBVIOUS
<1>2. DOMAIN convs[d] = ConvFields
  BY <1>0, <1>1 DEF ConvRows
<1>3. ASSUME NEW r, convs' = [convs EXCEPT ![d] = r], batches' \in Nat,
             DOMAIN r = DOMAIN convs[d] /\ r.said = convs[d].said /\ r.count = convs[d].count /\ r.batch = convs[d].batch
      PROVE  ConvsStay
  BY <1>0, <1>1, <1>3, ConvKeeps
<1>4. ASSUME ConvsStay,
             \/ Go(s, "scenarios", arg[s]) /\ (at[s] # "own" \/ arg[s].batch = 0)
             \/ Go(s, "store", arg[s]) /\ at[s] = "scenarios"
             \/ End(s)
      PROVE  IntakeInv'
  <2>1. /\ Go(s, "scenarios", arg[s]) => Moved(s, "scenarios", arg[s])
        /\ Go(s, "store", arg[s]) => Moved(s, "store", arg[s])
        /\ End(s) => Moved(s, "idle", Nothing)
    BY HandlersMove
  <2>2. at[s] \in CompletionSteps
    BY <1>0 DEF CompletionSteps
  <2> QED BY <1>0, <1>4, <2>1, <2>2, CompletionGoesOn
<1>5. CASE Own(s)
  <2>0. batches' \in Nat /\ at[s] = "own"
    BY <1>0, <1>5 DEF Own, ConvRows
  <2>1. CASE arg[s].batch = 0
    <3>1. PICK r : r = [convs[d] EXCEPT !.owner = arg[s].user]
      OBVIOUS
    <3>2. DOMAIN r = DOMAIN convs[d] /\ r.said = convs[d].said /\ r.count = convs[d].count /\ r.batch = convs[d].batch
      BY <1>2, <3>1 DEF ConvFields
    <3>3. convs' = [convs EXCEPT ![d] = r] /\ Go(s, "scenarios", arg[s])
      BY <1>1, <1>5, <2>1, <3>1 DEF Own, AfterOwner
    <3> QED BY <1>3, <1>4, <2>0, <2>1, <3>2, <3>3
  <2>2. CASE arg[s].batch # 0
    <3>1. PICK r : r = [convs[d] EXCEPT !.owner = arg[s].user, !.given = arg[s].batch]
      OBVIOUS
    <3>2. DOMAIN r = DOMAIN convs[d] /\ r.said = convs[d].said /\ r.count = convs[d].count /\ r.batch = convs[d].batch
      BY <1>2, <3>1 DEF ConvFields
    <3>3. convs' = [convs EXCEPT ![d] = r] /\ End(s)
      BY <1>0, <1>1, <1>5, <2>2, <3>1 DEF Own, AfterOwner
    <3> QED BY <1>3, <1>4, <2>0, <3>2, <3>3
  <2> QED BY <2>1, <2>2
<1>6. CASE MakeScenarios(s)
  <2>1. CASE UNCHANGED <<convs, batches>>
    <3>1. ConvsStay
      BY <1>0, <2>1, ConvsSame
    <3>2. at[s] = "scenarios" /\ (Go(s, "store", arg[s]) \/ End(s))
      BY <1>6 DEF MakeScenarios
    <3> QED BY <1>4, <3>1, <3>2
  <2>2. CASE End(s) /\ batches' = batches + 1 /\ convs' = [convs EXCEPT ![d].given = batches']
    <3>1. PICK r : r = [convs[d] EXCEPT !.given = batches']
      OBVIOUS
    <3>2. DOMAIN r = DOMAIN convs[d] /\ r.said = convs[d].said /\ r.count = convs[d].count /\ r.batch = convs[d].batch
      BY <1>2, <3>1 DEF ConvFields
    <3>3. convs' = [convs EXCEPT ![d] = r] /\ batches' \in Nat
      BY <1>0, <2>2, <3>1 DEF ConvRows
    <3> QED BY <1>3, <1>4, <2>2, <3>2, <3>3
  <2> QED BY <1>1, <1>6, <2>1, <2>2 DEF MakeScenarios
<1> QED BY <1>5, <1>6

\* The scenarios are stored: nobody else completes c, or c is contested.
LEMMA CompletionStores ==
    ASSUME DOMAIN at = Slots, DOMAIN arg = Slots, IntakeInv, NEW s \in Slots, StoreScenarios(s)
    PROVE  IntakeInv'
<1> USE DEF IntakeSteps, TurnSteps, Answering, CompletionSteps
<1>1. PICK d, r : d = arg[s].conv /\ r = [convs[d] EXCEPT !.batch = batches', !.given = batches']
  OBVIOUS
<1>2. /\ at[s] = "store" /\ Moved(s, "idle", Nothing) /\ world' = world
      /\ batches' = batches + 1 /\ convs' = [convs EXCEPT ![d] = r] /\ UNCHANGED <<broken, contested>>
  BY <1>1, HandlersMove DEF StoreScenarios
<1>3. at'[s] = "idle" /\ \A q \in Slots \ {s} : Stays(q)
  BY <1>2, MovesOne
<1>4. d \in DOMAIN convs
  BY <1>1, <1>2 DEF IntakeInv, HoldsConv
<1>5. /\ ConvRows /\ DOMAIN convs[d] = ConvFields /\ batches' \in Nat
      /\ convs[d].said \in Nat /\ convs[d].count \in Nat /\ convs[d].batch \in Nat
  BY <1>2, <1>4 DEF IntakeInv, ConvRows
<1>6. /\ DOMAIN r = ConvFields /\ r.said = convs[d].said /\ r.count = convs[d].count /\ r.batch = batches'
  BY <1>1, <1>5 DEF ConvFields
<1>7. /\ ConvsGrow /\ DOMAIN convs' = DOMAIN convs
      /\ \A c \in DOMAIN convs : convs'[c] = IF c = d THEN r ELSE convs[c]
  <2>1. convs[d].said <= r.said
    BY <1>5, <1>6
  <2> QED BY <1>2, <1>4, <1>5, <1>6, <2>1, ConvWritten
<1>8. HoldsConv(s)' /\ NoTutor(s)'
  BY <1>3 DEF HoldsConv, NoTutor
<1>9. ASSUME NEW c \in DOMAIN convs PROVE Balanced(s, c)
  <2>1. OwedBy(s, c) = 0 /\ OwedBy(s, c)' = 0 /\ ComingBy(s, c) = 0 /\ ComingBy(s, c)' = 0
    BY <1>2, <1>3, TurnShare, TurnShareNext
  <2>2. convs'[c].said = convs[c].said /\ convs'[c].count = convs[c].count
    BY <1>6, <1>7
  <2>3. convs[c].said \in Nat /\ convs[c].count \in Nat
    BY DEF IntakeInv, ConvRows
  <2> QED BY <2>1, <2>2, <2>3 DEF Balanced
<1>10. ASSUME NEW c \in DOMAIN convs PROVE CompletedOnce(c)'
  <2>1. CASE c # d
    <3>1. convs'[c].batch = convs[c].batch
      BY <1>7, <2>1
    <3> QED BY <1>2, <1>3, <3>1, CompletionCalm DEF IntakeInv
  <2>2. CASE c = d
    <3>1. s \in Completing(c)
      BY <1>1, <1>2, <2>2 DEF Completing
    <3>2. ASSUME c \notin contested', NEW q \in Completing(c)' PROVE FALSE
      <4>1. q \in Completing(c) /\ q # s
        BY <1>3, <3>2 DEF Completing, Stays
      <4>2. q = s
        BY <1>2, <3>1, <3>2, <4>1 DEF IntakeInv, CompletedOnce
      <4> QED BY <4>1, <4>2
    <3> QED BY <3>2 DEF CompletedOnce
  <2> QED BY <2>1, <2>2
<1> QED BY <1>2, <1>3, <1>7, <1>8, <1>9, <1>10, IntakeMoves

LEMMA TranscriptShown ==
    ASSUME DOMAIN at = Slots, DOMAIN arg = Slots, IntakeInv, NEW s \in Slots, ShowTranscript(s)
    PROVE  IntakeInv'
<1> USE DEF IntakeSteps, TurnSteps, Answering, CompletionSteps
<1>1. /\ at[s] = "transcript" /\ UNCHANGED <<convs, batches, broken, contested>> /\ world' = world
      /\ Moved(s, "idle", Nothing)
  BY HandlersMove DEF ShowTranscript, intakeVars
<1>2. at'[s] = "idle" /\ \A r \in Slots \ {s} : Stays(r)
  BY <1>1, MovesOne
<1>3. HoldsConv(s)' /\ NoTutor(s)'
  BY <1>2 DEF HoldsConv, NoTutor
<1>4. ASSUME NEW c \in DOMAIN convs PROVE CompletedOnce(c)'
  BY <1>1, <1>2, CompletionCalm DEF IntakeInv
<1>5. ConvsStay
  BY <1>1, ConvsSame DEF IntakeInv
<1> QED BY <1>1, <1>2, <1>3, <1>4, <1>5, SilentMove

LEMMA IntakeKept ==
    ASSUME DOMAIN at = Slots, DOMAIN arg = Slots, IntakeInv, NEW s \in Slots, IntakeStep(s)
    PROVE  IntakeInv'
  BY IntakeBegins, IntakeOpened, TurnBegins, TurnSaves, TurnCounts, IntakeEnds, CompletionFound,
     CompletionOwns, CompletionStores, TranscriptShown
  DEF IntakeStep, TurnStep

\* The handlers of other modules change no messages, no counts and no scenarios.
LEMMA IntakeUntouched ==
    ASSUME IntakeInv, world' = world, UNCHANGED <<batches, broken, contested>>, ConvRows', DOMAIN convs' = DOMAIN convs,
           \A c \in DOMAIN convs : /\ convs'[c].said = convs[c].said /\ convs'[c].count = convs[c].count
                                   /\ convs'[c].batch = convs[c].batch,
           Aside(IntakeSteps)
    PROVE  IntakeInv'
<1> USE DEF IntakeSteps, TurnSteps, Answering, CompletionSteps
<1>1. ConvsGrow
  BY DEF ConvsGrow, ConvRows
<1>2. \A s \in Slots : HoldsConv(s)' /\ NoTutor(s)'
  BY <1>1, ConvHeld DEF Aside
<1>3. ASSUME NEW c \in DOMAIN convs PROVE Counted(c)' /\ Bounded(c)' /\ CompletedOnce(c)'
  <2>1. Spoken(c)' = Spoken(c) /\ Answered(c)' = Answered(c) /\ AtWork(c)' = AtWork(c) /\ Speaking(c)' = Speaking(c)
    BY DEF Aside, Stays, Spoken, Answered, AtWork, Speaking
  <2>2. Counted(c) /\ Bounded(c) /\ CompletedOnce(c)
    BY DEF IntakeInv
  <2>3. Counted(c)' /\ Bounded(c)'
    BY <2>1, <2>2 DEF Counted, Bounded
  <2>4. CompletedOnce(c)'
    BY <2>2, CompletionCalm DEF Aside
  <2> QED BY <2>3, <2>4
<1> QED BY <1>2, <1>3 DEF IntakeInv

\* A sign-in takes a session over: its messages, counts and scenarios stay.
LEMMA ConvsClaimed ==
    ASSUME ConvRows, NEW s \in Slots, LinkStep(s)
    PROVE  /\ ConvRows' /\ DOMAIN convs' = DOMAIN convs /\ UNCHANGED <<batches, broken, contested>>
           /\ \A c \in DOMAIN convs :
                /\ convs'[c].said = convs[c].said /\ convs'[c].count = convs[c].count
                /\ convs'[c].batch = convs[c].batch /\ convs'[c].given = convs[c].given
                /\ convs'[c] = convs[c] \/ (c = arg[s].conv /\ convs[c].kind = "anonymous")
<1>1. CASE convs' = convs
  <2>1. UNCHANGED <<batches, broken, contested>>
    BY DEF LinkStep, Claim, FindSession, Bootstrap, BootstrapFind, BootstrapSet, LinkFails, accountVars, intakeVars
  <2> QED BY <1>1, <2>1 DEF ConvRows
<1>2. CASE convs' # convs
  <2>1. PICK d, r : d = arg[s].conv /\ r = [convs[d] EXCEPT !.kind = "authenticated", !.owner = arg[s].user]
    OBVIOUS
  <2>2. /\ convs[d].kind = "anonymous" /\ convs' = [convs EXCEPT ![d] = r] /\ UNCHANGED <<batches, broken, contested>>
    BY <1>2, <2>1 DEF LinkStep, Claim, FindSession, Bootstrap, BootstrapFind, BootstrapSet, LinkFails, accountVars,
                      intakeVars, Linked
  <2>3. d \in DOMAIN convs
    BY <1>2, <2>2 DEF ConvRows, IsSequence
  <2>4. /\ DOMAIN convs[d] = ConvFields
        /\ convs[d].said \in Nat /\ convs[d].count \in Nat /\ convs[d].batch \in Nat /\ batches' \in Nat
    BY <2>2, <2>3 DEF ConvRows
  <2>5. /\ DOMAIN r = ConvFields /\ r.said = convs[d].said /\ r.count = convs[d].count /\ r.batch = convs[d].batch
        /\ r.given = convs[d].given
    BY <2>1, <2>4 DEF ConvFields
  <2>6. convs[d].said <= r.said
    BY <2>4, <2>5
  <2>7. /\ ConvsGrow /\ DOMAIN convs' = DOMAIN convs
        /\ \A c \in DOMAIN convs : convs'[c] = IF c = d THEN r ELSE convs[c]
    BY <2>2, <2>3, <2>4, <2>5, <2>6, ConvWritten
  <2> QED BY <2>1, <2>2, <2>5, <2>7 DEF ConvsGrow
<1> QED BY <1>1, <1>2

\* No handler survives a restart: what it owed breaks its conversation.
LEMMA IntakeRestarted ==
    ASSUME DOMAIN at = Slots, DOMAIN arg = Slots, IntakeInv, Restart, IntakeRestart
    PROVE  IntakeInv'
<1> USE DEF IntakeSteps, TurnSteps, Answering, CompletionSteps
<1>1. /\ \A s \in Slots : at'[s] = "idle"
      /\ UNCHANGED <<world, convs, batches, contested>> /\ CutShort(Slots)
  BY DEF Restart, IntakeRestart
<1>2. \A s \in Slots : HoldsConv(s)' /\ NoTutor(s)'
  BY <1>1 DEF HoldsConv, NoTutor
<1>3. ASSUME NEW c \in DOMAIN convs PROVE Counted(c)' /\ Bounded(c)' /\ CompletedOnce(c)'
  <2>1. /\ Spoken(c)' = {} /\ Answered(c)' = {} /\ AtWork(c)' = {} /\ Speaking(c)' = {} /\ Completing(c)' = {}
    BY <1>1 DEF Spoken, Answered, AtWork, Speaking, Completing
  <2>2. \A X \in {Spoken(c), Answered(c), AtWork(c), Speaking(c)} : Cardinality(X) \in Nat
    BY SlotSet DEF Spoken, Answered, AtWork, Speaking
  <2>3. /\ Counted(c) /\ Bounded(c) /\ convs[c].said \in Nat /\ convs[c].count \in Nat
        /\ MaxTurns \in Nat /\ Cardinality(Slots) \in Nat
    BY IntakeAssumption, FS_CardinalityType DEF IntakeInv, ConvRows
  <2>4. c \notin broken' => Spoken(c) = {} /\ Answered(c) = {} /\ c \notin broken
    <3>1. \A s \in Slots : Uncounted(s) > 0 => arg[s].conv \in broken'
      BY <1>1 DEF CutShort
    <3>2. \A s \in Spoken(c) \cup Answered(c) : Uncounted(s) > 0 /\ arg[s].conv = c
      BY DEF Spoken, Answered, Uncounted, Messages
    <3>3. broken \subseteq broken'
      BY <1>1 DEF CutShort
    <3> QED BY <3>1, <3>2, <3>3 DEF Spoken, Answered
  <2>5. Counted(c)'
    <3>1. PICK n, m : n = convs[c].count /\ m = convs[c].said
      OBVIOUS
    <3>2. n \in Nat /\ m \in Nat /\ n <= m
      BY <2>2, <2>3, <3>1 DEF Counted
    <3>3. ASSUME c \notin broken' PROVE m = n
      <4>1. Cardinality(Spoken(c)) = 0 /\ Cardinality(Answered(c)) = 0
        BY <2>4, <3>3, FS_EmptySet
      <4>2. m = n + Cardinality(Spoken(c)) + Cardinality(Answered(c))
        BY <2>3, <2>4, <3>1, <3>3 DEF Counted
      <4> QED BY <3>2, <4>1, <4>2
    <3>4. convs'[c].count = n /\ convs'[c].said = m
      BY <1>1, <3>1
    <3> QED BY <2>1, <3>2, <3>3, <3>4, FS_EmptySet DEF Counted
  <2>6. Bounded(c)'
    BY <1>1, <2>1, <2>2, <2>3, FS_EmptySet DEF Bounded
  <2>7. CompletedOnce(c)'
    BY <2>1 DEF CompletedOnce
  <2> QED BY <2>5, <2>6, <2>7
<1>4. ConvRows'
  BY <1>1 DEF IntakeInv, ConvRows
<1> QED BY <1>1, <1>2, <1>3, <1>4 DEF IntakeInv

\* The conversations of the world, and nothing at work.
LEMMA IntakeStart ==
    ASSUME HandlersInit, IntakeInit
    PROVE  IntakeInv
<1> USE DEF IntakeSteps, TurnSteps, Answering, CompletionSteps
<1>1. /\ \A s \in Slots : at[s] = "idle"
      /\ world \in Worlds /\ convs = world.convs /\ batches = 0
  BY DEF HandlersInit, IntakeInit
<1>2. /\ convs \in Seq({convs[c] : c \in DOMAIN convs})
      /\ MaxTurns \in Nat \ {0} /\ IsFiniteSet(Slots)
      /\ \A c \in DOMAIN convs :
           /\ DOMAIN convs[c] = DOMAIN Conv(convs[c].lang)
           /\ {convs[c].count, convs[c].batch} \subseteq Nat
           /\ convs[c].said = convs[c].count /\ convs[c].count <= 2 * MaxTurns - 1
  BY <1>1, IntakeAssumption
<1>3. \A l : DOMAIN Conv(l) = ConvFields
  BY DEF Conv, ConvFields
<1>4. IsSequence(convs)
  <2>1. ASSUME NEW T, NEW q \in Seq(T) PROVE IsSequence(q)
    BY DEF IsSequence
  <2> QED BY <1>2, <2>1
<1>5. ConvRows
  BY <1>1, <1>2, <1>3, <1>4 DEF ConvRows
<1>6. \A s \in Slots : HoldsConv(s) /\ NoTutor(s)
  BY <1>1 DEF HoldsConv, NoTutor
<1>7. Cardinality(Slots) \in Nat \ {0}
  BY <1>2, IntakeAssumption, FS_EmptySet, FS_CardinalityType
<1>8. ASSUME NEW c \in DOMAIN convs PROVE Counted(c) /\ Bounded(c) /\ CompletedOnce(c)
  <2>1. Spoken(c) = {} /\ Answered(c) = {} /\ AtWork(c) = {} /\ Speaking(c) = {} /\ Completing(c) = {}
    BY <1>1 DEF Spoken, Answered, AtWork, Speaking, Completing
  <2>2. convs[c].count \in Nat /\ convs[c].said = convs[c].count /\ convs[c].count <= 2 * MaxTurns - 1
    BY <1>2
  <2>3. Counted(c)
    BY <2>1, <2>2, FS_EmptySet DEF Counted
  <2>4. Bounded(c)
    BY <1>2, <1>7, <2>1, <2>2, FS_EmptySet DEF Bounded
  <2> QED BY <2>1, <2>3, <2>4 DEF CompletedOnce
<1> QED BY <1>5, <1>6, <1>8 DEF IntakeInv

\* The invariant is more than the properties.
LEMMA IntakeMeans ==
    ASSUME IntakeInv
    PROVE  TurnsCounted /\ TranscriptBounded
<1>1. TurnsCounted
  BY DEF IntakeInv, Counted, TurnsCounted, HoldsConv
<1>2. ASSUME "tutor" \notin world.ops, NEW c \in DOMAIN convs \ broken
      PROVE  convs[c].said <= 2 * MaxTurns - 2 + 2 * Cardinality(Slots)
  <2>1. Counted(c) /\ Bounded(c) /\ convs[c].said \in Nat /\ convs[c].count \in Nat
    BY DEF IntakeInv, ConvRows
  <2>2. IsFiniteSet(Slots) /\ MaxTurns \in Nat
    BY IntakeAssumption
  <2>3. Spoken(c) \subseteq Speaking(c) /\ Answered(c) \subseteq AtWork(c) /\ Speaking(c) \subseteq Slots /\ AtWork(c) \subseteq Slots
    BY DEF Spoken, Answered, Speaking, AtWork, Answering
  <2>4. IsFiniteSet(Speaking(c)) /\ IsFiniteSet(AtWork(c))
    BY <2>2, <2>3, FS_Subset
  <2>5. Cardinality(Spoken(c)) <= Cardinality(Speaking(c)) /\ Cardinality(Answered(c)) <= Cardinality(AtWork(c))
    BY <2>3, <2>4, FS_Subset
  <2>6. \A X \in {Spoken(c), Answered(c), AtWork(c), Speaking(c)} : Cardinality(X) \in Nat
    BY SlotSet DEF Spoken, Answered, AtWork, Speaking
  <2>7. Cardinality(Slots) \in Nat
    BY <2>2, FS_CardinalityType
  <2> QED BY <1>2, <2>1, <2>2, <2>5, <2>6, <2>7 DEF Counted, Bounded
<1> QED BY <1>1, <1>2 DEF TranscriptBounded

\* What a handler of the conversations writes in a row: only who completes it changes
\* its owner, only who has made scenarios for it changes its batch, and what it is
\* given is what the handler found there or made.
Gives(s, c) ==
    \/ at[s] \in {"scenarios", "store"}
    \/ at[s] = "complete" /\ convs'[c].given = convs[c].batch
    \/ at[s] = "own" /\ convs'[c].given = arg[s].batch

LEMMA IntakeWrites ==
    ASSUME IntakeInv, NEW s \in Slots, IntakeStep(s), NEW c \in DOMAIN convs
    PROVE  /\ convs'[c].kind = convs[c].kind
           /\ convs'[c].owner = convs[c].owner \/ Own(s)
           /\ \/ convs'[c].batch = convs[c].batch
              \/ at[s] = "store" /\ arg[s].conv = c /\ convs'[c].given = convs'[c].batch
           /\ convs'[c].given = convs[c].given \/ (arg[s].conv = c /\ Gives(s, c))
<1>0. DOMAIN convs[c] = ConvFields
  BY DEF IntakeInv, ConvRows
<1>1. CASE convs' = convs
  BY <1>1
<1>2. CASE OpenSession(s)
  <2>1. IsSequence(convs)
    BY DEF IntakeInv, ConvRows
  <2>2. convs'[c] = convs[c]
    BY <1>2, <2>1, SequenceKept DEF OpenSession
  <2> QED BY <2>2
<1>3. CASE SaveMessage(s) \/ CountMessages(s)
  <2>1. CASE c # arg[s].conv
    BY <1>3, <2>1 DEF SaveMessage, Said, CountMessages
  <2>2. CASE c = arg[s].conv
    BY <1>0, <1>3, <2>2 DEF SaveMessage, Said, CountMessages, ConvFields
  <2> QED BY <2>1, <2>2
<1>4. CASE FindCompleted(s)
  <2>1. PICK d : d = arg[s].conv
    OBVIOUS
  <2>2. at[s] = "complete" /\ (convs' = convs \/ convs' = [convs EXCEPT ![d].given = convs[d].batch])
    BY <1>4, <2>1 DEF FindCompleted, AfterOwner
  <2>3. CASE c # d
    BY <2>2, <2>3
  <2>4. CASE c = d
    BY <1>0, <2>1, <2>2, <2>4 DEF ConvFields, Gives
  <2> QED BY <2>3, <2>4
<1>5. CASE Own(s)
  <2>1. PICK d, q : d = arg[s].conv /\ q = [convs EXCEPT ![d].owner = arg[s].user]
    OBVIOUS
  <2>2. at[s] = "own" /\ (convs' = q \/ convs' = [q EXCEPT ![d].given = arg[s].batch])
    BY <1>5, <2>1 DEF Own, AfterOwner
  <2>3. CASE c # d
    BY <2>1, <2>2, <2>3
  <2>4. CASE c = d
    <3>1. /\ q[c].kind = convs[c].kind /\ q[c].batch = convs[c].batch /\ q[c].given = convs[c].given
          /\ DOMAIN q[c] = ConvFields /\ c \in DOMAIN q
      BY <1>0, <2>1, <2>4 DEF ConvFields
    <3>2. CASE convs' = q
      BY <1>5, <3>1, <3>2
    <3>3. CASE convs' = [q EXCEPT ![d].given = arg[s].batch]
      <4>1. convs'[c] = [q[c] EXCEPT !.given = arg[s].batch]
        BY <2>4, <3>1, <3>3
      <4>2. convs'[c].kind = q[c].kind /\ convs'[c].batch = q[c].batch /\ convs'[c].given = arg[s].batch
        BY <3>1, <4>1 DEF ConvFields
      <4> QED BY <1>5, <2>1, <2>2, <2>4, <3>1, <4>2 DEF Gives
    <3> QED BY <2>2, <3>2, <3>3
  <2> QED BY <2>3, <2>4
<1>6. CASE MakeScenarios(s)
  <2>1. PICK d : d = arg[s].conv
    OBVIOUS
  <2>2. at[s] = "scenarios" /\ (convs' = convs \/ convs' = [convs EXCEPT ![d].given = batches'])
    BY <1>6, <2>1 DEF MakeScenarios
  <2>3. CASE c # d
    BY <2>2, <2>3
  <2>4. CASE c = d
    BY <1>0, <2>1, <2>2, <2>4 DEF ConvFields, Gives
  <2> QED BY <2>3, <2>4
<1>7. CASE StoreScenarios(s)
  <2>1. PICK d, r : d = arg[s].conv /\ r = [convs[d] EXCEPT !.batch = batches', !.given = batches']
    OBVIOUS
  <2>2. at[s] = "store" /\ convs' = [convs EXCEPT ![d] = r]
    BY <1>7, <2>1 DEF StoreScenarios
  <2>3. CASE c # d
    BY <2>2, <2>3
  <2>4. CASE c = d
    <3>1. /\ r.kind = convs[c].kind /\ r.owner = convs[c].owner /\ r.batch = batches' /\ r.given = batches'
      BY <1>0, <2>1, <2>4 DEF ConvFields
    <3> QED BY <2>1, <2>2, <2>4, <3>1 DEF Gives
  <2> QED BY <2>3, <2>4
<1>8. ASSUME ~OpenSession(s), ~SaveMessage(s), ~CountMessages(s), ~FindCompleted(s), ~Own(s), ~MakeScenarios(s),
             ~StoreScenarios(s)
      PROVE  convs' = convs
  BY <1>8 DEF IntakeStep, TurnStep, OnboardingChat, Tutor, TutorTurn, Turn, IntakeFails, Complete,
              Transcript, ShowTranscript, intakeVars
<1> QED BY <1>1, <1>2, <1>3, <1>4, <1>5, <1>6, <1>7, <1>8

\* A session that is new has no scenarios.
LEMMA IntakeAdds ==
    ASSUME IntakeInv, NEW s \in Slots, IntakeStep(s)
    PROVE  /\ contested \subseteq contested'
           /\ \A c \in DOMAIN convs' : c \in DOMAIN convs \/ convs'[c].batch = 0
<1>1. contested \subseteq contested'
  BY DEF IntakeStep, TurnStep, OnboardingChat, OpenSession, Tutor, TutorTurn, Turn, SaveMessage, CountMessages,
         IntakeFails, Complete, FindCompleted, Own, MakeScenarios, StoreScenarios, Transcript, ShowTranscript, intakeVars
<1>2. CASE OpenSession(s)
  <2>1. IsSequence(convs)
    BY DEF IntakeInv, ConvRows
  <2>2. PICK r : r = Conv(arg[s].lang)
    OBVIOUS
  <2>3. r.batch = 0 /\ (convs' = convs \/ convs' = Append(convs, r))
    BY <1>2, <2>2 DEF OpenSession, Conv
  <2>4. /\ DOMAIN convs = 1 .. Len(convs) /\ Len(convs) \in Nat
        /\ DOMAIN Append(convs, r) = 1 .. Len(convs) + 1
        /\ Append(convs, r)[Len(convs) + 1] = r
    BY <2>1, SequenceKept
  <2> QED BY <1>1, <2>3, <2>4
<1>3. CASE ~OpenSession(s)
  <2>1. DOMAIN convs' = DOMAIN convs
    BY <1>3 DEF IntakeStep, TurnStep, OnboardingChat, Tutor, TutorTurn, Turn, SaveMessage, Said, CountMessages,
                IntakeFails, Complete, FindCompleted, AfterOwner, Own, MakeScenarios, StoreScenarios, Transcript,
                ShowTranscript, intakeVars
  <2> QED BY <1>1, <2>1
<1> QED BY <1>2, <1>3

\* The last caller was given what is stored.
GivenInv == \A c \in DOMAIN convs \ contested : convs[c].batch # 0 => convs[c].given = convs[c].batch

\* A batch that is stored stays, and is what is given.
StillGiven ==
    \A c \in DOMAIN convs \ contested : convs[c].batch # 0 =>
        convs'[c].batch = convs[c].batch /\ convs'[c].given = convs[c].batch

LEMMA IntakeGives ==
    ASSUME IntakeInv, GivenInv, NEW s \in Slots, IntakeStep(s)
    PROVE  StillGiven /\ GivenInv'
<1>1. ASSUME NEW c \in DOMAIN convs \ contested, convs[c].batch # 0
      PROVE  convs'[c].batch = convs[c].batch /\ convs'[c].given = convs[c].batch
  <2>1. CompletedOnce(c) /\ convs[c].given = convs[c].batch
    BY <1>1 DEF IntakeInv, GivenInv
  <2>2. CASE arg[s].conv = c /\ at[s] \in {"scenarios", "store"}
    <3>1. s \in Completing(c) /\ at[s] # "own"
      BY <2>2 DEF Completing
    <3>2. convs[c].batch = 0
      BY <1>1, <2>1, <3>1 DEF CompletedOnce
    <3> QED BY <1>1, <3>2
  <2>3. CASE ~(arg[s].conv = c /\ at[s] \in {"scenarios", "store"})
    <3>1. convs'[c].batch = convs[c].batch
      BY <2>3, IntakeWrites
    <3>2. \/ convs'[c].given = convs[c].given
          \/ convs'[c].given = convs[c].batch
          \/ arg[s].conv = c /\ at[s] = "own" /\ convs'[c].given = arg[s].batch
      BY <2>3, IntakeWrites DEF Gives
    <3>3. CASE arg[s].conv = c /\ at[s] = "own" /\ convs'[c].given = arg[s].batch
      <4>1. s \in Completing(c)
        BY <3>3 DEF Completing
      <4>2. convs[c].batch = arg[s].batch
        BY <1>1, <2>1, <3>3, <4>1 DEF CompletedOnce
      <4> QED BY <3>1, <3>3, <4>2
    <3> QED BY <2>1, <3>1, <3>2, <3>3
  <2> QED BY <2>2, <2>3
<1>2. ASSUME NEW c \in DOMAIN convs' \ contested', convs'[c].batch # 0
      PROVE  convs'[c].given = convs'[c].batch
  <2>1. c \in DOMAIN convs \ contested
    BY <1>2, IntakeAdds
  <2>2. CASE convs[c].batch # 0
    BY <1>1, <2>1, <2>2
  <2>3. CASE convs[c].batch = 0
    BY <1>2, <2>1, <2>3, IntakeWrites
  <2> QED BY <2>2, <2>3
<1> QED BY <1>1, <1>2 DEF StillGiven, GivenInv

-----------------------------------------------------------------------------
(* All of it. *)

\* What the first accounts of a world satisfy.
FirstUsers(us) ==
    /\ us \in Seq({us[a] : a \in DOMAIN us})
    /\ \A a \in DOMAIN us : DOMAIN us[a] = Providers \cup {"email"}
    /\ \A a, b \in DOMAIN us : us[a].email = us[b].email => a = b
    /\ \A a \in DOMAIN us, i \in Identities :
         Verified(i) /\ us[a][i.provider] = i.id => us[a].email = i.email

\* Every world begins with such accounts.
LEMMA WorldsUsers == \A w \in Worlds : FirstUsers(w.users)
  BY UsersAssumption, Zenon DEF FirstUsers

\* Init => AccountsInv.
LEMMA AccountsStart ==
    ASSUME AccountsInit
    PROVE  AccountsInv /\ Stale!Init
<1>1. /\ DOMAIN at = Slots /\ DOMAIN arg = Slots
      /\ \A s \in Slots : at[s] = "idle"
      /\ world \in Worlds /\ users = world.users /\ tokens = << >> /\ rows = << >>
  BY DEF AccountsInit, HandlersInit, SessionsInit, LanguagesInit
<1>2. SessionInv
  <2>0. FirstUsers(users)
    BY <1>1, WorldsUsers, Zenon
  <2>1. /\ users \in Seq({users[a] : a \in DOMAIN users})
        /\ \A a \in DOMAIN users : DOMAIN users[a] = Providers \cup {"email"}
        /\ \A a, b \in DOMAIN users : users[a].email = users[b].email => a = b
        /\ \A a \in DOMAIN users, i \in Identities :
             Verified(i) /\ users[a][i.provider] = i.id => users[a].email = i.email
    BY <2>0 DEF FirstUsers
  <2>2. ASSUME NEW T, NEW q \in Seq(T) PROVE IsSequence(q)
    BY DEF IsSequence
  <2>3. IsSequence(users)
    BY <2>1, <2>2
  <2>4. AccountRows
    BY <2>1, <2>3 DEF AccountRows, Owns, Accounts
  <2>5. TokenRows
    BY <1>1 DEF TokenRows, IsSequence
  <2>6. \A s \in Slots : HoldsIdentity(s) /\ HoldsToken(s)
    BY <1>1 DEF HoldsIdentity, HoldsToken, Finding, Presented, Linking
  <2>7. DOMAIN tokens = {}
    BY <1>1
  <2> QED BY <2>4, <2>5, <2>6, <2>7 DEF SessionInv, AccountInv, TokenInv
<1>3. MarkInv
  <2>1. LanguageTable(rows)
    BY <1>1 DEF LanguageTable, IsSequence
  <2>2. \A s \in Slots : HoldsLanguage(s)
    BY <1>1 DEF HoldsLanguage, InTransaction
  <2>3. \A u : Marked(u) = {}
    BY <1>1 DEF Marked, Live
  <2>4. \A u \in Learners \ mixed : MarkedOnce(u)
    BY <1>1, <2>3 DEF MarkedOnce
  <2> QED BY <2>1, <2>2, <2>4 DEF MarkInv
<1>4. CacheInv /\ Stale!Init
  BY CacheStart DEF AccountsInit
<1>5. IntakeInv
  BY IntakeStart DEF AccountsInit
<1> QED BY <1>1, <1>2, <1>3, <1>4, <1>5 DEF AccountsInv

\* A step of one part leaves the handlers of the others alone.
LEMMA OthersAside ==
    ASSUME DOMAIN at = Slots, DOMAIN arg = Slots, NEW steps, Aside(steps)
    PROVE  \A s \in Slots : Stays(s) \/ at'[s] \notin steps
  BY DEF Aside

LEMMA AccountsStep ==
    ASSUME AccountsInv, AccountsNext
    PROVE  AccountsInv' /\ [Stale!Next]_(Stale!vars)
<1> USE DEF AccountsInv
<1>1. /\ CacheSteps \subseteq LanguageSteps
      /\ "idle" \notin CacheSteps /\ "idle" \notin MarkAwaits /\ MarkAwaits \cap IntakeSteps = {}
      /\ "idle" \notin SessionSteps /\ "idle" \notin IntakeSteps
  <2>1. MarkAwaits \subseteq LanguageSteps \cup SessionSteps
    BY DEF MarkAwaits, LanguageSteps, InTransaction, MarkSteps, SessionSteps, Linking
  <2> QED BY <2>1, OwnAwaits DEF CacheSteps, LanguageSteps
<1>2. ASSUME NEW steps, Aside(steps) PROVE \A s \in Slots : Stays(s) \/ at'[s] \notin steps
  BY <1>2, OthersAside
<1>3. ASSUME NEW s \in Slots, NEW own, MovesIn(s, own)
      PROVE  /\ DOMAIN at' = Slots /\ DOMAIN arg' = Slots
             /\ \A steps : steps \cap own = {} /\ "idle" \notin steps => Aside(steps)
  <2>1. DOMAIN at' = Slots /\ DOMAIN arg' = Slots
    BY <1>3, MovesOne DEF MovesIn
  <2>2. ASSUME NEW steps, steps \cap own = {}, "idle" \notin steps PROVE Aside(steps)
    BY <1>3, <2>2, MovesAside
  <2> QED BY <2>1, <2>2
<1>4. ASSUME UNCHANGED languageVars, \A s \in Slots : Stays(s) \/ at'[s] \notin CacheSteps,
             \A s \in Slots : Stays(s) \/ at'[s] \notin MarkAwaits
      PROVE  MarkInv' /\ CacheInv' /\ [Stale!Next]_(Stale!vars)
  BY <1>4, MarksUntouched, CacheUntouched DEF languageVars
<1>5. ASSUME UNCHANGED intakeVars, world' = world, Aside(IntakeSteps) PROVE IntakeInv'
  <2>1. ConvRows' /\ DOMAIN convs' = DOMAIN convs /\ UNCHANGED <<convs, batches, broken, contested>>
    BY <1>5 DEF intakeVars, IntakeInv, ConvRows
  <2> QED BY <1>5, <2>1, IntakeUntouched
<1>6. ASSUME NEW s \in Slots, SessionStep(s), UNCHANGED <<languageVars, intakeVars>>
      PROVE  AccountsInv' /\ [Stale!Next]_(Stale!vars)
  <2>1. MovesIn(s, SessionSteps) /\ world' = world
    BY <1>6, SessionOwn
  <2>2. /\ DOMAIN at' = Slots /\ DOMAIN arg' = Slots
        /\ Aside(CacheSteps) /\ Aside(IntakeSteps)
    BY <1>1, <1>3, <2>1, OwnAwaits
  <2>3. SessionInv'
    BY <1>6, SessionKept
  <2>4. \A r \in Slots : Stays(r) \/ at'[r] \notin MarkAwaits
    BY <1>6, SessionMarksNothing
  <2> QED BY <1>2, <1>4, <1>5, <1>6, <2>1, <2>2, <2>3, <2>4
<1>7. ASSUME NEW s \in Slots, LanguageStep(s), UNCHANGED <<sessionVars, intakeVars>>
      PROVE  AccountsInv' /\ [Stale!Next]_(Stale!vars)
  <2>1. MovesIn(s, LanguageSteps) /\ world' = world
    BY <1>7, LanguageOwn
  <2>2. /\ DOMAIN at' = Slots /\ DOMAIN arg' = Slots
        /\ Aside(SessionSteps) /\ Aside(IntakeSteps)
    BY <1>1, <1>3, <2>1, OwnAwaits
  <2>3. MarkInv' /\ CacheInv' /\ [Stale!Next]_(Stale!vars)
    BY <1>7, MarkStep, CacheStep
  <2>4. SessionInv'
    BY <1>2, <1>7, <2>2, SessionUntouched
  <2> QED BY <1>5, <1>7, <2>1, <2>2, <2>3, <2>4
<1>8. ASSUME NEW s \in Slots, IntakeStep(s), UNCHANGED <<sessionVars, languageVars>>
      PROVE  AccountsInv' /\ [Stale!Next]_(Stale!vars)
  <2>1. MovesIn(s, IntakeSteps) /\ world' = world
    BY <1>8, IntakeOwn
  <2>2. /\ DOMAIN at' = Slots /\ DOMAIN arg' = Slots
        /\ Aside(SessionSteps) /\ Aside(CacheSteps) /\ Aside(MarkAwaits)
    BY <1>1, <1>3, <2>1, OwnAwaits
  <2>3. IntakeInv'
    BY <1>8, IntakeKept
  <2>4. SessionInv'
    BY <1>2, <1>8, <2>2, SessionUntouched
  <2> QED BY <1>2, <1>4, <1>8, <2>2, <2>3, <2>4
<1>9. ASSUME NEW s \in Slots, LinkStep(s) PROVE AccountsInv' /\ [Stale!Next]_(Stale!vars)
  <2>1. MovesIn(s, SessionSteps) /\ world' = world
    BY <1>9, SessionOwn
  <2>2. /\ DOMAIN at' = Slots /\ DOMAIN arg' = Slots
        /\ Aside(CacheSteps) /\ Aside(IntakeSteps)
    BY <1>1, <1>3, <2>1, OwnAwaits
  <2>3. SessionInv'
    BY <1>9, SessionKept
  <2>4. /\ ConvRows' /\ DOMAIN convs' = DOMAIN convs /\ UNCHANGED <<batches, broken, contested>>
        /\ \A c \in DOMAIN convs : /\ convs'[c].said = convs[c].said /\ convs'[c].count = convs[c].count
                                   /\ convs'[c].batch = convs[c].batch
    BY <1>9, ConvsClaimed DEF IntakeInv
  <2>5. IntakeInv'
    BY <2>1, <2>2, <2>4, IntakeUntouched
  <2>6. UNCHANGED <<active, cache, now, held>>
    BY <1>9 DEF LinkStep, FindSession, Claim, Bootstrap, BootstrapFind, BootstrapSet, LinkFails, accountVars, languageVars
  <2>7. CacheInv' /\ [Stale!Next]_(Stale!vars)
    BY <1>2, <2>2, <2>6, CacheUntouched
  <2>8. MarkInv'
    <3>1. CASE Bootstrap(s) \/ BootstrapFind(s)
      BY <3>1, MarksBootstrapping
    <3>2. CASE BootstrapSet(s)
      BY <3>2, MarkBootstrapped
    <3>3. CASE FindSession(s) \/ Claim(s) \/ LinkFails(s)
      <4>1. PICK step \in {"claim", "bootstrap", "issue"} : Moved(s, step, arg[s])
        BY <3>3, HandlersMove DEF FindSession, Claim, LinkFails
      <4>2. \A r \in Slots : Stays(r) \/ at'[r] \notin MarkAwaits
        BY <4>1, MovesOne DEF MarkAwaits, MarkSteps, InTransaction
      <4>3. UNCHANGED <<rows, mixed>>
        BY <3>3 DEF FindSession, Claim, LinkFails, accountVars, languageVars
      <4> QED BY <4>2, <4>3, MarksUntouched
    <3> QED BY <1>9, <3>1, <3>2, <3>3 DEF LinkStep
  <2> QED BY <2>2, <2>3, <2>5, <2>7, <2>8
<1>10. ASSUME UNCHANGED <<world, at, arg>>
       PROVE  /\ DOMAIN at' = Slots /\ DOMAIN arg' = Slots /\ world' = world
              /\ \A steps : Aside(steps)
              /\ \A s \in Slots : Stays(s)
  BY <1>10 DEF Aside, Stays
<1>11. CASE Logout /\ UNCHANGED <<languageVars, intakeVars>>
  <2>1. UNCHANGED <<world, at, arg>>
    BY <1>11 DEF Logout, Instant
  <2>2. SessionInv'
    BY <1>11, TokensRevoked
  <2> QED BY <1>4, <1>5, <1>10, <1>11, <2>1, <2>2
<1>12. CASE (RemoveLanguage \/ Tick \/ \E l \in Langs : SetActive(l)) /\ UNCHANGED <<sessionVars, intakeVars>>
  <2>1. UNCHANGED <<world, at, arg>>
    BY <1>12 DEF RemoveLanguage, Tick, SetActive, Instant, handlerVars
  <2>2. SessionInv' /\ IntakeInv'
    BY <1>5, <1>10, <1>12, <2>1, SessionUntouched
  <2>3. CASE RemoveLanguage
    <3>1. MarkInv' /\ UNCHANGED <<active, cache, now, held>>
      BY <2>3, MarkRemoved DEF RemoveLanguage
    <3>2. CacheInv' /\ [Stale!Next]_(Stale!vars)
      BY <1>10, <2>1, <3>1, CacheUntouched
    <3> QED BY <1>10, <2>1, <2>2, <3>1, <3>2
  <2>4. CASE Tick \/ \E l \in Langs : SetActive(l)
    <3>1. CacheInv' /\ Stale!Next
      BY <2>4, TickStep, SwitchStep
    <3>2. UNCHANGED <<rows, mixed>>
      BY <2>4 DEF Tick, SetActive
    <3>3. MarkInv'
      BY <1>10, <2>1, <3>2, MarksUntouched
    <3> QED BY <1>10, <2>1, <2>2, <3>1, <3>3
  <2> QED BY <1>12, <2>3, <2>4
<1>13. CASE Restart /\ LanguageRestart /\ IntakeRestart /\ UNCHANGED sessionVars
  <2>1. DOMAIN at' = Slots /\ DOMAIN arg' = Slots /\ \A s \in Slots : at'[s] = "idle"
    BY <1>13 DEF Restart
  <2>2. \A s \in Slots : at'[s] \notin SessionSteps /\ at'[s] \notin CacheSteps /\ at'[s] \notin MarkAwaits
    BY <1>1, <2>1
  <2>3. SessionInv'
    BY <1>13, <2>2, SessionUntouched
  <2>4. MarkInv' /\ CacheInv' /\ [Stale!Next]_(Stale!vars)
    BY <1>13, <2>2, MarksUntouched, CacheUntouched DEF LanguageRestart
  <2>5. IntakeInv'
    BY <1>13, IntakeRestarted
  <2> QED BY <2>1, <2>3, <2>4, <2>5
<1>14. CASE \E s \in Slots : AccountStep(s)
  BY <1>6, <1>7, <1>8, <1>9, <1>14 DEF AccountStep, LinkStep
<1> QED BY <1>11, <1>12, <1>13, <1>14 DEF AccountsNext

LEMMA AccountsStutters ==
    ASSUME AccountsInv, UNCHANGED <<handlerVars, accountVars>>
    PROVE  AccountsInv' /\ UNCHANGED Stale!vars
<1>1. /\ \A s \in Slots : Stays(s)
      /\ \A steps : Aside(steps)
      /\ world' = world /\ DOMAIN at' = Slots /\ DOMAIN arg' = Slots
      /\ UNCHANGED <<sessionVars, languageVars, intakeVars>>
  BY DEF handlerVars, accountVars, AccountsInv, Aside, Stays
<1>2. SessionInv'
  BY <1>1, SessionUntouched DEF AccountsInv
<1>3. MarkInv' /\ CacheInv'
  BY <1>1, MarksUntouched, CacheUntouched DEF AccountsInv, languageVars
<1>4. IntakeInv'
  <2>1. ConvRows' /\ DOMAIN convs' = DOMAIN convs /\ UNCHANGED <<convs, batches, broken, contested>>
    BY <1>1 DEF intakeVars, AccountsInv, IntakeInv, ConvRows
  <2> QED BY <1>1, <2>1, IntakeUntouched DEF AccountsInv
<1>5. UNCHANGED Stale!vars
  BY DEF handlerVars, accountVars, languageVars, Stale!vars, Asked
<1> QED BY <1>1, <1>2, <1>3, <1>4, <1>5 DEF AccountsInv

\* The processes keep the invariant, whatever the users, the worlds and the bounds.
THEOREM AccountsInvariance == AccountsSpec => []AccountsInv
<1>1. AccountsInit => AccountsInv
  BY AccountsStart
<1>2. AccountsInv /\ [AccountsNext]_<<handlerVars, accountVars>> => AccountsInv'
  BY AccountsStep, AccountsStutters
<1> QED BY <1>1, <1>2, PTL DEF AccountsSpec

\* Whoever signs in, with either provider and beside whatever other sign-in, is given
\* the one account that has the verified e-mail (firebaseLogin).
THEOREM AccountPerEmail == AccountsSpec => []OneAccount
<1>1. AccountsInv => OneAccount
  BY SessionMeans DEF AccountsInv
<1> QED BY <1>1, AccountsInvariance, PTL

\* A refresh token is worth one new token, unless two requests presented it at the
\* same moment (refreshTokens).
THEOREM SuccessorPerToken == AccountsSpec => []OneSuccessor
<1>1. AccountsInv => OneSuccessor
  BY SessionMeans DEF AccountsInv
<1> QED BY <1>1, AccountsInvariance, PTL

\* One language at most is the one last learned, unless two requests changed the marks
\* at the same moment (addUserLanguage, update, markLastLearned, bootstrapUserLanguage).
THEOREM MarkPerLearner == AccountsSpec => []OneLastLearned
<1>1. AccountsInv => OneLastLearned
  BY MarkMeans DEF AccountsInv
<1> QED BY <1>1, AccountsInvariance, PTL

\* The count of a conversation and what its turns have yet to add are its messages,
\* unless a turn was cut short (IntakeChatEngine.runTurn).
THEOREM TurnsAddUp == AccountsSpec => []TurnsCounted
<1>1. AccountsInv => TurnsCounted
  BY IntakeMeans DEF AccountsInv
<1> QED BY <1>1, AccountsInvariance, PTL

\* The cap is outgrown by two messages for each turn at work at most.
THEOREM TranscriptCapped == AccountsSpec => []TranscriptBounded
<1>1. AccountsInv => TranscriptBounded
  BY IntakeMeans DEF AccountsInv
<1> QED BY <1>1, AccountsInvariance, PTL

\* Once a session has scenarios stored they are kept, and every later caller is given
\* them, unless two callers completed it at the same time (OnboardingService.complete).
THEOREM CompletionStable == AccountsSpec => CompleteStable
<1>1. AccountsInit => GivenInv
  BY IntakeAssumption DEF AccountsInit, HandlersInit, IntakeInit, GivenInv
<1>2. ASSUME AccountsInv, GivenInv, AccountsNext PROVE StillGiven /\ GivenInv'
  <2>1. ASSUME NEW s \in Slots, IntakeStep(s) PROVE StillGiven /\ GivenInv'
    BY <1>2, <2>1, IntakeGives DEF AccountsInv
  <2>2. ASSUME NEW s \in Slots, LinkStep(s) PROVE StillGiven /\ GivenInv'
    <3>1. ConvRows
      BY <1>2 DEF AccountsInv, IntakeInv
    <3> QED BY <1>2, <2>2, <3>1, ConvsClaimed DEF GivenInv, StillGiven
  <2>3. ASSUME UNCHANGED <<convs, contested>> PROVE StillGiven /\ GivenInv'
    BY <1>2, <2>3 DEF GivenInv, StillGiven
  <2> QED BY <1>2, <2>1, <2>2, <2>3 DEF AccountsNext, AccountStep, LinkStep, IntakeRestart, intakeVars
<1>3. AccountsInv /\ GivenInv /\ [AccountsNext]_<<handlerVars, accountVars>> => [StillGiven]_intakeVars /\ GivenInv'
  <2>1. UNCHANGED <<handlerVars, accountVars>> => UNCHANGED intakeVars
    BY DEF accountVars
  <2>2. GivenInv /\ UNCHANGED intakeVars => GivenInv'
    BY DEF intakeVars, GivenInv
  <2> QED BY <1>2, <2>1, <2>2
<1>4. [StillGiven]_intakeVars => [\A c \in DOMAIN convs \ contested : convs[c].batch # 0 =>
          convs'[c].batch = convs[c].batch /\ convs'[c].given = convs[c].batch]_intakeVars
  BY DEF StillGiven
<1>5. AccountsSpec => []GivenInv
  BY <1>1, <1>3, AccountsInvariance, PTL DEF AccountsSpec
<1> QED BY <1>3, <1>4, <1>5, AccountsInvariance, PTL DEF AccountsSpec, CompleteStable

\* A session is taken over once (linkOnboardingSession repeats the condition in its
\* update); after that only a completion that had found it unowned writes an owner.
THEOREM ClaimOnce == AccountsSpec => ClaimedOnce
<1> DEFINE Once == \A c \in DOMAIN convs : convs[c].kind = "authenticated" =>
                     /\ convs'[c].kind = "authenticated"
                     /\ convs'[c].owner # convs[c].owner => \E s \in Slots : Own(s)
<1>1. ASSUME AccountsInv, AccountsNext PROVE Once \/ UNCHANGED convs
  <2>1. ASSUME NEW s \in Slots, IntakeStep(s) PROVE Once
    BY <1>1, <2>1, IntakeWrites DEF AccountsInv
  <2>2. ASSUME NEW s \in Slots, LinkStep(s) PROVE Once
    BY <1>1, <2>2, ConvsClaimed DEF AccountsInv, IntakeInv
  <2>3. IntakeRestart => UNCHANGED convs
    BY DEF IntakeRestart
  <2> QED BY <1>1, <2>1, <2>2, <2>3 DEF AccountsNext, AccountStep, LinkStep, intakeVars
<1>2. AccountsInv /\ [AccountsNext]_<<handlerVars, accountVars>> => [Once]_convs
  BY <1>1 DEF accountVars, intakeVars
<1> QED BY <1>2, AccountsInvariance, PTL DEF AccountsSpec, ClaimedOnce

\* The guard, with its cache of language codes that nothing invalidates, implements
\* StaleRead: a language is served if it was active within the time to live.
THEOREM LanguagesImplementStaleRead == AccountsSpec => LanguageIsFresh
<1>1. AccountsInit => Stale!Init
  BY AccountsStart
<1>2. AccountsInv /\ [AccountsNext]_<<handlerVars, accountVars>> => [Stale!Next]_(Stale!vars)
  BY AccountsStep, AccountsStutters
<1> QED BY <1>1, <1>2, AccountsInvariance, PTL DEF AccountsSpec, LanguageIsFresh, Stale!Spec

=============================================================================
