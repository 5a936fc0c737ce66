--------------------------- MODULE PracticeProofs ---------------------------
(***************************************************************************)
(* Proofs about Practice: the generation of personal scenarios, the        *)
(* reviews of the vocabulary and the catalogue, at work in one process.    *)
(* Each keeps its invariant by its own steps; the steps of the others do   *)
(* not touch its variables, nor the slots that are at its awaits.          *)
(***************************************************************************)
EXTENDS Practice, CatalogProofs, FiniteSetTheorems

-----------------------------------------------------------------------------
(* The trial. *)

JobFields == {"op", "user", "conv", "quota", "lately", "snap", "profile", "rows", "stamp"}
IsJob(a) == DOMAIN a = JobFields /\ a.rows \in Nat

\* Answered on trial, and not marked yet.
Unmarked(u) == {s \in Working(u) : at[s] \in {"track", "trial"} /\ arg[s].quota = "trial"}
\* Promised a trial, and not answered yet.
Promised(u) == {s \in Working(u) :
    at[s] \in {"user", "profile", "generate", "save", "commit"} /\ arg[s].quota = "trial"}

\* A user of whom no two generations overlapped and none was cut short: whoever is
\* promised a trial has had none, and the one that was had is marked or about to be.
TrialOf(u) ==
    /\ \A r, s \in Working(u) : r = s
    /\ made[u] <= 1
    /\ made[u] = 1 => u \in trial \/ Unmarked(u) # {}
    /\ Promised(u) # {} => made[u] = 0 /\ u \notin trial

TrialInv ==
    /\ made \in [Callers -> Nat]
    /\ \A s \in Slots : at[s] \in Generating => arg[s].user \in Callers /\ IsJob(arg[s])
    /\ \A u \in Callers \ lapsed : TrialOf(u)

-----------------------------------------------------------------------------
(* The personal scenarios. *)

ScenarioInv ==
    /\ personal \in [Callers -> {personal[u] : u \in Callers}]
    /\ \A u \in Callers : WellPruned(personal[u])

-----------------------------------------------------------------------------
(* The reviews. *)

RowSteps == {"select card", "write card"}
RateSteps == RowSteps \cup {"card"}
ReviewSteps == RateSteps \cup {"boxes"} \cup Translating

CardRow == [word : Words, box : 1 .. MaxBox, due : BOOLEAN, count : Nat, right : Nat, real : Nat,
            live : BOOLEAN]

\* What a rating holds: a session's card, claimed by nobody else.
HoldsClaim(s) ==
    at[s] \in RateSteps =>
      LET i == arg[s].session
          c == arg[s].card IN
      /\ i \in DOMAIN sessions /\ c \in sessions[i].cards
      /\ c \in DOMAIN sessions[i].rated /\ sessions[i].saved[c] = 0 /\ c \notin sessions[i].lost
      /\ \A r \in Slots : at[r] \in RateSteps /\ arg[r].session = i /\ arg[r].card = c => r = s

IsSequence(q) == Len(q) \in Nat /\ q = [i \in 1 .. Len(q) |-> q[i]]
SessionFields == {"cards", "rated", "saved", "lost", "live", "old"}

SessionTypes ==
    /\ IsSequence(sessions)
    /\ \A i \in DOMAIN sessions :
         /\ DOMAIN sessions[i] = SessionFields
         /\ sessions[i].cards \subseteq DOMAIN cards /\ DOMAIN sessions[i].saved = sessions[i].cards
         /\ \A c \in sessions[i].cards : sessions[i].saved[c] \in Nat

\* A row on its way to the database counts one review more than the card has had at
\* most; of a card nobody disturbed it is the card with one review more.
HoldsRow(s) ==
    at[s] \in RowSteps =>
      LET c == cards[arg[s].card]
          new == arg[s].row
          was == arg[s].was IN
      /\ DOMAIN arg[s] = {"op", "session", "card", "correct", "was", "row"}
      /\ arg[s].card \in DOMAIN cards /\ new \in CardRow /\ was \in CardRow
      /\ new.count <= c.real + 1
      /\ arg[s].card \notin disturbed =>
           /\ Rating(arg[s].card) = {s}
           /\ new.count = c.count + 1 /\ new.right <= new.count /\ new.box <= new.right + 1
           /\ was.box = c.box /\ was.count = c.count /\ was.right = c.right

\* The half about the rows, and the half about the claims.
RowInv ==
    /\ cards \in Seq(CardRow) /\ disturbed \subseteq DOMAIN cards
    /\ CountsAddUp
    /\ \A s \in Slots : HoldsRow(s)
ClaimInv ==
    /\ SessionTypes /\ RatedOnce
    /\ \A s \in Slots : HoldsClaim(s)

ReviewInv == RowInv /\ ClaimInv

-----------------------------------------------------------------------------
(* The sentence. *)

AtSentence == {s \in Slots : at[s] \in Translating}

\* A translation, as it is stored and as it is about to be.
Agrees(m) == m = Blank \/ \E l \in Tongues, v \in 1 .. 2 : m = [text |-> <<l, v>>, lang |-> <<l>>]
\* Nothing of the translation is what the row had when it was read.
Apart(was, new) == was.text # new.text /\ was.lang # new.lang

\* What a translation at work may rely on: what it writes will be all of it.
Writable(s) ==
    at[s] = "write message" => arg[s].was = message \/ Apart(arg[s].was, arg[s].new)
\* While nobody has written since it began: the row is in another language.
Elsewhere(s) ==
    /\ at[s] = "ask sentence" => message.lang # <<arg[s].lang>>
    /\ at[s] \in {"select message", "write message"} => message.lang # arg[s].new.lang
    /\ at[s] = "write message" => arg[s].was = message

HoldsSentence(s) ==
    /\ at[s] = "ask sentence" => arg[s].lang \in Tongues
    /\ at[s] \in {"select message", "write message"} =>
         DOMAIN arg[s] = {"op", "new", "was"} /\ Agrees(arg[s].new) /\ arg[s].new # Blank
SentenceTypes ==
    /\ crowd \in 0 .. 3
    /\ \A s \in Slots : HoldsSentence(s)
    /\ DOMAIN message = {"text", "lang"}

SentenceInv ==
    /\ SentenceTypes
    /\ crowd < 3 =>
         /\ Agrees(message)
         /\ crowd = 0 => AtSentence = {}
         /\ crowd = 1 => \A r, s \in AtSentence : r = s
         /\ crowd = 2 => \A q, r, s \in AtSentence : q = r \/ r = s \/ q = s
         /\ \A s \in AtSentence :
              Writable(s) /\ (crowd = 1 \/ AtSentence # {s} => Elsewhere(s))

PracticeInv == CatalogInv /\ TrialInv /\ ScenarioInv /\ ReviewInv /\ SentenceInv

-----------------------------------------------------------------------------
(* Whose slot it is. *)

\* The awaits of personalization that belong to no generation, those of the
\* conversations among them.
TalkSteps == {"open personal", "offer", "emit", "open", "turn", "tutor", "message", "reply", "count",
              "complete", "own", "scenarios", "store", "transcript"}
PersonalSteps == Generating \cup TalkSteps

\* A step leaves the handlers that are at these awaits where they are, and starts none.
Aside(steps) ==
    /\ DOMAIN at' = Slots /\ DOMAIN arg' = Slots
    /\ \A s \in Slots : at[s] \in steps \/ at'[s] \in steps => at'[s] = at[s] /\ arg'[s] = arg[s]

\* A handler moves from one of its module's awaits, or from none, to another.
MovesIn(s, steps) == at[s] \in steps \cup {"idle"} /\ \E step \in steps \cup {"idle"} : \E a : Moved(s, step, a)

\* A handler that moves among its own awaits leaves the others' alone.
LEMMA MovesAside ==
    ASSUME DOMAIN at = Slots, DOMAIN arg = Slots, NEW s \in Slots, NEW own, MovesIn(s, own),
           NEW steps, steps \cap own = {}, "idle" \notin steps
    PROVE  Aside(steps) /\ Foreign(steps)
<1>1. PICK step \in own \cup {"idle"} : \E a : Moved(s, step, a)
  BY DEF MovesIn
<1>2. /\ DOMAIN at' = Slots /\ DOMAIN arg' = Slots /\ at'[s] = step
      /\ \A r \in Slots \ {s} : at'[r] = at[r] /\ arg'[r] = arg[r]
  BY <1>1, MovesOne
<1>3. at[s] \notin steps /\ at'[s] \notin steps
  BY <1>2 DEF MovesIn
<1> QED BY <1>2, <1>3 DEF Aside, Foreign, Bystands

\* A request that is over in a statement, and a moment that is nobody's.
LEMMA InstantAside ==
    ASSUME DOMAIN at = Slots, DOMAIN arg = Slots, UNCHANGED <<at, arg>>, NEW steps
    PROVE  Aside(steps) /\ Foreign(steps)
  BY DEF Aside, Foreign, Bystands

\* No await belongs to two modules.
LEMMA OwnAwaits ==
    /\ CatalogSteps \cap ReviewSteps = {} /\ CatalogSteps \cap PersonalSteps = {}
    /\ ReviewSteps \cap PersonalSteps = {} /\ Generating \cap TalkSteps = {}
    /\ Generating \cap (CatalogSteps \cup ReviewSteps) = {} /\ "idle" \notin Generating
    /\ "idle" \notin CatalogSteps /\ "idle" \notin ReviewSteps /\ "idle" \notin PersonalSteps
  BY DEF CatalogSteps, Fetching, ReviewSteps, RowSteps, RateSteps, Translating, PersonalSteps, TalkSteps, Generating

\* The catalogue's handlers keep to the catalogue's awaits.
LEMMA CatalogOwn ==
    ASSUME NEW s \in Slots, CatalogStep(s)
    PROVE  MovesIn(s, CatalogSteps)
<1> USE HandlersMove DEF MovesIn, CatalogSteps, Fetching
<1>1. CASE EditContent(s) \/ UpdateContent(s)
  BY <1>1 DEF EditContent, UpdateContent
<1>2. CASE CreateBundle(s) \/ AttachScenarios(s)
  BY <1>2 DEF CreateBundle, AttachScenarios
<1>3. CASE ValidateScenarios(s) \/ AssertNoAttachments(s)
  BY <1>3 DEF ValidateScenarios, AssertNoAttachments
<1>4. CASE StoreBundle(s) \/ Grant(s) \/ OpenChat(s) \/ CatalogFails(s)
  BY <1>4 DEF StoreBundle, Grant, OpenChat, CatalogFails
<1>5. CASE Redeem(s) \/ FindBundle(s)
  BY <1>5 DEF Redeem, FindBundle
<1>6. CASE EnterChat(s) \/ LookUpTier(s)
  BY <1>6 DEF EnterChat, LookUpTier
<1>7. CASE FetchTier(s) \/ PutTier(s) \/ GuardChat(s)
  BY <1>7 DEF FetchTier, PutTier, GuardChat
<1> QED BY <1>1, <1>2, <1>3, <1>4, <1>5, <1>6, <1>7 DEF CatalogStep

\* So do those of the reviews,
LEMMA ReviewOwn ==
    ASSUME NEW s \in Slots, ReviewStep(s)
    PROVE  MovesIn(s, ReviewSteps)
<1> USE HandlersMove DEF MovesIn, ReviewSteps, RowSteps, RateSteps, Translating
<1>1. CASE Rate(s)
  BY <1>1 DEF Rate
<1>2. CASE FindCard(s)
  BY <1>2 DEF FindCard
<1>3. CASE SelectCard(s)
  BY <1>3 DEF SelectCard
<1>4. CASE WriteCard(s) \/ RatingFails(s) \/ CloseReview(s)
  BY <1>4 DEF WriteCard, RatingFails, CloseReview
<1>5. CASE CompleteReview(s)
  BY <1>5 DEF CompleteReview
<1>6. CASE Sentence(s)
  BY <1>6 DEF Sentence
<1>7. CASE AskSentence(s) \/ SelectMessage(s)
  BY <1>7 DEF AskSentence, SelectMessage
<1>8. CASE WriteMessage(s) \/ SentenceFails(s)
  BY <1>8 DEF WriteMessage, SentenceFails
<1> QED BY <1>1, <1>2, <1>3, <1>4, <1>5, <1>6, <1>7, <1>8 DEF ReviewStep

\* those of the intake chat and the offer,
LEMMA TalkOwn ==
    ASSUME NEW s \in Slots, PersonalStep(s), at[s] \notin Generating, ~PersonalComplete(s)
    PROVE  MovesIn(s, TalkSteps)
<1> USE HandlersMove DEF MovesIn, TalkSteps
<1>1. CASE Turn(s)
  <2>1. \E a : Moved(s, "reply", a) \/ Moved(s, "message", a) \/ Moved(s, "idle", a)
    BY <1>1 DEF Turn
  <2>2. at[s] = "turn"
    BY <1>1 DEF Turn
  <2> QED BY <2>1, <2>2
<1>2. CASE SaveMessage(s)
  BY <1>2 DEF SaveMessage
<1>3. CASE CountMessages(s)
  BY <1>3 DEF CountMessages
<1>4. CASE IntakeFails(s)
  BY <1>4 DEF IntakeFails
<1>5. CASE PersonalChat(s)
  BY <1>5 DEF PersonalChat
<1>6. CASE OpenPersonal(s)
  <2>1. \E a : Moved(s, "turn", a) \/ Moved(s, "idle", a)
    BY <1>6 DEF OpenPersonal
  <2>2. at[s] = "open personal"
    BY <1>6 DEF OpenPersonal
  <2> QED BY <2>1, <2>2
<1>7. CASE GenerationFails(s)
  <2>1. at[s] \in {"open personal", "offer", "emit"} /\ Moved(s, "idle", Nothing)
    BY <1>7 DEF GenerationFails
  <2> QED BY <2>1
<1>8. CASE Offer(s) \/ TakeAdvisoryLock(s) \/ Emit(s)
  BY <1>8 DEF Offer, TakeAdvisoryLock, Emit
<1>9. ~(CheckOwner(s) \/ CheckQuota(s) \/ LoadUser(s) \/ ExtractProfile(s) \/ Generate(s) \/ SaveBatch(s)
        \/ CommitBatch(s) \/ Track(s) \/ MarkTrialUsed(s) \/ Prune(s))
  BY DEF CheckOwner, CheckQuota, LoadUser, ExtractProfile, Generate, SaveBatch, CommitBatch, Track,
         MarkTrialUsed, Prune, Generating
<1> HIDE DEF MovesIn
<1> QED BY <1>1, <1>2, <1>3, <1>4, <1>5, <1>6, <1>7, <1>8, <1>9 DEF PersonalStep, TurnStep

\* and those of a generation.
LEMMA GenerationOwn ==
    ASSUME NEW s \in Slots,
           \/ PersonalComplete(s) \/ CheckOwner(s) \/ CheckQuota(s) \/ LoadUser(s) \/ ExtractProfile(s)
           \/ Generate(s) \/ SaveBatch(s) \/ CommitBatch(s) \/ Track(s) \/ MarkTrialUsed(s) \/ Prune(s)
           \/ at[s] \in Generating /\ GenerationFails(s)
    PROVE  MovesIn(s, Generating)
<1> USE HandlersMove DEF MovesIn, Generating
<1>1. CASE PersonalComplete(s) \/ CheckOwner(s)
  BY <1>1 DEF PersonalComplete, CheckOwner
<1>2. CASE CheckQuota(s)
  BY <1>2 DEF CheckQuota
<1>3. CASE LoadUser(s)
  BY <1>3 DEF LoadUser
<1>4. CASE ExtractProfile(s)
  BY <1>4 DEF ExtractProfile
<1>5. CASE Generate(s) \/ SaveBatch(s) \/ CommitBatch(s)
  BY <1>5 DEF Generate, SaveBatch, CommitBatch
<1>6. CASE Track(s) \/ MarkTrialUsed(s)
  BY <1>6 DEF Track, MarkTrialUsed
<1>7. CASE Prune(s)
  BY <1>7 DEF Prune
<1>8. CASE at[s] \in Generating /\ GenerationFails(s)
  BY <1>8 DEF GenerationFails
<1> QED BY <1>1, <1>2, <1>3, <1>4, <1>5, <1>6, <1>7, <1>8

\* A handler of personalization is a generation, or it is not.
LEMMA TalkOrGenerate ==
    ASSUME NEW s \in Slots, PersonalStep(s)
    PROVE  \/ at[s] \notin Generating /\ ~PersonalComplete(s)
           \/ PersonalComplete(s) \/ CheckOwner(s) \/ CheckQuota(s) \/ LoadUser(s) \/ ExtractProfile(s)
           \/ Generate(s) \/ SaveBatch(s) \/ CommitBatch(s) \/ Track(s) \/ MarkTrialUsed(s) \/ Prune(s)
           \/ at[s] \in Generating /\ GenerationFails(s)
<1>1. CASE at[s] \in Generating
  <2>1. ~(Turn(s) \/ SaveMessage(s) \/ CountMessages(s) \/ IntakeFails(s) \/ PersonalChat(s) \/ OpenPersonal(s)
          \/ Offer(s) \/ TakeAdvisoryLock(s) \/ Emit(s))
    BY <1>1 DEF Turn, SaveMessage, CountMessages, IntakeFails, PersonalChat, OpenPersonal, Offer,
                TakeAdvisoryLock, Emit, Begin, Generating
  <2> QED BY <1>1, <2>1 DEF PersonalStep, TurnStep
<1> QED BY <1>1

\* Together they are the handlers of personalization.
LEMMA PersonalOwn ==
    ASSUME NEW s \in Slots, PersonalStep(s)
    PROVE  MovesIn(s, PersonalSteps)
<1>1. MovesIn(s, TalkSteps) \/ MovesIn(s, Generating)
  BY TalkOrGenerate, TalkOwn, GenerationOwn
<1> QED BY <1>1 DEF MovesIn, PersonalSteps

-----------------------------------------------------------------------------
(* The trial is used once. *)

\* The handler in a slot moves: who generates, who has been answered and who is
\* promised a trial changes by that slot.
LEMMA WorkMoved ==
    ASSUME DOMAIN at = Slots, DOMAIN arg = Slots, NEW s \in Slots, NEW step, NEW a, Moved(s, step, a), NEW u
    PROVE  /\ Working(u)' = IF step \in Generating \ {"owner", "prune"} /\ a.user = u
                            THEN Working(u) \cup {s} ELSE Working(u) \ {s}
           /\ Unmarked(u)' = IF step \in {"track", "trial"} /\ a.user = u /\ a.quota = "trial"
                             THEN Unmarked(u) \cup {s} ELSE Unmarked(u) \ {s}
           /\ Promised(u)' = IF step \in {"user", "profile", "generate", "save", "commit"} /\ a.user = u /\ a.quota = "trial"
                             THEN Promised(u) \cup {s} ELSE Promised(u) \ {s}
<1>1. /\ at'[s] = step /\ arg'[s] = a
      /\ \A r \in Slots \ {s} : at'[r] = at[r] /\ arg'[r] = arg[r]
  BY MovesOne
<1>2. \A r \in Slots : r \in Working(u)' <=>
        IF r = s THEN step \in Generating \ {"owner", "prune"} /\ a.user = u ELSE r \in Working(u)
  BY <1>1 DEF Working
<1>3. \A r \in Slots : r \in Unmarked(u)' <=>
        IF r = s THEN step \in {"track", "trial"} /\ a.user = u /\ a.quota = "trial" ELSE r \in Unmarked(u)
  BY <1>1 DEF Unmarked, Working, Generating
<1>4. \A r \in Slots : r \in Promised(u)' <=>
        IF r = s THEN step \in {"user", "profile", "generate", "save", "commit"} /\ a.user = u /\ a.quota = "trial"
        ELSE r \in Promised(u)
  BY <1>1 DEF Promised, Working, Generating
<1>5. /\ Working(u) \subseteq Slots /\ Unmarked(u) \subseteq Slots /\ Promised(u) \subseteq Slots
      /\ Working(u)' \subseteq Slots /\ Unmarked(u)' \subseteq Slots /\ Promised(u)' \subseteq Slots
  BY DEF Working, Unmarked, Promised
<1> QED BY <1>2, <1>3, <1>4, <1>5

\* A user nobody's generation of whom moves.
LEMMA TrialElsewhere ==
    ASSUME NEW u, TrialOf(u), Working(u)' = Working(u), Unmarked(u)' = Unmarked(u), Promised(u)' = Promised(u),
           made'[u] = made[u], u \in trial' <=> u \in trial
    PROVE  TrialOf(u)'
  BY DEF TrialOf

\* A step that touches no generation and no count.
LEMMA TrialUntouched ==
    ASSUME TrialInv, Aside(Generating), UNCHANGED <<made, trial>>, lapsed \subseteq lapsed'
    PROVE  TrialInv'
<1>1. \A u : Working(u)' = Working(u) /\ Unmarked(u)' = Unmarked(u) /\ Promised(u)' = Promised(u)
  BY DEF Aside, Working, Unmarked, Promised, Generating
<1>2. \A s \in Slots : at'[s] \in Generating => at[s] \in Generating /\ arg'[s] = arg[s]
  BY DEF Aside
<1>3. \A u \in Callers \ lapsed' : TrialOf(u)'
  BY <1>1, TrialElsewhere DEF TrialInv
<1>4. made' \in [Callers -> Nat]
  BY DEF TrialInv
<1> QED BY <1>2, <1>3, <1>4 DEF TrialInv

\* One generation moves: the job it carries is well formed, and only the user it is
\* for can be affected.
LEMMA TrialMoves ==
    ASSUME TrialInv, DOMAIN at = Slots, DOMAIN arg = Slots, NEW s \in Slots, NEW step, NEW a, Moved(s, step, a),
           NEW u \in Callers, at[s] \in Generating => arg[s].user = u,
           step \in Generating => a.user = u /\ IsJob(a),
           made' \in [Callers -> Nat], lapsed \subseteq lapsed',
           \A v \in Callers \ {u} : made'[v] = made[v] /\ (v \in trial' <=> v \in trial),
           u \notin lapsed' => TrialOf(u)'
    PROVE  TrialInv'
<1>1. /\ at'[s] = step /\ arg'[s] = a
      /\ \A r \in Slots \ {s} : at'[r] = at[r] /\ arg'[r] = arg[r]
  BY MovesOne
<1>2. ASSUME NEW v \in Callers \ lapsed', v # u PROVE TrialOf(v)'
  <2>1. s \notin Working(v) /\ s \notin Unmarked(v) /\ s \notin Promised(v)
    BY <1>2 DEF Working, Unmarked, Promised
  <2>2. ~(step \in Generating /\ a.user = v)
    BY <1>2
  <2>3. /\ Working(v)' = Working(v) \ {s} /\ Unmarked(v)' = Unmarked(v) \ {s}
        /\ Promised(v)' = Promised(v) \ {s}
    <3>1. /\ ~(step \in Generating \ {"owner", "prune"} /\ a.user = v)
          /\ ~(step \in {"track", "trial"} /\ a.user = v /\ a.quota = "trial")
          /\ ~(step \in {"user", "profile", "generate", "save", "commit"} /\ a.user = v /\ a.quota = "trial")
      BY <2>2 DEF Generating
    <3> QED BY <3>1, WorkMoved
  <2>4. TrialOf(v)
    BY <1>2 DEF TrialInv
  <2>5. made'[v] = made[v] /\ (v \in trial' <=> v \in trial)
    BY <1>2
  <2>6. Working(v)' = Working(v) /\ Unmarked(v)' = Unmarked(v) /\ Promised(v)' = Promised(v)
    BY <2>1, <2>3
  <2> QED BY <2>4, <2>5, <2>6, TrialElsewhere
<1>3. \A r \in Slots : at'[r] \in Generating => arg'[r].user \in Callers /\ IsJob(arg'[r])
  BY <1>1 DEF TrialInv
<1> QED BY <1>2, <1>3 DEF TrialInv

\* The only generation of a user ends, or goes where it needs nothing from here.
LEMMA TrialEnds ==
    ASSUME DOMAIN at = Slots, DOMAIN arg = Slots, NEW s \in Slots, NEW step, NEW a, Moved(s, step, a), NEW u,
           TrialOf(u), step \notin Generating \ {"owner", "prune"}, s \notin Unmarked(u) \/ u \in trial',
           made'[u] = made[u], u \in trial' <=> u \in trial \/ s \in Unmarked(u)
    PROVE  TrialOf(u)'
<1>1. /\ Working(u)' = Working(u) \ {s} /\ Unmarked(u)' = Unmarked(u) \ {s}
      /\ Promised(u)' = Promised(u) \ {s}
  BY WorkMoved DEF Generating
<1>2. Unmarked(u) # {} => Unmarked(u)' # {} \/ u \in trial'
  BY <1>1
<1>3. Promised(u)' # {} => u \notin trial'
  <2>1. s \in Unmarked(u) => Promised(u) \subseteq {s}
    BY DEF TrialOf, Unmarked, Promised
  <2> QED BY <1>1, <2>1 DEF TrialOf
<1> QED BY <1>1, <1>2, <1>3 DEF TrialOf

\* The awaits of a generation up to the commit of its batch.
LEMMA GenerationAsks ==
    ASSUME TrialInv, DOMAIN at = Slots, DOMAIN arg = Slots, NEW s \in Slots,
           \/ PersonalComplete(s) \/ CheckOwner(s) \/ CheckQuota(s) \/ LoadUser(s) \/ ExtractProfile(s)
           \/ Generate(s) \/ SaveBatch(s)
    PROVE  TrialInv'
<1> PICK u : u = arg[s].user
  OBVIOUS
<1>1. at[s] \in Generating => u \in Callers /\ IsJob(arg[s])
  BY DEF TrialInv
<1>2. UNCHANGED <<made, trial>> /\ lapsed \subseteq lapsed'
  BY DEF PersonalComplete, CheckOwner, CheckQuota, LoadUser, ExtractProfile, Generate, SaveBatch, personalVars
<1>3. made' \in [Callers -> Nat]
  BY <1>2 DEF TrialInv
<1>4. CASE PersonalComplete(s)
  <2>1. PICK v \in Callers, c \in DOMAIN convs : Begin(s, "personal complete", "owner", Job(v, c))
    BY <1>4 DEF PersonalComplete
  <2>2. Moved(s, "owner", Job(v, c)) /\ at[s] = "idle"
    BY <2>1, HandlersMove
  <2>3. Job(v, c).user = v /\ IsJob(Job(v, c))
    BY DEF Job, IsJob, JobFields
  <2>4. v \notin lapsed' => TrialOf(v)'
    <3>1. s \notin Unmarked(v)
      BY <2>2 DEF Unmarked, Working, Generating
    <3>2. v \notin lapsed' => TrialOf(v)
      BY <1>2 DEF TrialInv
    <3> QED BY <1>2, <2>2, <3>1, <3>2, TrialEnds
  <2>5. at[s] \notin Generating
    BY <2>2 DEF Generating
  <2> QED BY <1>2, <1>3, <2>2, <2>3, <2>4, <2>5, TrialMoves
<1>5. ASSUME at[s] \in {"owner", "quota", "user", "profile", "generate"}, Moved(s, "idle", Nothing) PROVE TrialInv'
  <2>1. u \in Callers /\ "idle" \notin Generating /\ at[s] \in Generating
    BY <1>1, <1>5 DEF Generating
  <2>2. s \notin Unmarked(u)
    BY <1>5 DEF Unmarked
  <2>3. u \notin lapsed' => TrialOf(u)
    BY <1>2, <2>1 DEF TrialInv
  <2>4. u \notin lapsed' => TrialOf(u)'
    BY <1>2, <1>5, <2>1, <2>2, <2>3, TrialEnds
  <2> QED BY <1>2, <1>3, <1>5, <2>1, <2>4, TrialMoves
<1>6. CASE CheckOwner(s)
  <2>1. at[s] = "owner"
    BY <1>6 DEF CheckOwner
  <2>2. CASE End(s)
    BY <1>5, <2>1, <2>2, HandlersMove
  <2>3. CASE ~End(s)
    <3>1. Go(s, "quota", arg[s]) /\ lapsed' = IF Working(u) = {} THEN lapsed ELSE lapsed \cup {u}
      BY <1>6, <2>3 DEF CheckOwner
    <3>2. Moved(s, "quota", arg[s])
      BY <3>1, HandlersMove
    <3>3. u \in Callers /\ IsJob(arg[s])
      BY <1>1, <2>1 DEF Generating
    <3>4. ASSUME u \notin lapsed' PROVE TrialOf(u)'
      <4>1. Working(u) = {} /\ TrialOf(u)
        BY <1>2, <3>1, <3>3, <3>4 DEF TrialInv
      <4>2. Unmarked(u) = {} /\ Promised(u) = {}
        BY <4>1 DEF Unmarked, Promised
      <4>3. Working(u)' = {s} /\ Unmarked(u)' = {} /\ Promised(u)' = {}
        BY <3>2, <4>1, <4>2, WorkMoved DEF Generating
      <4> QED BY <1>2, <4>1, <4>2, <4>3 DEF TrialOf
    <3> QED BY <1>2, <1>3, <3>2, <3>3, <3>4, TrialMoves
  <2> QED BY <2>2, <2>3
<1>7. ASSUME NEW step \in {"user", "profile", "generate", "save", "commit"}, NEW a, Moved(s, step, a), IsJob(a),
             a.user = u, at[s] \in {"quota", "user", "profile", "generate", "save"},
             at[s] = "quota" => a.quota # "trial" \/ u \notin trial,
             at[s] # "quota" => a.quota = arg[s].quota
      PROVE  TrialInv'
  <2>1. u \in Callers /\ at[s] \in Generating
    BY <1>1, <1>7 DEF Generating
  <2>2. ASSUME u \notin lapsed' PROVE TrialOf(u)'
    <3>1. TrialOf(u)
      BY <1>2, <2>1, <2>2 DEF TrialInv
    <3>2. s \in Working(u) /\ s \notin Unmarked(u)
      BY <1>7 DEF Working, Unmarked, Generating
    <3>3. Working(u) = {s} /\ Unmarked(u) = {}
      BY <3>1, <3>2 DEF TrialOf, Unmarked
    <3>4. Working(u)' = Working(u) /\ Unmarked(u)' = Unmarked(u)
      BY <1>7, <3>2, <3>3, WorkMoved DEF Generating
    <3>5. Promised(u)' # {} => a.quota = "trial"
      <4>1. Promised(u)' \subseteq {s}
        BY <3>3, <3>4 DEF Promised
      <4>2. Promised(u)' # {} => s \in Promised(u)'
        BY <4>1
      <4>3. arg'[s] = a
        BY <1>7, MovesOne
      <4> QED BY <4>2, <4>3 DEF Promised
    <3>6. a.quota = "trial" => made[u] = 0 /\ u \notin trial
      <4>1. CASE a.quota = "trial" /\ at[s] = "quota"
        BY <1>7, <3>1, <3>3, <4>1, <2>1 DEF TrialOf, TrialInv
      <4>2. CASE a.quota = "trial" /\ at[s] # "quota"
        <5>1. s \in Promised(u)
          BY <1>7, <3>2, <4>2 DEF Promised
        <5> QED BY <3>1, <5>1 DEF TrialOf
      <4> QED BY <4>1, <4>2
    <3> QED BY <1>2, <3>1, <3>4, <3>5, <3>6 DEF TrialOf
  <2> QED BY <1>2, <1>3, <1>7, <2>1, <2>2, TrialMoves
<1>8. CASE CheckQuota(s)
  <2>1. at[s] = "quota" /\ IsJob(arg[s])
    BY <1>1, <1>8 DEF CheckQuota, Generating
  <2>2. CASE End(s)
    BY <1>5, <2>1, <2>2, HandlersMove
  <2>3. CASE ~End(s)
    <3> DEFINE q == Quota(u)
               a == [arg[s] EXCEPT !.quota = q]
    <3>1. Go(s, "user", a) /\ q \in {"ok", "trial"}
      BY <1>8, <2>3 DEF CheckQuota
    <3>2. q = "trial" => u \notin trial
      BY DEF Quota
    <3>3. IsJob(a) /\ a.user = u /\ a.quota = q
      BY <2>1 DEF IsJob, JobFields
    <3>4. Moved(s, "user", a)
      BY <3>1, HandlersMove
    <3> HIDE DEF a, q
    <3>5. a.quota # "trial" \/ u \notin trial
      BY <3>2, <3>3
    <3>6. /\ "user" \in {"user", "profile", "generate", "save", "commit"}
          /\ at[s] \in {"quota", "user", "profile", "generate", "save"}
      BY <2>1
    <3> QED BY <1>7, <2>1, <3>3, <3>4, <3>5, <3>6
  <2> QED BY <2>2, <2>3
<1>9. CASE LoadUser(s)
  <2> DEFINE a == [arg[s] EXCEPT !.lately = u \in lately, !.snap = snapshot[u]]
  <2>1. at[s] = "user" /\ IsJob(arg[s]) /\ Go(s, "profile", a)
    BY <1>1, <1>9 DEF LoadUser, Generating
  <2>2. IsJob(a) /\ a.user = u /\ a.quota = arg[s].quota
    BY <2>1 DEF IsJob, JobFields
  <2>3. Moved(s, "profile", a)
    BY <2>1, HandlersMove
  <2> HIDE DEF a
  <2> QED BY <1>7, <2>1, <2>2, <2>3
<1>10. CASE ExtractProfile(s)
  <2>1. at[s] = "profile" /\ IsJob(arg[s])
    BY <1>1, <1>10 DEF ExtractProfile, Generating
  <2>2. CASE End(s)
    BY <1>5, <2>1, <2>2, HandlersMove
  <2>3. CASE ~End(s)
    <3>1. PICK p \in Profiles : Go(s, "generate", [arg[s] EXCEPT !.profile = p])
      BY <1>10, <2>3 DEF ExtractProfile
    <3> DEFINE a == [arg[s] EXCEPT !.profile = p]
    <3>2. IsJob(a) /\ a.user = u /\ a.quota = arg[s].quota
      BY <2>1 DEF IsJob, JobFields
    <3>3. Moved(s, "generate", a)
      BY <3>1, HandlersMove
    <3> HIDE DEF a
    <3> QED BY <1>7, <2>1, <3>2, <3>3
  <2> QED BY <2>2, <2>3
<1>11. CASE Generate(s)
  <2>1. at[s] = "generate" /\ IsJob(arg[s])
    BY <1>1, <1>11 DEF Generate, Generating
  <2>2. PICK n \in {0, Size} : Go(s, "save", [arg[s] EXCEPT !.rows = n])
    BY <1>11 DEF Generate
  <2> DEFINE a == [arg[s] EXCEPT !.rows = n]
  <2>3. IsJob(a) /\ a.user = u /\ a.quota = arg[s].quota
    BY <2>1, PersonalAssumption DEF IsJob, JobFields
  <2>4. Moved(s, "save", a)
    BY <2>2, HandlersMove
  <2> HIDE DEF a
  <2> QED BY <1>7, <2>1, <2>3, <2>4
<1>12. CASE SaveBatch(s)
  <2> DEFINE a == [arg[s] EXCEPT !.stamp = batches']
  <2>1. at[s] = "save" /\ IsJob(arg[s]) /\ Go(s, "commit", a)
    BY <1>1, <1>12 DEF SaveBatch, Generating
  <2>2. IsJob(a) /\ a.user = u /\ a.quota = arg[s].quota
    BY <2>1 DEF IsJob, JobFields
  <2>3. Moved(s, "commit", a)
    BY <2>1, HandlersMove
  <2> HIDE DEF a
  <2> QED BY <1>7, <2>1, <2>2, <2>3
<1> QED BY <1>4, <1>6, <1>8, <1>9, <1>10, <1>11, <1>12

\* From the commit on: the scenarios are saved, and the trial is marked.
LEMMA GenerationSaves ==
    ASSUME TrialInv, DOMAIN at = Slots, DOMAIN arg = Slots, NEW s \in Slots,
           \/ CommitBatch(s) \/ Track(s) \/ MarkTrialUsed(s) \/ Prune(s)
           \/ at[s] \in Generating /\ GenerationFails(s)
    PROVE  TrialInv'
<1> PICK u : u = arg[s].user
  OBVIOUS
<1>1. at[s] \in Generating => u \in Callers /\ IsJob(arg[s])
  BY DEF TrialInv
<1>2. u \in Callers /\ IsJob(arg[s]) /\ at[s] \in Generating
  BY <1>1 DEF CommitBatch, Track, MarkTrialUsed, Prune, Generating
<1>3. made \in [Callers -> Nat] /\ (u \notin lapsed => TrialOf(u))
  BY <1>2 DEF TrialInv
<1>4. CASE CommitBatch(s)
  <2>1. /\ at[s] = "commit" /\ Moved(s, "track", arg[s]) /\ UNCHANGED <<trial, lapsed>>
        /\ made' = IF arg[s].quota = "trial" THEN [made EXCEPT ![u] = @ + 1] ELSE made
    BY <1>4, HandlersMove DEF CommitBatch
  <2>2. /\ made' \in [Callers -> Nat]
        /\ made'[u] = IF arg[s].quota = "trial" THEN made[u] + 1 ELSE made[u]
        /\ \A v \in Callers \ {u} : made'[v] = made[v]
    BY <1>2, <1>3, <2>1
  <2>3. ASSUME u \notin lapsed' PROVE TrialOf(u)'
    <3>1. TrialOf(u) /\ s \in Working(u)
      BY <1>3, <2>1, <2>3 DEF Working, Generating
    <3>2. Working(u) = {s} /\ Unmarked(u) = {}
      BY <2>1, <3>1 DEF TrialOf, Unmarked
    <3>3. Working(u)' = {s} /\ Promised(u)' = {}
      <4>1. Working(u)' = Working(u) \cup {s} /\ Promised(u)' = Promised(u) \ {s}
        BY <2>1, WorkMoved DEF Generating
      <4> QED BY <3>2, <4>1 DEF Promised
    <3>4. CASE arg[s].quota = "trial"
      <4>1. s \in Promised(u)
        BY <2>1, <3>1, <3>4 DEF Promised
      <4>2. Unmarked(u)' = Unmarked(u) \cup {s}
        BY <2>1, <3>4, WorkMoved
      <4> QED BY <2>2, <3>1, <3>3, <3>4, <4>1, <4>2 DEF TrialOf
    <3>5. CASE arg[s].quota # "trial"
      <4>1. made'[u] = made[u] /\ (made[u] = 1 => u \in trial')
        BY <2>1, <2>2, <3>1, <3>2, <3>5 DEF TrialOf
      <4> QED BY <3>1, <3>3, <4>1 DEF TrialOf
    <3> QED BY <3>4, <3>5
  <2> QED BY <1>2, <2>1, <2>2, <2>3, TrialMoves
<1>5. CASE Track(s)
  <2>1. /\ at[s] = "track" /\ UNCHANGED <<trial, made, lapsed>>
        /\ Moved(s, IF arg[s].quota = "trial" THEN "trial" ELSE "prune", arg[s])
    BY <1>5, HandlersMove DEF Track
  <2>2. ASSUME u \notin lapsed' PROVE TrialOf(u)'
    <3>1. TrialOf(u) /\ s \in Working(u)
      BY <1>3, <2>1, <2>2 DEF Working, Generating
    <3>2. CASE arg[s].quota = "trial"
      <4>1. Moved(s, "trial", arg[s]) /\ s \in Unmarked(u) /\ s \notin Promised(u)
        BY <2>1, <3>1, <3>2 DEF Unmarked, Promised
      <4>2. /\ Working(u)' = Working(u) \cup {s} /\ Unmarked(u)' = Unmarked(u) \cup {s}
            /\ Promised(u)' = Promised(u) \ {s}
        BY <3>2, <4>1, WorkMoved DEF Generating
      <4> QED BY <2>1, <3>1, <4>1, <4>2, TrialElsewhere
    <3>3. CASE arg[s].quota # "trial"
      <4>1. Moved(s, "prune", arg[s]) /\ s \notin Unmarked(u)
        BY <2>1, <3>3 DEF Unmarked
      <4> QED BY <2>1, <3>1, <4>1, TrialEnds
    <3> QED BY <3>2, <3>3
  <2> DEFINE step == IF arg[s].quota = "trial" THEN "trial" ELSE "prune"
  <2>3. Moved(s, step, arg[s])
    BY <2>1
  <2> HIDE DEF step
  <2> QED BY <1>2, <1>3, <2>1, <2>2, <2>3, TrialMoves
<1>6. CASE MarkTrialUsed(s)
  <2>1. /\ at[s] = "trial" /\ UNCHANGED <<made, lapsed>> /\ trial' = trial \cup {u}
        /\ Moved(s, "prune", arg[s])
    BY <1>6, HandlersMove DEF MarkTrialUsed
  <2>2. ASSUME u \notin lapsed' PROVE TrialOf(u)'
    <3>1. TrialOf(u) /\ s \in Working(u) /\ s \notin Promised(u)
      BY <1>3, <2>1, <2>2 DEF Working, Promised, Generating
    <3>2. Promised(u) = {} /\ Working(u) = {s}
      BY <3>1 DEF TrialOf, Promised
    <3>3. Working(u)' = {} /\ Promised(u)' = {}
      <4>1. Working(u)' = Working(u) \ {s} /\ Promised(u)' = Promised(u) \ {s}
        BY <2>1, WorkMoved
      <4> QED BY <3>2, <4>1
    <3> QED BY <2>1, <3>1, <3>3 DEF TrialOf
  <2> QED BY <1>2, <1>3, <2>1, <2>2, TrialMoves
<1>7. CASE Prune(s) \/ GenerationFails(s)
  <2>1. /\ UNCHANGED <<made, trial>> /\ lapsed \subseteq lapsed' /\ Moved(s, "idle", Nothing)
        /\ u \notin lapsed' => at[s] \notin {"track", "trial"}
    <3>1. CASE Prune(s)
      BY <3>1, HandlersMove DEF Prune
    <3>2. CASE GenerationFails(s)
      <4>1. /\ UNCHANGED <<made, trial>> /\ Moved(s, "idle", Nothing)
            /\ lapsed' = lapsed \cup {arg[r].user : r \in {q \in {s} : at[q] \in {"track", "trial"}}}
        BY <3>2, HandlersMove DEF GenerationFails, CutOff
      <4>2. at[s] \in {"track", "trial"} => u \in lapsed'
        BY <4>1
      <4> QED BY <4>1, <4>2
    <3> QED BY <1>7, <3>1, <3>2
  <2>2. "idle" \notin Generating
    BY DEF Generating
  <2>3. ASSUME u \notin lapsed' PROVE TrialOf(u)'
    <3>1. TrialOf(u) /\ s \notin Unmarked(u)
      BY <1>3, <2>1, <2>3 DEF Unmarked
    <3> QED BY <2>1, <2>2, <3>1, TrialEnds
  <2> QED BY <1>2, <1>3, <2>1, <2>2, <2>3, TrialMoves
<1> QED BY <1>4, <1>5, <1>6, <1>7

\* Every step of personalization keeps the trial.
LEMMA TrialStep ==
    ASSUME TrialInv, DOMAIN at = Slots, DOMAIN arg = Slots,
           (\E s \in Slots : PersonalStep(s)) \/ Practise \/ ChangePlan \/ NextDay \/ NextMonth
    PROVE  TrialInv'
<1>1. ASSUME NEW s \in Slots, PersonalStep(s) PROVE TrialInv'
  <2>1. CASE at[s] \notin Generating /\ ~PersonalComplete(s)
    <3>1. MovesIn(s, TalkSteps)
      BY <1>1, <2>1, TalkOwn
    <3>2. Aside(Generating)
      BY <3>1, MovesAside, OwnAwaits
    <3>3. ~(CheckOwner(s) \/ CheckQuota(s) \/ LoadUser(s) \/ ExtractProfile(s) \/ Generate(s) \/ SaveBatch(s)
            \/ CommitBatch(s) \/ Track(s) \/ MarkTrialUsed(s) \/ Prune(s))
      BY <2>1 DEF CheckOwner, CheckQuota, LoadUser, ExtractProfile, Generate, SaveBatch, CommitBatch, Track,
                  MarkTrialUsed, Prune, Generating
    <3>4. UNCHANGED <<made, trial>> /\ lapsed \subseteq lapsed'
      <4>1. CASE GenerationFails(s)
        BY <4>1 DEF GenerationFails, CutOff
      <4>2. CASE PersonalChat(s) \/ OpenPersonal(s) \/ Offer(s) \/ TakeAdvisoryLock(s) \/ Emit(s)
        BY <4>2 DEF PersonalChat, OpenPersonal, Offer, TakeAdvisoryLock, Emit, personalVars
      <4>3. CASE UNCHANGED personalVars
        BY <4>3 DEF personalVars
      <4> QED BY <1>1, <2>1, <3>3, <4>1, <4>2, <4>3 DEF PersonalStep
    <3> QED BY <3>2, <3>4, TrialUntouched
  <2>2. CASE ~(at[s] \notin Generating /\ ~PersonalComplete(s))
    BY <1>1, <2>2, TalkOrGenerate, GenerationAsks, GenerationSaves
  <2> QED BY <2>1, <2>2
<1>2. CASE Practise \/ ChangePlan \/ NextDay
  <2>1. UNCHANGED <<at, arg, made, trial, lapsed>>
    BY <1>2 DEF Practise, ChangePlan, NextDay, Instant
  <2> QED BY <2>1, InstantAside, TrialUntouched
<1>3. CASE NextMonth
  <2>1. /\ UNCHANGED <<at, arg>> /\ trial' = {} /\ made' = [u \in Callers |-> 0]
        /\ lapsed' = lapsed \cup {u \in Callers : Working(u) # {}}
    BY <1>3 DEF NextMonth, Instant
  <2>2. ASSUME NEW u \in Callers \ lapsed' PROVE TrialOf(u)'
    <3>1. Working(u) = {}
      BY <2>1, <2>2
    <3>2. Working(u)' = {} /\ Promised(u)' = {}
      BY <2>1, <3>1 DEF Working, Promised
    <3> QED BY <2>1, <3>2 DEF TrialOf
  <2> QED BY <2>1, <2>2 DEF TrialInv
<1> QED BY <1>1, <1>2, <1>3

\* A restart cuts short whoever was between the answer and the mark, and nobody else
\* can be owed one.
LEMMA TrialRestart ==
    ASSUME TrialInv, Restart, PersonalRestart
    PROVE  TrialInv'
<1>1. \A s \in Slots : at'[s] = "idle"
  BY DEF Restart
<1>2. UNCHANGED <<made, trial>> /\ lapsed' = lapsed \cup {arg[s].user : s \in {r \in Slots : at[r] \in {"track", "trial"}}}
  BY DEF PersonalRestart, CutOff
<1>3. ASSUME NEW u \in Callers \ lapsed' PROVE TrialOf(u)'
  <2>1. TrialOf(u) /\ Unmarked(u) = {}
    BY <1>2, <1>3 DEF TrialInv, Unmarked, Working
  <2>2. Working(u)' = {} /\ Promised(u)' = {}
    BY <1>1 DEF Working, Promised, Generating
  <2> QED BY <1>2, <2>1, <2>2 DEF TrialOf
<1>4. \A s \in Slots : at'[s] \notin Generating
  BY <1>1 DEF Generating
<1> QED BY <1>2, <1>3, <1>4 DEF TrialInv

\* The invariant is what it was for.
LEMMA TrialMeans ==
    ASSUME TrialInv
    PROVE  TrialOnce
  BY DEF TrialInv, TrialOf, TrialOnce, Unmarked

-----------------------------------------------------------------------------
(* What a prune leaves. *)

\* Whatever a prune has left is still there, and known for it, unless a batch that is no
\* younger was not there for it (KeptForGood, of one user).
KeptStay(rs, new) ==
    \A i \in DOMAIN rs : rs[i].kept =>
        \/ i \in DOMAIN new /\ new[i].kept
        \/ \E j \in Unused(rs) : ~rs[j].kept /\ j[1] <= i[1]

\* The unused rows are finitely many, and so are those of them that a prune has left.
LEMMA SparedFinite ==
    ASSUME NEW rs, IsFiniteSet(DOMAIN rs)
    PROVE  /\ Unused(rs) \in SUBSET DOMAIN rs /\ IsFiniteSet(Unused(rs))
           /\ Spared(rs) \in SUBSET Unused(rs) /\ IsFiniteSet(Spared(rs))
<1>1. Unused(rs) \in SUBSET DOMAIN rs /\ Spared(rs) \in SUBSET Unused(rs)
  BY DEF Unused, Spared
<1> QED BY <1>1, FS_Subset

\* No more rows than fit are spared after a step that spares no other.
LEMMA SparedShrinks ==
    ASSUME NEW rs, NEW new, WellPruned(rs), Spared(new) \in SUBSET Spared(rs)
    PROVE  Cardinality(Spared(new)) <= Cap
<1>1. IsFiniteSet(Spared(rs)) /\ Cardinality(Spared(rs)) <= Cap
  BY SparedFinite DEF WellPruned
<1>2. IsFiniteSet(Spared(new)) /\ Cardinality(Spared(new)) <= Cardinality(Spared(rs))
  BY <1>1, FS_Subset
<1>3. Cardinality(Spared(new)) \in Nat /\ Cardinality(Spared(rs)) \in Nat
  BY <1>1, <1>2, FS_CardinalityType
<1> QED BY <1>1, <1>2, <1>3, PersonalAssumption

\* A change of the rows that lets no unused row appear, and makes none kept.
LEMMA FewerUnused ==
    ASSUME NEW rs, NEW new, WellPruned(rs), DOMAIN new = DOMAIN rs,
           new \in [DOMAIN new -> Scenarios],
           \A i \in DOMAIN rs : (rs[i].used => new[i].used) /\ new[i].kept = rs[i].kept
    PROVE  WellPruned(new) /\ KeptStay(rs, new)
<1>1. Spared(new) \in SUBSET Spared(rs)
  BY DEF Unused, Spared
<1>2. Cardinality(Spared(new)) <= Cap
  BY <1>1, SparedShrinks
<1> QED BY <1>2 DEF WellPruned, KeptStay

\* A batch that commits, whatever its stamp, has not been through a prune.
LEMMA BatchSaved ==
    ASSUME NEW rs, WellPruned(rs), NEW b, NEW n \in Nat, NEW new, new = WithBatch(rs, {b} \X (1 .. n))
    PROVE  WellPruned(new) /\ KeptStay(rs, new)
<1> DEFINE B == {b} \X (1 .. n)
<1>1. IsFiniteSet(B)
  <2>1. IsFiniteSet({b})
    BY FS_Singleton
  <2>2. IsFiniteSet(1 .. n)
    BY FS_Interval
  <2> QED BY <2>1, <2>2, FS_Product
<1> HIDE DEF B
<1>2. DOMAIN new = DOMAIN rs \cup B /\ new = [i \in DOMAIN rs \cup B |-> IF i \in DOMAIN rs THEN rs[i] ELSE Scenario]
  BY DEF WithBatch, B
<1>3. Scenario \in Scenarios /\ ~Scenario.kept
  BY DEF Scenario, Scenarios
<1>4. new \in [DOMAIN new -> Scenarios]
  BY <1>2, <1>3 DEF WellPruned
<1>5. IsFiniteSet(DOMAIN new)
  <2>1. IsFiniteSet(DOMAIN rs)
    BY DEF WellPruned
  <2>2. IsFiniteSet(DOMAIN rs \cup B)
    BY <1>1, <2>1, FS_Union
  <2> QED BY <1>2, <2>2
<1>6. Spared(new) \in SUBSET Spared(rs)
  <2> SUFFICES ASSUME NEW i \in Spared(new) PROVE i \in Spared(rs)
    OBVIOUS
  <2>1. i \in DOMAIN new /\ ~new[i].used /\ new[i].kept
    BY DEF Spared, Unused
  <2>2. i \in DOMAIN rs /\ new[i] = rs[i]
    BY <1>2, <1>3, <2>1
  <2> QED BY <2>1, <2>2 DEF Spared, Unused
<1>7. Cardinality(Spared(new)) <= Cap
  BY <1>6, SparedShrinks
<1>8. KeptStay(rs, new)
  BY <1>2 DEF KeptStay
<1> QED BY <1>4, <1>5, <1>7, <1>8 DEF WellPruned

\* A row that a prune has left is deleted by one that leaves Cap others.  If they had all
\* been left before, there would have been Cap + 1.
LEMMA RowsPruned ==
    ASSUME NEW rs, WellPruned(rs), NEW D \in Doomed(rs), NEW new, new = Survivors(rs, D)
    PROVE  WellPruned(new) /\ KeptStay(rs, new)
<1> DEFINE Left == Unused(rs) \ D
<1>1. /\ D \in SUBSET Unused(rs) /\ Cardinality(Left) = Remaining(Unused(rs))
      /\ \A i \in D, j \in Left : j[1] <= i[1]
  BY DEF Doomed
<1>2. /\ IsFiniteSet(DOMAIN rs) /\ rs \in [DOMAIN rs -> Scenarios]
      /\ IsFiniteSet(Unused(rs)) /\ Unused(rs) \in SUBSET DOMAIN rs
  BY SparedFinite DEF WellPruned
<1>3. IsFiniteSet(Left) /\ Cardinality(Left) \in Nat /\ Cardinality(Unused(rs)) \in Nat
  <2>1. Left \in SUBSET Unused(rs)
    OBVIOUS
  <2>2. IsFiniteSet(Left)
    BY <1>2, <2>1, FS_Subset
  <2> QED BY <1>2, <2>2, FS_CardinalityType
<1>4. Cardinality(Left) <= Cap
  BY <1>1, <1>3, PersonalAssumption DEF Remaining
<1>5. ASSUME NEW i \in D, rs[i].kept PROVE \E j \in Unused(rs) : ~rs[j].kept /\ j[1] <= i[1]
  <2> SUFFICES ASSUME \A j \in Unused(rs) : j[1] <= i[1] => rs[j].kept PROVE FALSE
    OBVIOUS
  <2>1. i \in Unused(rs) /\ i \notin Left
    BY <1>1
  <2>2. IsFiniteSet(Spared(rs)) /\ Cardinality(Spared(rs)) <= Cap
    BY <1>2, SparedFinite DEF WellPruned
  <2>3. Left \cup {i} \in SUBSET Spared(rs)
    BY <1>1, <1>5, <2>1 DEF Spared
  <2>4. IsFiniteSet(Left \cup {i}) /\ Cardinality(Left \cup {i}) = Cardinality(Left) + 1
    BY <1>3, <2>1, FS_AddElement
  <2>5. Cardinality(Left \cup {i}) <= Cardinality(Spared(rs)) /\ Cardinality(Spared(rs)) \in Nat
    BY <2>2, <2>3, FS_Subset, FS_CardinalityType
  <2>6. Cardinality(Left) < Cap
    BY <1>3, <2>2, <2>4, <2>5, PersonalAssumption
  <2>7. Left = Unused(rs)
    <3>1. Cardinality(Left) = Cardinality(Unused(rs))
      BY <1>1, <1>3, <2>6, PersonalAssumption DEF Remaining
    <3>2. Left \in SUBSET Unused(rs)
      OBVIOUS
    <3> HIDE DEF Left
    <3> QED BY <1>2, <3>1, <3>2, FS_Subset
  <2> QED BY <2>1, <2>7
<1>6. DOMAIN new = DOMAIN rs \ D /\ new = [i \in DOMAIN rs \ D |-> [rs[i] EXCEPT !.kept = TRUE]]
  BY DEF Survivors
<1>7. \A i \in DOMAIN new : /\ i \in DOMAIN rs /\ new[i] \in Scenarios
                            /\ new[i].used = rs[i].used /\ new[i].kept
  BY <1>2, <1>6 DEF Scenarios
<1>8. Spared(new) \in SUBSET Left
  BY <1>2, <1>6, <1>7 DEF Unused, Spared
<1>9. IsFiniteSet(DOMAIN new)
  <2>1. DOMAIN new \in SUBSET DOMAIN rs
    BY <1>6
  <2> QED BY <1>2, <2>1, FS_Subset
<1>10. Cardinality(Spared(new)) <= Cap
  <2> HIDE DEF Left
  <2>1. Cardinality(Spared(new)) <= Cardinality(Left) /\ Cardinality(Spared(new)) \in Nat
    BY <1>3, <1>8, FS_Subset, FS_CardinalityType
  <2> QED BY <1>3, <1>4, <2>1, PersonalAssumption
<1>11. new \in [DOMAIN new -> Scenarios]
  BY <1>6, <1>7
<1>12. KeptStay(rs, new)
  BY <1>5, <1>6, <1>7 DEF KeptStay
<1> QED BY <1>9, <1>10, <1>11, <1>12 DEF WellPruned

\* What a step leaves of the rows of every user.
NoneTaken == \A u \in Callers : KeptStay(personal[u], personal'[u])

\* A step that writes no personal scenario.
LEMMA ScenariosUntouched ==
    ASSUME ScenarioInv, UNCHANGED personal
    PROVE  ScenarioInv' /\ NoneTaken
  BY DEF ScenarioInv, NoneTaken, KeptStay

\* A step that writes the rows of one user.
LEMMA ScenariosOfOne ==
    ASSUME ScenarioInv, NEW u \in Callers, NEW new, personal' = [personal EXCEPT ![u] = new],
           WellPruned(new), KeptStay(personal[u], new)
    PROVE  ScenarioInv' /\ NoneTaken
<1>1. /\ DOMAIN personal' = Callers /\ personal'[u] = new
      /\ \A v \in Callers \ {u} : personal'[v] = personal[v]
  BY DEF ScenarioInv
<1>2. \A v \in Callers : WellPruned(personal'[v])
  BY <1>1 DEF ScenarioInv
<1>3. personal' \in [Callers -> {personal'[v] : v \in Callers}]
  <2>1. personal' = [v \in Callers |-> personal'[v]]
    BY <1>1 DEF ScenarioInv
  <2> QED BY <2>1
<1>4. NoneTaken
  BY <1>1 DEF NoneTaken, KeptStay
<1> QED BY <1>2, <1>3, <1>4 DEF ScenarioInv

\* A generation commits its batch, and prunes in the end.
LEMMA GenerationWrites ==
    ASSUME ScenarioInv, TrialInv, NEW s \in Slots, CommitBatch(s) \/ Prune(s)
    PROVE  ScenarioInv' /\ NoneTaken
<1> PICK u : u = arg[s].user
  OBVIOUS
<1>1. u \in Callers /\ IsJob(arg[s])
  BY DEF TrialInv, CommitBatch, Prune, Generating
<1>2. WellPruned(personal[u])
  BY <1>1 DEF ScenarioInv
<1>3. CASE CommitBatch(s)
  <2> DEFINE new == WithBatch(personal[u], {arg[s].stamp} \X (1 .. arg[s].rows))
  <2>1. personal' = [personal EXCEPT ![u] = new]
    BY <1>3 DEF CommitBatch
  <2>2. WellPruned(new) /\ KeptStay(personal[u], new)
    BY <1>1, <1>2, BatchSaved DEF IsJob
  <2> HIDE DEF new
  <2> QED BY <1>1, <2>1, <2>2, ScenariosOfOne
<1>4. CASE Prune(s)
  <2>1. PICK D \in Doomed(personal[u]) : personal' = [personal EXCEPT ![u] = Survivors(@, D)]
    BY <1>4 DEF Prune
  <2> DEFINE new == Survivors(personal[u], D)
  <2>2. personal' = [personal EXCEPT ![u] = new]
    BY <2>1
  <2>3. WellPruned(new) /\ KeptStay(personal[u], new)
    BY <1>2, RowsPruned
  <2> HIDE DEF new
  <2> QED BY <1>1, <2>2, <2>3, ScenariosOfOne
<1> QED BY <1>3, <1>4

\* A scenario is practised, and a day passes: no row more is unused.
LEMMA ScenariosAge ==
    ASSUME ScenarioInv, Practise \/ NextDay
    PROVE  ScenarioInv' /\ NoneTaken
<1>1. CASE Practise
  <2>1. PICK u \in Callers : \E i \in DOMAIN personal[u] : personal' = [personal EXCEPT ![u][i].used = TRUE]
    BY <1>1 DEF Practise
  <2>2. PICK i \in DOMAIN personal[u] : personal' = [personal EXCEPT ![u][i].used = TRUE]
    BY <2>1
  <2> DEFINE rs == personal[u]
             new == [rs EXCEPT ![i].used = TRUE]
  <2>3. WellPruned(rs) /\ rs \in [DOMAIN rs -> Scenarios]
    BY DEF ScenarioInv, WellPruned
  <2>4. personal' = [personal EXCEPT ![u] = new]
    BY <2>2
  <2> HIDE DEF rs
  <2>5. /\ DOMAIN new = DOMAIN rs /\ new \in [DOMAIN new -> Scenarios]
        /\ \A j \in DOMAIN rs : (rs[j].used => new[j].used) /\ new[j].kept = rs[j].kept
    BY <2>3 DEF Scenarios
  <2> HIDE DEF new
  <2>6. WellPruned(new) /\ KeptStay(rs, new)
    BY <2>3, <2>5, FewerUnused
  <2> QED BY <2>4, <2>6, ScenariosOfOne DEF rs
<1>2. CASE NextDay
  <2>1. personal' = [u \in Callers |-> [i \in DOMAIN personal[u] |-> [personal[u][i] EXCEPT !.recent = FALSE]]]
    BY <1>2 DEF NextDay
  <2>2. ASSUME NEW u \in Callers PROVE WellPruned(personal'[u]) /\ KeptStay(personal[u], personal'[u])
    <3> DEFINE rs == personal[u]
               new == [i \in DOMAIN rs |-> [rs[i] EXCEPT !.recent = FALSE]]
    <3>1. personal'[u] = new
      BY <2>1
    <3>2. WellPruned(rs) /\ rs \in [DOMAIN rs -> Scenarios]
      BY DEF ScenarioInv, WellPruned
    <3> HIDE DEF rs
    <3>3. /\ DOMAIN new = DOMAIN rs /\ new \in [DOMAIN new -> Scenarios]
          /\ \A j \in DOMAIN rs : (rs[j].used => new[j].used) /\ new[j].kept = rs[j].kept
      BY <3>2 DEF Scenarios
    <3> HIDE DEF new
    <3>4. WellPruned(new) /\ KeptStay(rs, new)
      BY <3>2, <3>3, FewerUnused
    <3> QED BY <3>1, <3>4 DEF rs
  <2>3. personal' \in [Callers -> {personal'[u] : u \in Callers}]
    <3>1. personal' = [u \in Callers |-> personal'[u]]
      BY <2>1
    <3> QED BY <3>1
  <2> QED BY <2>2, <2>3 DEF ScenarioInv, NoneTaken
<1> QED BY <1>1, <1>2

\* Every step of personalization keeps what a prune has left.
LEMMA ScenarioStep ==
    ASSUME ScenarioInv, TrialInv,
           (\E s \in Slots : PersonalStep(s)) \/ Practise \/ ChangePlan \/ NextDay \/ NextMonth
    PROVE  ScenarioInv' /\ NoneTaken
<1>1. ASSUME NEW s \in Slots, PersonalStep(s), ~(CommitBatch(s) \/ Prune(s)) PROVE UNCHANGED personal
  <2>1. CASE TurnStep(s) /\ UNCHANGED personalVars
    BY <2>1 DEF personalVars
  <2>2. CASE PersonalChat(s) \/ OpenPersonal(s) \/ PersonalComplete(s) \/ CheckOwner(s) \/ CheckQuota(s)
    BY <2>2 DEF PersonalChat, OpenPersonal, PersonalComplete, CheckOwner, CheckQuota, personalVars
  <2>3. CASE \/ LoadUser(s) \/ ExtractProfile(s) \/ Generate(s) \/ SaveBatch(s) \/ Track(s) \/ MarkTrialUsed(s)
             \/ GenerationFails(s)
    BY <2>3 DEF LoadUser, ExtractProfile, Generate, SaveBatch, Track, MarkTrialUsed, GenerationFails, personalVars
  <2>4. CASE Offer(s) \/ TakeAdvisoryLock(s) \/ Emit(s)
    BY <2>4 DEF Offer, TakeAdvisoryLock, Emit, personalVars
  <2> QED BY <1>1, <2>1, <2>2, <2>3, <2>4 DEF PersonalStep
<1>2. ChangePlan \/ NextMonth => UNCHANGED personal
  BY DEF ChangePlan, NextMonth
<1> QED BY <1>1, <1>2, ScenariosUntouched, GenerationWrites, ScenariosAge

-----------------------------------------------------------------------------
(* The counts of a card. *)

\* What CountsAddUp says of one card.
Counted(c) ==
    /\ cards[c].count <= cards[c].real
    /\ c \notin disturbed =>
         /\ cards[c].count = cards[c].real /\ cards[c].right <= cards[c].count
         /\ cards[c].box \in 1 .. MaxBox /\ cards[c].box <= cards[c].right + 1

\* The columns that are counted, the same as before.
SameCounts(c) ==
    /\ cards'[c].box = cards[c].box /\ cards'[c].count = cards[c].count
    /\ cards'[c].right = cards[c].right /\ cards'[c].real = cards[c].real

\* A row of the table, and what its columns are.
LEMMA CardTyped ==
    ASSUME NEW row \in CardRow
    PROVE  /\ row.word \in Words /\ row.box \in 1 .. MaxBox /\ row.due \in BOOLEAN /\ row.live \in BOOLEAN
           /\ row.count \in Nat /\ row.right \in Nat /\ row.real \in Nat
           /\ DOMAIN row = {"word", "box", "due", "count", "right", "real", "live"}
  BY DEF CardRow

\* A card that keeps its counts keeps what is said of them.
LEMMA CountedKept ==
    ASSUME NEW c, Counted(c), SameCounts(c), disturbed \subseteq disturbed'
    PROVE  Counted(c)'
  BY DEF Counted, SameCounts

\* The handler in a slot moves: who has a card in hand changes by that slot.
LEMMA RatingMoved ==
    ASSUME DOMAIN at = Slots, DOMAIN arg = Slots, NEW s \in Slots, NEW step, NEW a, Moved(s, step, a), NEW c
    PROVE  /\ step \in RowSteps /\ a.card = c => Rating(c)' = Rating(c) \cup {s}
           /\ step \notin RowSteps \/ a.card # c => Rating(c)' = Rating(c) \ {s}
<1>1. /\ at'[s] = step /\ arg'[s] = a
      /\ \A r \in Slots \ {s} : at'[r] = at[r] /\ arg'[r] = arg[r]
  BY MovesOne
<1>2. \A r \in Slots : r \in Rating(c)' <=>
        IF r = s THEN step \in RowSteps /\ a.card = c ELSE r \in Rating(c)
  BY <1>1 DEF Rating, RowSteps
<1>3. Rating(c) \subseteq Slots /\ Rating(c)' \subseteq Slots
  BY DEF Rating
<1> QED BY <1>2, <1>3

\* A row on its way stays what it was while the card keeps its counts and its only
\* writer, or is disturbed.
LEMMA RowHeld ==
    ASSUME RowInv, cards' \in Seq(CardRow), DOMAIN cards \subseteq DOMAIN cards', disturbed \subseteq disturbed',
           NEW s \in Slots, at[s] \in RowSteps, at'[s] = at[s], arg'[s] = arg[s],
           NEW c, c = arg[s].card, cards[c].real <= cards'[c].real,
           c \in disturbed' \/ (SameCounts(c) /\ Rating(c)' = Rating(c))
    PROVE  HoldsRow(s)'
<1>1. HoldsRow(s) /\ cards \in Seq(CardRow)
  BY DEF RowInv
<1>2. /\ DOMAIN arg[s] = {"op", "session", "card", "correct", "was", "row"}
      /\ c \in DOMAIN cards /\ arg[s].row \in CardRow /\ arg[s].was \in CardRow
      /\ arg[s].row.count <= cards[c].real + 1
  BY <1>1 DEF HoldsRow
<1>3. c \in DOMAIN cards' /\ arg[s].row.count <= cards'[c].real + 1
  <2>1. cards[c] \in CardRow /\ c \in DOMAIN cards' /\ cards'[c] \in CardRow
    BY <1>1, <1>2
  <2>2. arg[s].row.count \in Nat /\ cards[c].real \in Nat /\ cards'[c].real \in Nat
    BY <1>2, <2>1, CardTyped
  <2> QED BY <1>2, <2>1, <2>2
<1>4. ASSUME c \notin disturbed'
      PROVE  /\ Rating(c)' = {s}
             /\ arg[s].row.count = cards'[c].count + 1 /\ arg[s].row.right <= arg[s].row.count
             /\ arg[s].row.box <= arg[s].row.right + 1
             /\ arg[s].was.box = cards'[c].box /\ arg[s].was.count = cards'[c].count
             /\ arg[s].was.right = cards'[c].right
  BY <1>1, <1>4 DEF HoldsRow, SameCounts
<1> QED BY <1>2, <1>3, <1>4 DEF HoldsRow

\* A step that leaves the counts of every card alone, and the ratings at work.
LEMMA RowsAlike ==
    ASSUME RowInv, Aside(RowSteps), UNCHANGED disturbed,
           cards' \in Seq(CardRow), DOMAIN cards \subseteq DOMAIN cards',
           \A c \in DOMAIN cards : SameCounts(c),
           \A c \in (DOMAIN cards') \ DOMAIN cards : Counted(c)'
    PROVE  RowInv'
<1>1. \A c : Rating(c)' = Rating(c)
  BY DEF Aside, Rating, RowSteps
<1>2. CountsAddUp'
  <2>1. \A c \in DOMAIN cards : Counted(c)
    BY DEF RowInv, CountsAddUp, Counted
  <2>2. \A c \in DOMAIN cards' : Counted(c)'
    BY <2>1, CountedKept
  <2> QED BY <2>2 DEF CountsAddUp, Counted
<1>3. ASSUME NEW s \in Slots PROVE HoldsRow(s)'
  <2>1. CASE at'[s] \in RowSteps
    <3>1. at'[s] = at[s] /\ arg'[s] = arg[s] /\ at[s] \in RowSteps
      BY <2>1 DEF Aside
    <3>2. arg[s].card \in DOMAIN cards
      BY <3>1 DEF RowInv, HoldsRow
    <3>3. cards[arg[s].card].real <= cards'[arg[s].card].real
      <4>1. cards[arg[s].card] \in CardRow /\ cards'[arg[s].card].real = cards[arg[s].card].real
        BY <3>2 DEF SameCounts, RowInv
      <4> QED BY <4>1, CardTyped
    <3> QED BY <1>1, <3>1, <3>2, <3>3, RowHeld
  <2>2. CASE at'[s] \notin RowSteps
    BY <2>2 DEF HoldsRow
  <2> QED BY <2>1, <2>2
<1> QED BY <1>2, <1>3 DEF RowInv

\* One handler moves, with one card in hand: whoever else has it in hand may not count
\* on it any more.
LEMMA RowMoves ==
    ASSUME RowInv, DOMAIN at = Slots, DOMAIN arg = Slots, NEW s \in Slots, NEW step, NEW a, Moved(s, step, a),
           NEW c, at[s] \in RowSteps => arg[s].card = c, step \in RowSteps => a.card = c,
           cards' \in Seq(CardRow), DOMAIN cards' = DOMAIN cards,
           disturbed \subseteq disturbed', disturbed' \subseteq DOMAIN cards',
           \A d \in (DOMAIN cards) \ {c} : SameCounts(d),
           c \in DOMAIN cards => Counted(c)' /\ cards[c].real <= cards'[c].real,
           Rating(c) \ {s} # {} => c \in disturbed',
           HoldsRow(s)'
    PROVE  RowInv'
<1>1. CountsAddUp'
  <2>1. \A d \in DOMAIN cards : Counted(d)
    BY DEF RowInv, CountsAddUp, Counted
  <2>2. \A d \in DOMAIN cards' : Counted(d)'
    BY <2>1, CountedKept
  <2> QED BY <2>2 DEF CountsAddUp, Counted
<1>2. \A r \in Slots \ {s} : at'[r] = at[r] /\ arg'[r] = arg[r]
  BY MovesOne
<1>3. ASSUME NEW r \in Slots \ {s}, at[r] \in RowSteps PROVE HoldsRow(r)'
  <2> PICK d : d = arg[r].card
    OBVIOUS
  <2>1. d \in DOMAIN cards /\ r \in Rating(d)
    BY <1>3 DEF RowInv, HoldsRow, Rating, RowSteps
  <2>2. CASE d = c
    <3>1. c \in disturbed' /\ cards[c].real <= cards'[c].real
      BY <1>3, <2>1, <2>2
    <3> QED BY <1>2, <1>3, <2>2, <3>1, RowHeld
  <2>3. CASE d # c
    <3>1. s \notin Rating(d)
      BY <2>3 DEF Rating, RowSteps
    <3>2. Rating(d)' = Rating(d) \ {s}
      BY <2>3, RatingMoved
    <3>3. Rating(d)' = Rating(d)
      BY <3>1, <3>2
    <3>4. SameCounts(d)
      BY <2>1, <2>3
    <3>5. cards[d].real <= cards'[d].real
      <4>1. cards[d] \in CardRow /\ cards'[d].real = cards[d].real
        BY <2>1, <3>4 DEF SameCounts, RowInv
      <4> QED BY <4>1, CardTyped
    <3> QED BY <1>2, <1>3, <3>3, <3>4, <3>5, RowHeld
  <2> QED BY <2>2, <2>3
<1>4. \A r \in Slots : HoldsRow(r)'
  <2>1. ASSUME NEW r \in Slots \ {s}, at[r] \notin RowSteps PROVE HoldsRow(r)'
    BY <1>2, <2>1 DEF HoldsRow
  <2> QED BY <1>3, <2>1
<1> QED BY <1>1, <1>4 DEF RowInv

\* A rating that ends writing nothing.
LEMMA RowEnds ==
    ASSUME RowInv, DOMAIN at = Slots, DOMAIN arg = Slots, NEW s \in Slots, Moved(s, "idle", Nothing),
           UNCHANGED <<cards, disturbed>>
    PROVE  RowInv'
<1> PICK c : c = arg[s].card
  OBVIOUS
<1>1. "idle" \notin RowSteps
  BY DEF RowSteps
<1>2. HoldsRow(s)'
  BY <1>1, MovesOne DEF HoldsRow
<1>3. CASE at[s] \notin RowSteps
  <2>1. Aside(RowSteps)
    BY <1>1, <1>3, MovesOne DEF Aside
  <2>2. cards' \in Seq(CardRow) /\ \A d \in DOMAIN cards : SameCounts(d)
    BY DEF RowInv, SameCounts
  <2> QED BY <2>1, <2>2, RowsAlike
<1>4. CASE at[s] \in RowSteps
  <2>1. c \in DOMAIN cards /\ s \in Rating(c)
    BY <1>4 DEF RowInv, HoldsRow, Rating, RowSteps
  <2>2. Rating(c) \ {s} # {} => c \in disturbed
    BY <1>4 DEF RowInv, HoldsRow
  <2>3. Counted(c)' /\ cards[c].real <= cards'[c].real
    <3>1. Counted(c) /\ cards[c] \in CardRow
      BY <2>1 DEF RowInv, CountsAddUp, Counted
    <3>2. Counted(c)'
      BY <3>1 DEF Counted
    <3>3. cards[c].real \in Nat
      BY <3>1, CardTyped
    <3> QED BY <3>2, <3>3
  <2>4. /\ \A d \in (DOMAIN cards) \ {c} : SameCounts(d)
        /\ cards' \in Seq(CardRow) /\ disturbed' \subseteq DOMAIN cards' /\ disturbed \subseteq disturbed'
    BY DEF RowInv, SameCounts
  <2> QED BY <1>1, <1>2, <2>2, <2>3, <2>4, RowMoves
<1> QED BY <1>3, <1>4

\* One more review, by Leitner's rule.
LEMMA LeitnerCounts ==
    ASSUME NEW row \in CardRow, NEW correct
    PROVE  /\ Leitner(row, correct) \in CardRow
           /\ Leitner(row, correct).count = row.count + 1
           /\ row.right <= row.count => Leitner(row, correct).right <= row.count + 1
           /\ row.box <= row.right + 1 => Leitner(row, correct).box <= Leitner(row, correct).right + 1
<1> DEFINE box == IF ~correct THEN 1 ELSE IF row.box < MaxBox THEN row.box + 1 ELSE row.box
           right == IF correct THEN row.right + 1 ELSE row.right
           new == Leitner(row, correct)
<1>1. /\ row.word \in Words /\ row.box \in 1 .. MaxBox /\ row.live \in BOOLEAN
      /\ row.count \in Nat /\ row.right \in Nat /\ row.real \in Nat
      /\ DOMAIN row = {"word", "box", "due", "count", "right", "real", "live"}
  BY CardTyped
<1>2. MaxBox \in Nat \ {0}
  BY ReviewsAssumption
<1>3. new = [row EXCEPT !.box = box, !.due = FALSE, !.count = row.count + 1, !.right = right]
  BY DEF Leitner
<1>4. box \in 1 .. MaxBox /\ right \in Nat
  BY <1>1, <1>2
<1>5. /\ row.right <= row.count => right <= row.count + 1
      /\ row.box <= row.right + 1 => box <= right + 1
  BY <1>1
<1> HIDE DEF box, right, new
<1>6. /\ new.box = box /\ new.count = row.count + 1 /\ new.right = right /\ new.due = FALSE
      /\ new.word = row.word /\ new.real = row.real /\ new.live = row.live
  BY <1>1, <1>3
<1>7. new \in CardRow
  <2>1. row.count + 1 \in Nat
    BY <1>1
  <2> QED BY <1>1, <1>3, <1>4, <1>6, <2>1 DEF CardRow
<1> QED BY <1>5, <1>6, <1>7 DEF new

\* The search: the row is read, and what will be written is made of it.
LEMMA RowFound ==
    ASSUME ReviewInv, DOMAIN at = Slots, DOMAIN arg = Slots, NEW s \in Slots, FindCard(s)
    PROVE  RowInv'
<1> PICK c : c = arg[s].card
  OBVIOUS
<1>1. at[s] = "card" /\ UNCHANGED cards
  BY DEF FindCard
<1>2. CASE End(s) /\ UNCHANGED disturbed
  BY <1>1, <1>2, HandlersMove, RowEnds DEF ReviewInv
<1>3. CASE ~(End(s) /\ UNCHANGED disturbed)
  <2> DEFINE new == Leitner(cards[c], arg[s].correct)
             a == [op |-> "rate", session |-> arg[s].session, card |-> c, correct |-> arg[s].correct,
                   was |-> cards[c], row |-> new]
  <2>1. /\ Go(s, "select card", a)
        /\ disturbed' = IF Rating(c) = {} THEN disturbed ELSE disturbed \cup {c}
    BY <1>3 DEF FindCard
  <2>2. Moved(s, "select card", a)
    BY <2>1, HandlersMove
  <2>3. /\ DOMAIN a = {"op", "session", "card", "correct", "was", "row"}
        /\ a.card = c /\ a.was = cards[c] /\ a.row = new
    OBVIOUS
  <2>4. c \in DOMAIN cards
    BY <1>1 DEF ReviewInv, ClaimInv, HoldsClaim, SessionTypes, RateSteps
  <2>5. cards[c] \in CardRow /\ Counted(c)
    BY <2>4 DEF ReviewInv, RowInv, CountsAddUp, Counted
  <2>6. /\ new \in CardRow /\ new.count = cards[c].count + 1
        /\ cards[c].right <= cards[c].count => new.right <= cards[c].count + 1
        /\ cards[c].box <= cards[c].right + 1 => new.box <= new.right + 1
    BY <2>5, LeitnerCounts
  <2> HIDE DEF new, a
  <2>7. cards[c].count \in Nat /\ cards[c].real \in Nat
    BY <2>5, CardTyped
  <2>8. s \notin Rating(c)
    BY <1>1 DEF Rating
  <2>9. HoldsRow(s)'
    <3>1. at'[s] = "select card" /\ arg'[s] = a
      BY <2>2, MovesOne
    <3>2. Rating(c)' = Rating(c) \cup {s}
      <4>1. "select card" \in RowSteps
        BY DEF RowSteps
      <4> QED BY <2>2, <2>3, <4>1, RatingMoved
    <3>3. new.count <= cards[c].real + 1
      BY <2>5, <2>6, <2>7 DEF Counted
    <3>4. ASSUME c \notin disturbed'
          PROVE  /\ Rating(c)' = {s}
                 /\ new.right <= new.count /\ new.box <= new.right + 1
      <4>1. Rating(c) = {} /\ c \notin disturbed
        BY <2>1, <3>4
      <4> QED BY <2>5, <2>6, <3>2, <4>1 DEF Counted
    <3> QED BY <1>1, <2>3, <2>4, <2>5, <2>6, <3>1, <3>3, <3>4 DEF HoldsRow
  <2>10. Counted(c)' /\ cards[c].real <= cards'[c].real
    <3>1. Counted(c)'
      BY <1>1, <2>1, <2>5 DEF Counted
    <3> QED BY <1>1, <2>7, <3>1
  <2>11. /\ cards' \in Seq(CardRow) /\ DOMAIN cards' = DOMAIN cards /\ \A d \in (DOMAIN cards) \ {c} : SameCounts(d)
         /\ disturbed \subseteq disturbed' /\ disturbed' \subseteq DOMAIN cards'
    BY <1>1, <2>1, <2>4 DEF ReviewInv, RowInv, SameCounts
  <2>12. Rating(c) \ {s} # {} => c \in disturbed'
    BY <2>1
  <2>13. at[s] \notin RowSteps /\ RowInv
    BY <1>1 DEF RowSteps, ReviewInv
  <2> QED BY <2>2, <2>3, <2>9, <2>10, <2>11, <2>12, <2>13, RowMoves
<1> QED BY <1>2, <1>3

\* The first half of the save: the row is read again.
LEMMA RowSelected ==
    ASSUME RowInv, DOMAIN at = Slots, DOMAIN arg = Slots, NEW s \in Slots, SelectCard(s)
    PROVE  RowInv'
<1> PICK c : c = arg[s].card
  OBVIOUS
<1> DEFINE a == [arg[s] EXCEPT !.was = cards[c]]
<1>1. at[s] = "select card" /\ UNCHANGED <<cards, disturbed>> /\ Go(s, "write card", a)
  BY DEF SelectCard, reviewVars
<1>2. Moved(s, "write card", a)
  BY <1>1, HandlersMove
<1>3. /\ DOMAIN arg[s] = {"op", "session", "card", "correct", "was", "row"}
      /\ c \in DOMAIN cards /\ arg[s].row \in CardRow /\ HoldsRow(s)
      /\ s \in Rating(c)
  BY <1>1 DEF RowInv, HoldsRow, RowSteps, Rating
<1>4. /\ DOMAIN a = {"op", "session", "card", "correct", "was", "row"}
      /\ a.card = c /\ a.was = cards[c] /\ a.row = arg[s].row
  BY <1>3
<1> HIDE DEF a
<1>5. cards[c] \in CardRow /\ Counted(c) /\ cards[c].real \in Nat
  <2>1. cards[c] \in CardRow /\ Counted(c)
    BY <1>3 DEF RowInv, CountsAddUp, Counted
  <2> QED BY <2>1, CardTyped
<1>6. Rating(c)' = Rating(c)
  <2>1. "write card" \in RowSteps
    BY DEF RowSteps
  <2>2. Rating(c)' = Rating(c) \cup {s}
    BY <1>2, <1>4, <2>1, RatingMoved
  <2> QED BY <1>3, <2>2
<1>7. HoldsRow(s)'
  <2>1. at'[s] = "write card" /\ arg'[s] = a
    BY <1>2, MovesOne
  <2> QED BY <1>1, <1>3, <1>4, <1>5, <1>6, <2>1 DEF HoldsRow, RowSteps
<1>8. /\ cards' \in Seq(CardRow) /\ DOMAIN cards' = DOMAIN cards /\ \A d \in (DOMAIN cards) \ {c} : SameCounts(d)
      /\ disturbed \subseteq disturbed' /\ disturbed' \subseteq DOMAIN cards'
  BY <1>1 DEF RowInv, SameCounts
<1>9. Rating(c) \ {s} # {} => c \in disturbed'
  BY <1>1, <1>3 DEF HoldsRow, RowSteps
<1>10. Counted(c)' /\ cards[c].real <= cards'[c].real
  <2>1. Counted(c)'
    BY <1>1, <1>5 DEF Counted
  <2>2. cards'[c].real = cards[c].real
    BY <1>1
  <2> QED BY <1>5, <2>1, <2>2
<1> QED BY <1>2, <1>4, <1>7, <1>8, <1>9, <1>10, RowMoves

\* The second half: the columns that differ from what was read are written, or the
\* row is inserted again.
LEMMA RowWritten ==
    ASSUME RowInv, DOMAIN at = Slots, DOMAIN arg = Slots, NEW s \in Slots, WriteCard(s)
    PROVE  RowInv'
<1> PICK c : c = arg[s].card
  OBVIOUS
<1> PICK new : new = arg[s].row
  OBVIOUS
<1> PICK was : was = arg[s].was
  OBVIOUS
<1>1. at[s] = "write card" /\ UNCHANGED disturbed /\ Moved(s, "idle", Nothing) /\ at[s] \in RowSteps
  BY HandlersMove DEF WriteCard, RowSteps
<1>2. /\ c \in DOMAIN cards /\ new \in CardRow /\ HoldsRow(s) /\ cards[c] \in CardRow /\ Counted(c)
  <2>1. HoldsRow(s) /\ CountsAddUp /\ cards \in Seq(CardRow)
    BY DEF RowInv
  <2>2. c \in DOMAIN cards /\ new \in CardRow
    BY <1>1, <2>1 DEF HoldsRow
  <2>3. Counted(c)
    BY <2>1, <2>2 DEF CountsAddUp, Counted
  <2> QED BY <2>1, <2>2, <2>3
<1>3. /\ new.count <= cards[c].real + 1
      /\ c \notin disturbed =>
           /\ Rating(c) = {s}
           /\ new.count = cards[c].count + 1 /\ new.right <= new.count /\ new.box <= new.right + 1
           /\ was.box = cards[c].box /\ was.count = cards[c].count /\ was.right = cards[c].right
  BY <1>1, <1>2 DEF HoldsRow
<1>4. CASE UNCHANGED cards
  BY <1>1, <1>4, RowEnds
<1>5. ASSUME NEW row \in CardRow, cards' = [cards EXCEPT ![c] = row],
             row.real = cards[c].real + 1,
             \/ /\ row.box = IF was.box = new.box THEN cards[c].box ELSE new.box
                /\ row.count = IF was.count = new.count THEN cards[c].count ELSE new.count
                /\ row.right = IF was.right = new.right THEN cards[c].right ELSE new.right
             \/ row.box = new.box /\ row.count = new.count /\ row.right = new.right
      PROVE  RowInv'
  <2>1. /\ cards' \in Seq(CardRow) /\ DOMAIN cards' = DOMAIN cards /\ cards'[c] = row
        /\ \A d \in (DOMAIN cards) \ {c} : SameCounts(d)
    BY <1>2, <1>5 DEF RowInv, SameCounts
  <2>2. /\ cards[c].count \in Nat /\ cards[c].real \in Nat /\ row.real \in Nat /\ row.count \in Nat
        /\ new.count \in Nat /\ row.box \in 1 .. MaxBox
    BY <1>2, <1>5, CardTyped
  <2>3. cards[c].real <= cards'[c].real
    BY <1>5, <2>1, <2>2
  <2>4. row.count = cards[c].count \/ row.count = new.count
    BY <1>5
  <2>5. row.count <= row.real
    BY <1>2, <1>3, <1>5, <2>2, <2>4 DEF Counted
  <2>6. ASSUME c \notin disturbed
        PROVE  row.count = row.real /\ row.right <= row.count /\ row.box <= row.right + 1
    <3>1. row.box = new.box /\ row.count = new.count /\ row.right = new.right
      BY <1>3, <1>5, <2>6
    <3> QED BY <1>2, <1>3, <1>5, <2>6, <3>1 DEF Counted
  <2>7. Counted(c)'
    BY <1>1, <2>1, <2>2, <2>5, <2>6 DEF Counted
  <2>8. HoldsRow(s)' /\ "idle" \notin RowSteps
    <3>1. at'[s] = "idle"
      BY <1>1, MovesOne
    <3> QED BY <3>1 DEF HoldsRow, RowSteps
  <2>9. Rating(c) \ {s} # {} => c \in disturbed'
    BY <1>1, <1>3
  <2>10. disturbed \subseteq disturbed' /\ disturbed' \subseteq DOMAIN cards'
    BY <1>1, <2>1 DEF RowInv
  <2> QED BY <1>1, <2>1, <2>3, <2>7, <2>8, <2>9, <2>10, RowMoves
<1>6. CASE was.live /\ cards[c].live /\ ~UNCHANGED cards
  <2> DEFINE db == cards[c]
             row == [db EXCEPT
                 !.box = IF was.box = new.box THEN db.box ELSE new.box,
                 !.count = IF was.count = new.count THEN db.count ELSE new.count,
                 !.right = IF was.right = new.right THEN db.right ELSE new.right,
                 !.due = FALSE, !.real = @ + 1]
  <2>1. cards' = [cards EXCEPT ![c] = row]
    BY <1>6 DEF WriteCard
  <2>2. /\ db.word \in Words /\ db.box \in 1 .. MaxBox /\ db.live \in BOOLEAN
        /\ db.count \in Nat /\ db.right \in Nat /\ db.real \in Nat
        /\ DOMAIN db = {"word", "box", "due", "count", "right", "real", "live"}
        /\ new.box \in 1 .. MaxBox /\ new.count \in Nat /\ new.right \in Nat
    BY <1>2, CardTyped
  <2>3. /\ row.word = db.word /\ row.due = FALSE /\ row.live = db.live /\ row.real = db.real + 1
        /\ row.box = IF was.box = new.box THEN db.box ELSE new.box
        /\ row.count = IF was.count = new.count THEN db.count ELSE new.count
        /\ row.right = IF was.right = new.right THEN db.right ELSE new.right
        /\ DOMAIN row = {"word", "box", "due", "count", "right", "real", "live"}
    BY <2>2
  <2>4. row \in CardRow
    <3>1. row.box \in 1 .. MaxBox /\ row.count \in Nat /\ row.right \in Nat /\ row.real \in Nat
      BY <2>2, <2>3
    <3> QED BY <1>2, <2>2, <3>1 DEF CardRow
  <2> HIDE DEF row
  <2> QED BY <1>5, <2>1, <2>3, <2>4
<1>7. CASE ~was.live /\ ~UNCHANGED cards
  <2> DEFINE row == [new EXCEPT !.real = cards[c].real + 1]
  <2>1. cards' = [cards EXCEPT ![c] = row]
    BY <1>7 DEF WriteCard
  <2>2. DOMAIN new = {"word", "box", "due", "count", "right", "real", "live"} /\ cards[c].real \in Nat
    BY <1>2, CardTyped
  <2>3. row.real = cards[c].real + 1 /\ row.box = new.box /\ row.count = new.count /\ row.right = new.right
    BY <2>2
  <2>4. row \in CardRow
    <3>1. cards[c].real + 1 \in Nat
      BY <2>2
    <3> QED BY <1>2, <3>1 DEF CardRow
  <2> HIDE DEF row
  <2> QED BY <1>5, <2>1, <2>3, <2>4
<1>8. UNCHANGED cards \/ (was.live /\ cards[c].live) \/ ~was.live
  BY DEF WriteCard
<1> QED BY <1>4, <1>6, <1>7, <1>8

\* A look-up that counts in the database: whoever has the card in hand is overtaken.
LEMMA RowTouched ==
    ASSUME RowInv, TouchReviewed
    PROVE  RowInv'
<1>1. PICK c \in DOMAIN cards :
        /\ UNCHANGED <<at, arg>>
        /\ cards' = [cards EXCEPT ![c].count = @ + 1, ![c].real = @ + 1]
        /\ disturbed' = IF Rating(c) = {} THEN disturbed ELSE disturbed \cup {c}
  BY DEF TouchReviewed, Instant
<1> DEFINE row == [cards[c] EXCEPT !.count = @ + 1, !.real = @ + 1]
<1>2. cards[c] \in CardRow /\ Counted(c) /\ cards \in Seq(CardRow) /\ disturbed \subseteq DOMAIN cards
  BY DEF RowInv, CountsAddUp, Counted
<1>3. /\ cards[c].count \in Nat /\ cards[c].real \in Nat /\ cards[c].right \in Nat
      /\ DOMAIN cards[c] = {"word", "box", "due", "count", "right", "real", "live"}
  BY <1>2, CardTyped
<1>4. /\ row.count = cards[c].count + 1 /\ row.real = cards[c].real + 1
      /\ row.box = cards[c].box /\ row.right = cards[c].right
  BY <1>3
<1>5. row \in CardRow
  <2>1. cards[c].count + 1 \in Nat /\ cards[c].real + 1 \in Nat
    BY <1>3
  <2> QED BY <1>2, <2>1 DEF CardRow
<1>6. cards' = [cards EXCEPT ![c] = row]
  BY <1>1
<1> HIDE DEF row
<1>7. /\ cards' \in Seq(CardRow) /\ DOMAIN cards' = DOMAIN cards /\ cards'[c] = row
      /\ \A d \in (DOMAIN cards) \ {c} : SameCounts(d)
      /\ disturbed \subseteq disturbed' /\ disturbed' \subseteq DOMAIN cards'
  <2>1. cards' \in Seq(CardRow) /\ DOMAIN cards' = DOMAIN cards /\ cards'[c] = row
    BY <1>2, <1>5, <1>6
  <2>2. \A d \in (DOMAIN cards) \ {c} : SameCounts(d)
    BY <1>6 DEF SameCounts
  <2>3. disturbed \subseteq disturbed' /\ disturbed' \subseteq DOMAIN cards'
    BY <1>1, <1>2, <2>1
  <2> QED BY <2>1, <2>2, <2>3
<1>8. Counted(c)'
  BY <1>2, <1>3, <1>4, <1>7 DEF Counted
<1>9. CountsAddUp'
  <2>1. \A d \in DOMAIN cards : Counted(d)
    BY DEF RowInv, CountsAddUp, Counted
  <2>2. \A d \in DOMAIN cards' : Counted(d)'
    BY <1>7, <1>8, <2>1, CountedKept
  <2> QED BY <2>2 DEF CountsAddUp, Counted
<1>10. ASSUME NEW s \in Slots PROVE HoldsRow(s)'
  <2>1. CASE at[s] \in RowSteps
    <3> PICK d : d = arg[s].card
      OBVIOUS
    <3>1. d \in DOMAIN cards /\ s \in Rating(d)
      BY <2>1 DEF RowInv, HoldsRow, Rating, RowSteps
    <3>2. Rating(d)' = Rating(d)
      BY <1>1 DEF Rating
    <3>3. d \in disturbed' \/ SameCounts(d)
      BY <1>1, <1>7, <3>1
    <3>4. cards[d].real <= cards'[d].real
      <4>1. CASE d = c
        BY <1>3, <1>4, <1>7, <4>1
      <4>2. CASE d # c
        <5>1. cards[d] \in CardRow /\ cards'[d].real = cards[d].real
          BY <1>2, <1>7, <3>1, <4>2 DEF SameCounts
        <5> QED BY <5>1, CardTyped
      <4> QED BY <4>1, <4>2
    <3> QED BY <1>1, <1>7, <2>1, <3>2, <3>3, <3>4, RowHeld
  <2>2. CASE at[s] \notin RowSteps
    BY <1>1, <2>2 DEF HoldsRow
  <2> QED BY <2>1, <2>2
<1> QED BY <1>7, <1>9, <1>10 DEF RowInv

\* A new card has no review, and so it says.
LEMMA CardCounts ==
    ASSUME NEW w \in Words
    PROVE  /\ Card(w) \in CardRow
           /\ Card(w).count = 0 /\ Card(w).real = 0 /\ Card(w).right = 0 /\ Card(w).box = 1
  BY ReviewsAssumption DEF Card, CardRow

\* Requests that are over in a statement, and moments: none of them counts.
LEMMA RowsInstant ==
    ASSUME RowInv, DOMAIN at = Slots, DOMAIN arg = Slots,
           TranslateWord \/ RemoveWord \/ FallDue \/ StartReview \/ Age \/ Sweep
    PROVE  RowInv'
<1>1. UNCHANGED <<at, arg, disturbed>> /\ Aside(RowSteps)
  <2>1. UNCHANGED <<at, arg, disturbed>>
    BY DEF TranslateWord, RemoveWord, FallDue, StartReview, Age, Sweep, Instant, handlerVars
  <2> QED BY <2>1, InstantAside
<1>2. cards \in Seq(CardRow) /\ disturbed \subseteq DOMAIN cards
  BY DEF RowInv
<1>3. CASE UNCHANGED cards
  BY <1>1, <1>2, <1>3, RowsAlike DEF SameCounts
<1>4. ASSUME NEW w \in Words, cards' = Append(cards, Card(w)) PROVE RowInv'
  <2> DEFINE card == Card(w)
  <2>1. /\ card \in CardRow
        /\ card.count = 0 /\ card.real = 0 /\ card.right = 0 /\ card.box = 1
    BY CardCounts
  <2> HIDE DEF card
  <2>2. cards' = Append(cards, card)
    BY <1>4 DEF card
  <2>3. /\ cards' \in Seq(CardRow) /\ DOMAIN cards \subseteq DOMAIN cards'
        /\ \A c \in DOMAIN cards : cards'[c] = cards[c]
        /\ \A c \in (DOMAIN cards') \ DOMAIN cards : cards'[c] = card
    BY <1>2, <2>1, <2>2
  <2>4. \A c \in (DOMAIN cards') \ DOMAIN cards : Counted(c)'
    BY <2>1, <2>3, ReviewsAssumption DEF Counted
  <2>5. \A c \in DOMAIN cards : SameCounts(c)
    BY <2>3 DEF SameCounts
  <2> QED BY <1>1, <2>3, <2>4, <2>5, RowsAlike
<1>5. ASSUME NEW c \in DOMAIN cards, NEW row \in CardRow, cards' = [cards EXCEPT ![c] = row],
             row.count = cards[c].count, row.real = cards[c].real, row.right = cards[c].right,
             row.box = cards[c].box
      PROVE  RowInv'
  <2>1. cards' \in Seq(CardRow) /\ DOMAIN cards' = DOMAIN cards
    BY <1>2, <1>5
  <2>2. \A d \in DOMAIN cards : SameCounts(d)
    BY <1>5 DEF SameCounts
  <2> QED BY <1>1, <2>1, <2>2, RowsAlike
<1>6. CASE TranslateWord
  BY <1>3, <1>4, <1>6 DEF TranslateWord
<1>7. CASE RemoveWord
  <2>1. PICK c \in DOMAIN cards : cards' = [cards EXCEPT ![c].live = FALSE]
    BY <1>7 DEF RemoveWord
  <2> DEFINE row == [cards[c] EXCEPT !.live = FALSE]
  <2>2. row \in CardRow /\ cards[c] \in CardRow
    <3>1. cards[c] \in CardRow
      BY <1>2
    <3> QED BY <3>1 DEF CardRow
  <2>3. row.count = cards[c].count /\ row.real = cards[c].real /\ row.right = cards[c].right /\ row.box = cards[c].box
    BY <2>2, CardTyped
  <2>4. cards' = [cards EXCEPT ![c] = row]
    BY <2>1
  <2> HIDE DEF row
  <2> QED BY <1>5, <2>2, <2>3, <2>4
<1>8. CASE FallDue
  <2>1. PICK c \in DOMAIN cards : cards' = [cards EXCEPT ![c].due = TRUE]
    BY <1>8 DEF FallDue
  <2> DEFINE row == [cards[c] EXCEPT !.due = TRUE]
  <2>2. row \in CardRow /\ cards[c] \in CardRow
    <3>1. cards[c] \in CardRow
      BY <1>2
    <3> QED BY <3>1 DEF CardRow
  <2>3. row.count = cards[c].count /\ row.real = cards[c].real /\ row.right = cards[c].right /\ row.box = cards[c].box
    BY <2>2, CardTyped
  <2>4. cards' = [cards EXCEPT ![c] = row]
    BY <2>1
  <2> HIDE DEF row
  <2> QED BY <1>5, <2>2, <2>3, <2>4
<1>9. CASE StartReview \/ Age \/ Sweep
  BY <1>3, <1>9 DEF StartReview, Age, Sweep
<1> QED BY <1>6, <1>7, <1>8, <1>9

\* Handlers that have no card in hand, or have not read it yet.
LEMMA RowsElsewhere ==
    ASSUME RowInv, Aside(RowSteps), UNCHANGED <<cards, disturbed>>
    PROVE  RowInv'
<1>1. cards' \in Seq(CardRow) /\ \A c \in DOMAIN cards : SameCounts(c)
  BY DEF RowInv, SameCounts
<1> QED BY <1>1, RowsAlike

\* Every step of the reviews keeps the counts.
LEMMA RowStep ==
    ASSUME ReviewInv, DOMAIN at = Slots, DOMAIN arg = Slots,
           \/ \E s \in Slots : ReviewStep(s)
           \/ TranslateWord \/ RemoveWord \/ TouchReviewed \/ FallDue \/ StartReview \/ Age \/ Sweep
    PROVE  RowInv'
<1>1. RowInv
  BY DEF ReviewInv
<1>2. ASSUME NEW s \in Slots, ReviewStep(s) PROVE RowInv'
  <2>1. CASE FindCard(s)
    BY <2>1, RowFound
  <2>2. CASE SelectCard(s)
    BY <1>1, <2>2, RowSelected
  <2>3. CASE WriteCard(s)
    BY <1>1, <2>3, RowWritten
  <2>4. CASE RatingFails(s)
    <3>1. Moved(s, "idle", Nothing) /\ UNCHANGED <<cards, disturbed>>
      BY <2>4, HandlersMove DEF RatingFails
    <3> QED BY <1>1, <3>1, RowEnds
  <2>5. CASE \/ Rate(s) \/ CompleteReview(s) \/ CloseReview(s)
             \/ Sentence(s) \/ AskSentence(s) \/ SelectMessage(s) \/ WriteMessage(s) \/ SentenceFails(s)
    <3> DEFINE own == {"card", "boxes"} \cup Translating
    <3>1. UNCHANGED <<cards, disturbed>>
      BY <2>5 DEF Rate, CompleteReview, CloseReview, Sentence, AskSentence, SelectMessage, WriteMessage,
                  SentenceFails, reviewVars
    <3>2. MovesIn(s, own)
      <4> USE HandlersMove DEF MovesIn, Translating
      <4>1. CASE Rate(s)
        BY <4>1 DEF Rate
      <4>2. CASE CompleteReview(s) \/ CloseReview(s)
        BY <4>2 DEF CompleteReview, CloseReview
      <4>3. CASE Sentence(s)
        BY <4>3 DEF Sentence
      <4>4. CASE AskSentence(s) \/ SelectMessage(s)
        BY <4>4 DEF AskSentence, SelectMessage
      <4>5. CASE WriteMessage(s) \/ SentenceFails(s)
        BY <4>5 DEF WriteMessage, SentenceFails
      <4> QED BY <2>5, <4>1, <4>2, <4>3, <4>4, <4>5
    <3>3. RowSteps \cap own = {} /\ "idle" \notin RowSteps
      BY DEF RowSteps, Translating
    <3> HIDE DEF own
    <3>4. Aside(RowSteps)
      BY <3>2, <3>3, MovesAside
    <3> QED BY <1>1, <3>1, <3>4, RowsElsewhere
  <2> QED BY <1>2, <2>1, <2>2, <2>3, <2>4, <2>5 DEF ReviewStep
<1> QED BY <1>1, <1>2, RowTouched, RowsInstant

-----------------------------------------------------------------------------
(* The claims of a session. *)

\* A sequence with another element, or with one more, is a sequence.
LEMMA SequenceKept ==
    ASSUME NEW q, IsSequence(q), NEW e
    PROVE  /\ \A i \in DOMAIN q : /\ IsSequence([q EXCEPT ![i] = e])
                                  /\ DOMAIN [q EXCEPT ![i] = e] = DOMAIN q
           /\ DOMAIN q = 1 .. Len(q)
           /\ IsSequence(Append(q, e)) /\ DOMAIN Append(q, e) = 1 .. Len(q) + 1
           /\ \A i \in DOMAIN q : Append(q, e)[i] = q[i]
           /\ Append(q, e)[Len(q) + 1] = e
<1> DEFINE S == {q[i] : i \in 1 .. Len(q)} \cup {e}
<1>1. Len(q) \in Nat /\ DOMAIN q = 1 .. Len(q)
  BY DEF IsSequence
<1>2. q \in [1 .. Len(q) -> S]
  BY DEF IsSequence
<1> HIDE DEF S
<1>3. q \in Seq(S) /\ e \in S
  BY <1>1, <1>2 DEF S
<1>4. ASSUME NEW p \in Seq(S) PROVE IsSequence(p) /\ DOMAIN p = 1 .. Len(p)
  BY <1>4 DEF IsSequence
<1>5. \A i \in DOMAIN q : [q EXCEPT ![i] = e] \in Seq(S) /\ DOMAIN [q EXCEPT ![i] = e] = DOMAIN q
  BY <1>3
<1>6. /\ Append(q, e) \in Seq(S) /\ Len(Append(q, e)) = Len(q) + 1
      /\ \A i \in DOMAIN q : Append(q, e)[i] = q[i]
      /\ Append(q, e)[Len(q) + 1] = e
  BY <1>3
<1> QED BY <1>1, <1>4, <1>5, <1>6

\* The claims of a session, the same as before.
SameClaims(i) ==
    /\ DOMAIN sessions'[i] = SessionFields
    /\ sessions'[i].cards = sessions[i].cards /\ sessions'[i].saved = sessions[i].saved
    /\ DOMAIN sessions'[i].rated = DOMAIN sessions[i].rated /\ sessions'[i].lost = sessions[i].lost
\* A session nobody has rated a card of.
Unrated(i) ==
    /\ DOMAIN sessions[i] = SessionFields /\ sessions[i].cards \subseteq DOMAIN cards
    /\ DOMAIN sessions[i].saved = sessions[i].cards /\ \A c \in sessions[i].cards : sessions[i].saved[c] = 0
    /\ DOMAIN sessions[i].rated = {} /\ sessions[i].lost = {}
\* The ratings at work are at work on the same cards.
SameHands ==
    \A s \in Slots :
        /\ at'[s] \in RateSteps <=> at[s] \in RateSteps
        /\ at[s] \in RateSteps => arg'[s].session = arg[s].session /\ arg'[s].card = arg[s].card

\* A step that neither takes a claim nor gives one back.
LEMMA ClaimsAlike ==
    ASSUME ClaimInv, SameHands, DOMAIN cards \subseteq DOMAIN cards',
           IsSequence(sessions'), DOMAIN sessions \subseteq DOMAIN sessions',
           \A i \in DOMAIN sessions : SameClaims(i),
           \A i \in (DOMAIN sessions') \ DOMAIN sessions : Unrated(i)'
    PROVE  ClaimInv'
<1>1. \A i, c : InHand(i, c)' <=> InHand(i, c)
  BY DEF SameHands, InHand, RateSteps, RowSteps
<1>2. SessionTypes'
  BY DEF ClaimInv, SessionTypes, SameClaims, Unrated
<1>3. RatedOnce'
  <2>1. ASSUME NEW i \in DOMAIN sessions, NEW c \in sessions[i].cards
        PROVE  /\ sessions'[i].saved[c] <= 1
               /\ c \in DOMAIN sessions'[i].rated <=>
                    sessions'[i].saved[c] = 1 \/ InHand(i, c)' \/ c \in sessions'[i].lost
    BY <1>1, <2>1 DEF ClaimInv, RatedOnce, SameClaims
  <2>2. ASSUME NEW i \in (DOMAIN sessions') \ DOMAIN sessions, NEW c \in sessions'[i].cards
        PROVE  /\ sessions'[i].saved[c] <= 1
               /\ c \in DOMAIN sessions'[i].rated <=>
                    sessions'[i].saved[c] = 1 \/ InHand(i, c)' \/ c \in sessions'[i].lost
    <3>1. ~InHand(i, c)
      BY <2>2 DEF InHand, ClaimInv, HoldsClaim, RateSteps, RowSteps
    <3> QED BY <1>1, <2>2, <3>1 DEF Unrated
  <2>3. \A i \in DOMAIN sessions : sessions'[i].cards = sessions[i].cards
    BY DEF SameClaims
  <2> QED BY <2>1, <2>2, <2>3 DEF RatedOnce
<1>4. ASSUME NEW s \in Slots PROVE HoldsClaim(s)'
  <2>1. CASE at[s] \in RateSteps
    <3>1. /\ arg'[s].session = arg[s].session /\ arg'[s].card = arg[s].card
          /\ \A r \in Slots : at'[r] \in RateSteps => at[r] \in RateSteps
               /\ arg'[r].session = arg[r].session /\ arg'[r].card = arg[r].card
      BY <2>1 DEF SameHands
    <3>2. HoldsClaim(s) /\ SameClaims(arg[s].session) /\ arg[s].session \in DOMAIN sessions
      BY <2>1 DEF ClaimInv, HoldsClaim
    <3> QED BY <2>1, <3>1, <3>2 DEF HoldsClaim, SameClaims
  <2>2. CASE at[s] \notin RateSteps
    BY <2>2 DEF SameHands, HoldsClaim
  <2> QED BY <2>1, <2>2
<1> QED BY <1>2, <1>3, <1>4 DEF ClaimInv

\* A claim is taken, by a handler that had none.
LEMMA ClaimTaken ==
    ASSUME ClaimInv, DOMAIN at = Slots, DOMAIN arg = Slots, NEW s \in Slots, NEW a, at[s] \notin RateSteps,
           Moved(s, "card", a), NEW i \in DOMAIN sessions, NEW c \in sessions[i].cards,
           c \notin DOMAIN sessions[i].rated, a.session = i, a.card = c, UNCHANGED cards,
           NEW new, sessions' = [sessions EXCEPT ![i] = new], DOMAIN new = SessionFields,
           new.cards = sessions[i].cards, new.saved = sessions[i].saved, new.lost = sessions[i].lost,
           DOMAIN new.rated = DOMAIN sessions[i].rated \cup {c}
    PROVE  ClaimInv'
<1>1. /\ at'[s] = "card" /\ arg'[s] = a
      /\ \A r \in Slots \ {s} : at'[r] = at[r] /\ arg'[r] = arg[r]
  BY MovesOne
<1>2. /\ IsSequence(sessions') /\ DOMAIN sessions' = DOMAIN sessions /\ sessions'[i] = new
      /\ \A j \in DOMAIN sessions \ {i} : sessions'[j] = sessions[j]
  BY SequenceKept DEF ClaimInv, SessionTypes
<1>3. sessions[i].saved[c] = 0 /\ c \notin sessions[i].lost /\ ~InHand(i, c)
  BY DEF ClaimInv, RatedOnce, SessionTypes
<1>4. \A j, d : InHand(j, d)' <=> InHand(j, d) \/ (j = i /\ d = c)
  BY <1>1 DEF InHand, RateSteps, RowSteps
<1>5. SessionTypes'
  BY <1>2 DEF ClaimInv, SessionTypes
<1>6. RatedOnce'
  BY <1>2, <1>3, <1>4 DEF ClaimInv, RatedOnce
<1>7. ASSUME NEW r \in Slots PROVE HoldsClaim(r)'
  <2>1. CASE r = s
    <3>1. \A q \in Slots \ {s} : ~(at[q] \in RateSteps /\ arg[q].session = i /\ arg[q].card = c)
      BY <1>3 DEF InHand, RateSteps, RowSteps
    <3> QED BY <1>1, <1>2, <1>3, <2>1, <3>1 DEF HoldsClaim
  <2>2. CASE r # s /\ at[r] \in RateSteps
    <3>1. HoldsClaim(r) /\ at'[r] = at[r] /\ arg'[r] = arg[r]
      BY <1>1, <2>2 DEF ClaimInv
    <3>2. ~(arg[r].session = i /\ arg[r].card = c)
      BY <1>3, <2>2 DEF InHand, RateSteps, RowSteps
    <3> QED BY <1>1, <1>2, <2>2, <3>1, <3>2 DEF HoldsClaim
  <2>3. CASE r # s /\ at[r] \notin RateSteps
    BY <1>1, <2>3 DEF HoldsClaim
  <2> QED BY <2>1, <2>2, <2>3
<1> QED BY <1>5, <1>6, <1>7 DEF ClaimInv

\* A claim comes to its end: saved, lost, or given back.
LEMMA ClaimDone ==
    ASSUME ClaimInv, DOMAIN at = Slots, DOMAIN arg = Slots, NEW s \in Slots, at[s] \in RateSteps,
           Moved(s, "idle", Nothing), NEW i, i = arg[s].session, NEW c, c = arg[s].card,
           DOMAIN cards = DOMAIN cards',
           NEW new, sessions' = [sessions EXCEPT ![i] = new], DOMAIN new = SessionFields,
           new.cards = sessions[i].cards, DOMAIN new.saved = sessions[i].cards,
           new.saved[c] \in {0, 1}, \A d \in sessions[i].cards \ {c} : new.saved[d] = sessions[i].saved[d],
           \A d : d # c => (d \in DOMAIN new.rated <=> d \in DOMAIN sessions[i].rated)
                           /\ (d \in new.lost <=> d \in sessions[i].lost),
           c \in DOMAIN new.rated <=> new.saved[c] = 1 \/ c \in new.lost
    PROVE  ClaimInv'
<1>1. /\ at'[s] = "idle"
      /\ \A r \in Slots \ {s} : at'[r] = at[r] /\ arg'[r] = arg[r]
  BY MovesOne
<1>2. HoldsClaim(s) /\ i \in DOMAIN sessions /\ c \in sessions[i].cards
  BY DEF ClaimInv, HoldsClaim
<1>3. /\ IsSequence(sessions') /\ DOMAIN sessions' = DOMAIN sessions /\ sessions'[i] = new
      /\ \A j \in DOMAIN sessions \ {i} : sessions'[j] = sessions[j]
  BY <1>2, SequenceKept DEF ClaimInv, SessionTypes
<1>4. \A r \in Slots \ {s} : ~(at[r] \in RateSteps /\ arg[r].session = i /\ arg[r].card = c)
  BY <1>2 DEF HoldsClaim
<1>5. /\ ~InHand(i, c)'
      /\ \A j, d : ~(j = i /\ d = c) => (InHand(j, d)' <=> InHand(j, d))
  BY <1>1, <1>4 DEF InHand, RateSteps, RowSteps
<1>6. SessionTypes'
  <2>1. \A d \in new.cards : new.saved[d] \in Nat
    BY <1>2 DEF ClaimInv, SessionTypes
  <2> QED BY <1>3, <2>1 DEF ClaimInv, SessionTypes
<1>7. RatedOnce'
  <2>1. ASSUME NEW j \in DOMAIN sessions', NEW d \in sessions'[j].cards
        PROVE  /\ sessions'[j].saved[d] <= 1
               /\ d \in DOMAIN sessions'[j].rated <=>
                    sessions'[j].saved[d] = 1 \/ InHand(j, d)' \/ d \in sessions'[j].lost
    <3>1. CASE j = i /\ d = c
      BY <1>3, <1>5, <3>1
    <3>2. CASE j = i /\ d # c
      <4>1. d \in sessions[i].cards /\ sessions'[i].saved[d] = sessions[i].saved[d] /\ (InHand(i, d)' <=> InHand(i, d))
        BY <1>3, <1>5, <2>1, <3>2
      <4> QED BY <1>2, <1>3, <3>2, <4>1 DEF ClaimInv, RatedOnce
    <3>3. CASE j # i
      <4>1. j \in DOMAIN sessions /\ sessions'[j] = sessions[j] /\ (InHand(j, d)' <=> InHand(j, d))
        BY <1>3, <1>5, <2>1, <3>3
      <4> QED BY <2>1, <4>1 DEF ClaimInv, RatedOnce
    <3> QED BY <3>1, <3>2, <3>3
  <2> QED BY <2>1 DEF RatedOnce
<1>8. ASSUME NEW r \in Slots PROVE HoldsClaim(r)'
  <2>1. CASE r # s /\ at[r] \in RateSteps
    <3>1. HoldsClaim(r) /\ at'[r] = at[r] /\ arg'[r] = arg[r] /\ ~(arg[r].session = i /\ arg[r].card = c)
      BY <1>1, <1>4, <2>1 DEF ClaimInv
    <3>2. \A q \in Slots : at'[q] \in RateSteps => at[q] \in RateSteps /\ arg'[q] = arg[q]
      BY <1>1 DEF RateSteps, RowSteps
    <3> PICK j : j = arg[r].session
      OBVIOUS
    <3> PICK d : d = arg[r].card
      OBVIOUS
    <3>3. /\ j \in DOMAIN sessions' /\ d \in sessions'[j].cards
          /\ d \in DOMAIN sessions'[j].rated /\ sessions'[j].saved[d] = 0 /\ d \notin sessions'[j].lost
      <4>1. CASE j = i
        BY <1>3, <2>1, <3>1, <4>1 DEF HoldsClaim
      <4>2. CASE j # i
        BY <1>3, <2>1, <3>1, <4>2 DEF HoldsClaim
      <4> QED BY <4>1, <4>2
    <3> QED BY <2>1, <3>1, <3>2, <3>3 DEF HoldsClaim
  <2>2. CASE r = s \/ at[r] \notin RateSteps
    BY <1>1, <2>2 DEF HoldsClaim, RateSteps, RowSteps
  <2> QED BY <2>1, <2>2
<1> QED BY <1>6, <1>7, <1>8 DEF ClaimInv

\* What a rating at work finds in the store.
LEMMA ClaimHeld ==
    ASSUME ClaimInv, NEW s \in Slots, at[s] \in RateSteps, NEW i, i = arg[s].session, NEW c, c = arg[s].card
    PROVE  /\ i \in DOMAIN sessions /\ c \in sessions[i].cards /\ DOMAIN sessions[i] = SessionFields
           /\ DOMAIN sessions[i].saved = sessions[i].cards
           /\ c \in DOMAIN sessions[i].rated /\ sessions[i].saved[c] = 0 /\ c \notin sessions[i].lost
           /\ c \in DOMAIN cards
  BY DEF ClaimInv, HoldsClaim, SessionTypes

\* Rating again is refused until the claim is given back.
LEMMA ClaimReleased ==
    ASSUME ClaimInv, DOMAIN at = Slots, DOMAIN arg = Slots, NEW s \in Slots, at[s] \in RateSteps,
           Moved(s, "idle", Nothing), DOMAIN cards = DOMAIN cards', Release(arg[s].session, arg[s].card)
    PROVE  ClaimInv'
<1> PICK i : i = arg[s].session
  OBVIOUS
<1> PICK c : c = arg[s].card
  OBVIOUS
<1> DEFINE rated == [d \in (DOMAIN sessions[i].rated) \ {c} |-> sessions[i].rated[d]]
           new == [sessions[i] EXCEPT !.rated = rated]
<1>1. /\ i \in DOMAIN sessions /\ c \in sessions[i].cards /\ DOMAIN sessions[i] = SessionFields
      /\ DOMAIN sessions[i].saved = sessions[i].cards
      /\ sessions[i].saved[c] = 0 /\ c \notin sessions[i].lost
  BY ClaimHeld
<1>2. sessions' = [sessions EXCEPT ![i] = new]
  BY DEF Release
<1>3. DOMAIN rated = (DOMAIN sessions[i].rated) \ {c}
  OBVIOUS
<1> HIDE DEF rated
<1>4. /\ DOMAIN new = SessionFields /\ new.cards = sessions[i].cards /\ new.saved = sessions[i].saved
      /\ new.lost = sessions[i].lost /\ new.rated = rated
  BY <1>1 DEF SessionFields
<1>5. /\ DOMAIN new = SessionFields /\ new.cards = sessions[i].cards /\ DOMAIN new.saved = sessions[i].cards
      /\ new.saved[c] \in {0, 1} /\ \A d \in sessions[i].cards \ {c} : new.saved[d] = sessions[i].saved[d]
      /\ \A d : d # c => (d \in DOMAIN new.rated <=> d \in DOMAIN sessions[i].rated)
                          /\ (d \in new.lost <=> d \in sessions[i].lost)
      /\ c \in DOMAIN new.rated <=> new.saved[c] = 1 \/ c \in new.lost
  BY <1>1, <1>3, <1>4
<1> HIDE DEF new
<1> QED BY <1>2, <1>5, ClaimDone

\* A save of the card, or a claim nobody will give back.
LEMMA ClaimSettled ==
    ASSUME ClaimInv, DOMAIN at = Slots, DOMAIN arg = Slots, NEW s \in Slots, at[s] \in RateSteps,
           Moved(s, "idle", Nothing), DOMAIN cards = DOMAIN cards',
           Saved(s) \/ sessions' = [sessions EXCEPT ![arg[s].session].lost = @ \cup {arg[s].card}]
    PROVE  ClaimInv'
<1> PICK i : i = arg[s].session
  OBVIOUS
<1> PICK c : c = arg[s].card
  OBVIOUS
<1>1. /\ i \in DOMAIN sessions /\ c \in sessions[i].cards /\ DOMAIN sessions[i] = SessionFields
      /\ DOMAIN sessions[i].saved = sessions[i].cards
      /\ c \in DOMAIN sessions[i].rated /\ sessions[i].saved[c] = 0 /\ c \notin sessions[i].lost
  BY ClaimHeld
<1>2. CASE Saved(s)
  <2> DEFINE saved == [sessions[i].saved EXCEPT ![c] = @ + 1]
             new == [sessions[i] EXCEPT !.saved = saved]
  <2>1. sessions' = [sessions EXCEPT ![i] = new]
    BY <1>2 DEF Saved
  <2>2. /\ DOMAIN saved = sessions[i].cards /\ saved[c] = 1
        /\ \A d \in sessions[i].cards \ {c} : saved[d] = sessions[i].saved[d]
    BY <1>1
  <2> HIDE DEF saved
  <2>3. /\ DOMAIN new = SessionFields /\ new.cards = sessions[i].cards /\ new.saved = saved
        /\ new.lost = sessions[i].lost /\ new.rated = sessions[i].rated
    BY <1>1 DEF SessionFields
  <2> HIDE DEF new
  <2>4. /\ DOMAIN new = SessionFields /\ new.cards = sessions[i].cards /\ DOMAIN new.saved = sessions[i].cards
        /\ new.saved[c] \in {0, 1} /\ \A d \in sessions[i].cards \ {c} : new.saved[d] = sessions[i].saved[d]
        /\ \A d : d # c => (d \in DOMAIN new.rated <=> d \in DOMAIN sessions[i].rated)
                            /\ (d \in new.lost <=> d \in sessions[i].lost)
        /\ c \in DOMAIN new.rated <=> new.saved[c] = 1 \/ c \in new.lost
    BY <1>1, <2>2, <2>3
  <2> QED BY <2>1, <2>4, ClaimDone
<1>3. CASE sessions' = [sessions EXCEPT ![i].lost = @ \cup {c}]
  <2> DEFINE new == [sessions[i] EXCEPT !.lost = @ \cup {c}]
  <2>1. sessions' = [sessions EXCEPT ![i] = new]
    BY <1>3
  <2>2. /\ DOMAIN new = SessionFields /\ new.cards = sessions[i].cards /\ new.saved = sessions[i].saved
        /\ new.lost = sessions[i].lost \cup {c} /\ new.rated = sessions[i].rated
    BY <1>1 DEF SessionFields
  <2> HIDE DEF new
  <2>3. /\ DOMAIN new = SessionFields /\ new.cards = sessions[i].cards /\ DOMAIN new.saved = sessions[i].cards
        /\ new.saved[c] \in {0, 1} /\ \A d \in sessions[i].cards \ {c} : new.saved[d] = sessions[i].saved[d]
        /\ \A d : d # c => (d \in DOMAIN new.rated <=> d \in DOMAIN sessions[i].rated)
                            /\ (d \in new.lost <=> d \in sessions[i].lost)
        /\ c \in DOMAIN new.rated <=> new.saved[c] = 1 \/ c \in new.lost
    BY <1>1, <2>2
  <2> QED BY <2>1, <2>3, ClaimDone
<1> QED BY <1>2, <1>3

\* The claim is taken before the first await, so that nobody else takes it.
LEMMA ClaimRate ==
    ASSUME ClaimInv, DOMAIN at = Slots, DOMAIN arg = Slots, NEW s \in Slots, Rate(s)
    PROVE  ClaimInv'
<1>1. PICK i \in DOMAIN sessions, correct \in BOOLEAN : \E c \in sessions[i].cards \ DOMAIN sessions[i].rated :
        /\ Begin(s, "rate", "card", [op |-> "rate", session |-> i, card |-> c, correct |-> correct])
        /\ ClaimRating(i, c, correct) /\ UNCHANGED cards
  BY DEF Rate
<1>2. PICK c \in sessions[i].cards \ DOMAIN sessions[i].rated :
        /\ Begin(s, "rate", "card", [op |-> "rate", session |-> i, card |-> c, correct |-> correct])
        /\ ClaimRating(i, c, correct) /\ UNCHANGED cards
  BY <1>1
<1> DEFINE a == [op |-> "rate", session |-> i, card |-> c, correct |-> correct]
           rated == [d \in (DOMAIN sessions[i].rated) \cup {c} |->
                       IF d = c THEN correct ELSE sessions[i].rated[d]]
           new == [sessions[i] EXCEPT !.rated = rated]
<1>3. Moved(s, "card", a) /\ at[s] = "idle" /\ a.session = i /\ a.card = c
  BY <1>2, HandlersMove
<1>4. sessions' = [sessions EXCEPT ![i] = new]
  BY <1>2 DEF ClaimRating
<1>5. DOMAIN rated = (DOMAIN sessions[i].rated) \cup {c} /\ DOMAIN sessions[i] = SessionFields
  BY DEF ClaimInv, SessionTypes
<1> HIDE DEF rated, a
<1>6. /\ DOMAIN new = SessionFields /\ new.cards = sessions[i].cards /\ new.saved = sessions[i].saved
      /\ new.lost = sessions[i].lost /\ new.rated = rated
  BY <1>5 DEF SessionFields
<1>7. at[s] \notin RateSteps
  BY <1>3 DEF RateSteps, RowSteps
<1> HIDE DEF new
<1>8. /\ UNCHANGED cards /\ c \in sessions[i].cards /\ c \notin DOMAIN sessions[i].rated
      /\ DOMAIN new.rated = DOMAIN sessions[i].rated \cup {c}
  BY <1>2, <1>5, <1>6
<1> QED BY <1>3, <1>4, <1>6, <1>7, <1>8, ClaimTaken

\* A rating goes on with its claim.
LEMMA ClaimCarried ==
    ASSUME ClaimInv, DOMAIN at = Slots, DOMAIN arg = Slots, NEW s \in Slots, at[s] \in RateSteps,
           NEW step \in RateSteps, NEW a, Moved(s, step, a), a.session = arg[s].session, a.card = arg[s].card,
           UNCHANGED <<sessions, cards>>
    PROVE  ClaimInv'
<1>1. SameHands
  BY MovesOne DEF SameHands
<1>2. IsSequence(sessions') /\ \A i \in DOMAIN sessions : SameClaims(i)
  BY DEF ClaimInv, SessionTypes, SameClaims
<1> QED BY <1>1, <1>2, ClaimsAlike

\* Ratings at work that no handler touches are at work on the same cards.
LEMMA HandsAside ==
    ASSUME Aside(RateSteps)
    PROVE  SameHands
  BY DEF Aside, SameHands

\* A step that leaves the ratings at work, and what sessions say of them.
LEMMA ClaimsElsewhere ==
    ASSUME ClaimInv, SameHands, DOMAIN cards \subseteq DOMAIN cards', UNCHANGED sessions
    PROVE  ClaimInv'
<1>1. IsSequence(sessions') /\ \A i \in DOMAIN sessions : SameClaims(i)
  BY DEF ClaimInv, SessionTypes, SameClaims
<1> QED BY <1>1, ClaimsAlike

\* A session ages or is deleted.
LEMMA ClaimsMarked ==
    ASSUME ClaimInv, SameHands, UNCHANGED cards, NEW i, NEW new,
           sessions' = [sessions EXCEPT ![i] = new],
           new = [sessions[i] EXCEPT !.live = FALSE] \/ new = [sessions[i] EXCEPT !.old = TRUE]
    PROVE  ClaimInv'
<1>1. CASE i \notin DOMAIN sessions
  <2>1. sessions = [j \in DOMAIN sessions |-> sessions[j]]
    <3>1. IsSequence(sessions)
      BY DEF ClaimInv, SessionTypes
    <3> QED BY <3>1, SequenceKept DEF IsSequence
  <2>2. sessions' = [j \in DOMAIN sessions |-> sessions[j]]
    BY <1>1
  <2> QED BY <2>1, <2>2, ClaimsElsewhere
<1>2. CASE i \in DOMAIN sessions
  <2>1. /\ IsSequence(sessions) /\ DOMAIN sessions[i] = SessionFields
        /\ \A j \in DOMAIN sessions : DOMAIN sessions[j] = SessionFields
    BY <1>2 DEF ClaimInv, SessionTypes
  <2>2. /\ DOMAIN new = SessionFields /\ new.cards = sessions[i].cards /\ new.saved = sessions[i].saved
        /\ new.rated = sessions[i].rated /\ new.lost = sessions[i].lost
    BY <2>1 DEF SessionFields
  <2>3. IsSequence(sessions') /\ DOMAIN sessions' = DOMAIN sessions
    BY <1>2, <2>1, SequenceKept
  <2>4. \A j \in DOMAIN sessions : SameClaims(j)
    BY <1>2, <2>1, <2>2 DEF SameClaims
  <2> QED BY <2>3, <2>4, ClaimsAlike
<1> QED BY <1>1, <1>2

\* Every session swept of those that are old.
LEMMA ClaimsSwept ==
    ASSUME ClaimInv, Sweep
    PROVE  ClaimInv'
<1>1. /\ sessions' = [i \in DOMAIN sessions |-> [sessions[i] EXCEPT !.live = @ /\ ~sessions[i].old]]
      /\ UNCHANGED <<at, arg, cards>>
  BY DEF Sweep, handlerVars
<1>2. /\ IsSequence(sessions) /\ \A i \in DOMAIN sessions : DOMAIN sessions[i] = SessionFields
  BY DEF ClaimInv, SessionTypes
<1>3. SameHands
  BY <1>1 DEF SameHands
<1>4. IsSequence(sessions')
  <2>1. Len(sessions) \in Nat /\ DOMAIN sessions = 1 .. Len(sessions)
    BY <1>2, SequenceKept DEF IsSequence
  <2> DEFINE S == {[sessions[i] EXCEPT !.live = @ /\ ~sessions[i].old] : i \in DOMAIN sessions}
  <2>2. sessions' \in [1 .. Len(sessions) -> S]
    BY <1>1, <2>1
  <2> HIDE DEF S
  <2>3. sessions' \in Seq(S)
    BY <2>1, <2>2
  <2> QED BY <2>3 DEF IsSequence
<1>5. ASSUME NEW i \in DOMAIN sessions PROVE SameClaims(i)
  <2>1. sessions'[i] = [sessions[i] EXCEPT !.live = @ /\ ~sessions[i].old]
    BY <1>1
  <2> QED BY <1>2, <2>1 DEF SameClaims, SessionFields
<1> QED BY <1>1, <1>3, <1>4, <1>5, ClaimsAlike

\* A review begins: a session of the cards that are due, none of them rated.
LEMMA ClaimsStarted ==
    ASSUME ClaimInv, StartReview
    PROVE  ClaimInv'
<1>1. sessions' = Append(sessions, Session(Due)) /\ UNCHANGED <<at, arg, cards>>
  BY DEF StartReview, Instant
<1> DEFINE new == Session(Due)
<1>2. /\ DOMAIN new = SessionFields /\ new.cards \subseteq DOMAIN cards
      /\ DOMAIN new.saved = new.cards /\ \A c \in new.cards : new.saved[c] = 0
      /\ DOMAIN new.rated = {} /\ new.lost = {}
  BY DEF Session, SessionFields, Due
<1> HIDE DEF new
<1>3. sessions' = Append(sessions, new) /\ IsSequence(sessions)
  BY <1>1 DEF new, ClaimInv, SessionTypes
<1>4. /\ IsSequence(sessions') /\ DOMAIN sessions' = 1 .. Len(sessions) + 1 /\ DOMAIN sessions = 1 .. Len(sessions)
      /\ \A i \in DOMAIN sessions : sessions'[i] = sessions[i]
      /\ sessions'[Len(sessions) + 1] = new /\ Len(sessions) \in Nat
  BY <1>3, SequenceKept DEF IsSequence
<1>5. /\ DOMAIN sessions \subseteq DOMAIN sessions'
      /\ \A i \in (DOMAIN sessions') \ DOMAIN sessions : sessions'[i] = new
  BY <1>4
<1>6. \A i \in DOMAIN sessions : SameClaims(i)
  BY <1>4 DEF SameClaims, ClaimInv, SessionTypes
<1>7. \A i \in (DOMAIN sessions') \ DOMAIN sessions : Unrated(i)'
  BY <1>1, <1>2, <1>5 DEF Unrated
<1>8. SameHands
  BY <1>1 DEF SameHands
<1> QED BY <1>1, <1>4, <1>5, <1>6, <1>7, <1>8, ClaimsAlike

\* Every step of the reviews keeps the claims.
LEMMA ClaimStep ==
    ASSUME ReviewInv, RowInv', DOMAIN at = Slots, DOMAIN arg = Slots,
           \/ \E s \in Slots : ReviewStep(s)
           \/ TranslateWord \/ RemoveWord \/ TouchReviewed \/ FallDue \/ StartReview \/ Age \/ Sweep
    PROVE  ClaimInv'
<1>1. ClaimInv /\ RowInv
  BY DEF ReviewInv
<1>2. "idle" \notin RateSteps
  BY DEF RateSteps, RowSteps
<1>3. ASSUME NEW s \in Slots, ReviewStep(s) PROVE ClaimInv'
  <2>1. CASE Rate(s)
    BY <1>1, <2>1, ClaimRate
  <2>2. CASE FindCard(s)
    <3>1. at[s] \in RateSteps /\ UNCHANGED cards
      BY <2>2 DEF FindCard, RateSteps
    <3>2. CASE Release(arg[s].session, arg[s].card) /\ End(s)
      BY <1>1, <3>1, <3>2, HandlersMove, ClaimReleased
    <3>3. CASE ~(Release(arg[s].session, arg[s].card) /\ End(s))
      <4> DEFINE a == [op |-> "rate", session |-> arg[s].session, card |-> arg[s].card, correct |-> arg[s].correct,
                       was |-> cards[arg[s].card], row |-> Leitner(cards[arg[s].card], arg[s].correct)]
      <4>1. Go(s, "select card", a) /\ UNCHANGED sessions
        BY <2>2, <3>3 DEF FindCard
      <4>2. a.session = arg[s].session /\ a.card = arg[s].card /\ "select card" \in RateSteps
        BY DEF RateSteps, RowSteps
      <4>3. Moved(s, "select card", a)
        BY <4>1, HandlersMove
      <4> HIDE DEF a
      <4> QED BY <1>1, <3>1, <4>1, <4>2, <4>3, ClaimCarried
    <3> QED BY <3>2, <3>3
  <2>3. CASE SelectCard(s)
    <3> DEFINE a == [arg[s] EXCEPT !.was = cards[arg[s].card]]
    <3>1. at[s] = "select card" /\ UNCHANGED <<sessions, cards>> /\ Go(s, "write card", a)
      BY <2>3 DEF SelectCard, reviewVars
    <3>2. DOMAIN arg[s] = {"op", "session", "card", "correct", "was", "row"}
      BY <1>1, <3>1 DEF RowInv, HoldsRow, RowSteps
    <3>3. a.session = arg[s].session /\ a.card = arg[s].card
      BY <3>2
    <3>4. Moved(s, "write card", a)
      BY <3>1, HandlersMove
    <3> HIDE DEF a
    <3>5. at[s] \in RateSteps /\ "write card" \in RateSteps
      BY <3>1 DEF RateSteps, RowSteps
    <3> QED BY <1>1, <3>1, <3>3, <3>4, <3>5, ClaimCarried
  <2>4. CASE WriteCard(s) \/ RatingFails(s)
    <3>1. at[s] \in RateSteps /\ Moved(s, "idle", Nothing)
      BY <2>4, HandlersMove DEF WriteCard, RatingFails, RateSteps, RowSteps
    <3>2. DOMAIN cards = DOMAIN cards'
      BY <2>4 DEF WriteCard, RatingFails
    <3>3. \/ Release(arg[s].session, arg[s].card)
          \/ Saved(s)
          \/ sessions' = [sessions EXCEPT ![arg[s].session].lost = @ \cup {arg[s].card}]
      BY <2>4 DEF WriteCard, RatingFails
    <3> QED BY <1>1, <3>1, <3>2, <3>3, ClaimReleased, ClaimSettled
  <2>5. CASE \/ CompleteReview(s) \/ CloseReview(s)
             \/ Sentence(s) \/ AskSentence(s) \/ SelectMessage(s) \/ WriteMessage(s) \/ SentenceFails(s)
    <3> DEFINE own == {"boxes"} \cup Translating
    <3>1. MovesIn(s, own)
      <4> USE HandlersMove DEF MovesIn, Translating
      <4>1. CASE CompleteReview(s) \/ CloseReview(s)
        BY <4>1 DEF CompleteReview, CloseReview
      <4>2. CASE Sentence(s)
        BY <4>2 DEF Sentence
      <4>3. CASE AskSentence(s) \/ SelectMessage(s)
        BY <4>3 DEF AskSentence, SelectMessage
      <4>4. CASE WriteMessage(s) \/ SentenceFails(s)
        BY <4>4 DEF WriteMessage, SentenceFails
      <4> QED BY <2>5, <4>1, <4>2, <4>3, <4>4
    <3>2. RateSteps \cap own = {}
      BY DEF RateSteps, RowSteps, Translating
    <3> HIDE DEF own
    <3>3. SameHands
      BY <1>2, <3>1, <3>2, MovesAside, HandsAside
    <3>4. CASE CloseReview(s)
      <4> PICK i : i = arg[s].session
        OBVIOUS
      <4> PICK new : new = [sessions[i] EXCEPT !.live = FALSE]
        OBVIOUS
      <4>1. sessions' = [sessions EXCEPT ![i] = new] /\ UNCHANGED cards
        BY <3>4 DEF CloseReview
      <4> QED BY <1>1, <3>3, <4>1, ClaimsMarked
    <3>5. CASE ~CloseReview(s)
      <4>1. UNCHANGED <<sessions, cards>>
        BY <2>5, <3>5 DEF CompleteReview, Sentence, AskSentence, SelectMessage, WriteMessage, SentenceFails,
                          reviewVars
      <4> QED BY <1>1, <3>3, <4>1, ClaimsElsewhere
    <3> QED BY <3>4, <3>5
  <2> QED BY <1>3, <2>1, <2>2, <2>3, <2>4, <2>5 DEF ReviewStep
<1>4. CASE TranslateWord \/ RemoveWord \/ TouchReviewed \/ FallDue
  <2>1. UNCHANGED <<at, arg, sessions>>
    BY <1>4 DEF TranslateWord, RemoveWord, TouchReviewed, FallDue, Instant
  <2>2. cards \in Seq(CardRow)
    BY <1>1 DEF RowInv
  <2>3. DOMAIN cards \subseteq DOMAIN cards'
    <3>1. CASE TranslateWord
      <4>1. cards' = cards \/ \E w \in Words : cards' = Append(cards, Card(w))
        BY <3>1 DEF TranslateWord
      <4> QED BY <2>2, <4>1, CardCounts
    <3>2. CASE RemoveWord \/ TouchReviewed \/ FallDue
      BY <3>2 DEF RemoveWord, TouchReviewed, FallDue
    <3> QED BY <1>4, <3>1, <3>2
  <2>4. SameHands
    BY <2>1 DEF SameHands
  <2> QED BY <1>1, <2>1, <2>3, <2>4, ClaimsElsewhere
<1>5. CASE Age
  <2>1. PICK i \in DOMAIN sessions : sessions' = [sessions EXCEPT ![i].old = TRUE] /\ UNCHANGED <<at, arg, cards>>
    BY <1>5 DEF Age, Instant
  <2> PICK new : new = [sessions[i] EXCEPT !.old = TRUE]
    OBVIOUS
  <2>2. sessions' = [sessions EXCEPT ![i] = new]
    BY <2>1
  <2>3. SameHands
    BY <2>1 DEF SameHands
  <2> QED BY <1>1, <2>1, <2>2, <2>3, ClaimsMarked
<1> QED BY <1>1, <1>3, <1>4, <1>5, ClaimsStarted, ClaimsSwept

-----------------------------------------------------------------------------
(* The sentence on a message. *)

\* Translations end, one or all, or nothing of them moves.
LEMMA SentenceAlike ==
    ASSUME SentenceInv, UNCHANGED <<message, crowd>>,
           \A s \in Slots : at'[s] \in Translating => at'[s] = at[s] /\ arg'[s] = arg[s]
    PROVE  SentenceInv'
<1>1. /\ AtSentence' \subseteq AtSentence
      /\ \A s \in AtSentence' : at'[s] = at[s] /\ arg'[s] = arg[s] /\ s \in Slots
  BY DEF AtSentence
<1>2. SentenceTypes'
  <2>1. \A s \in Slots : HoldsSentence(s)'
    BY DEF SentenceInv, SentenceTypes, HoldsSentence, Translating
  <2> QED BY <2>1 DEF SentenceInv, SentenceTypes
<1>3. ASSUME NEW s \in AtSentence', crowd < 3
      PROVE  Writable(s)' /\ ((crowd = 1 \/ AtSentence' # {s}) => Elsewhere(s)')
  <2>1. Writable(s) /\ ((crowd = 1 \/ AtSentence # {s}) => Elsewhere(s))
    BY <1>1, <1>3 DEF SentenceInv
  <2>2. AtSentence' # {s} => AtSentence # {s}
    BY <1>1, <1>3
  <2>3. (Writable(s)' <=> Writable(s)) /\ (Elsewhere(s)' <=> Elsewhere(s))
    BY <1>1, <1>3 DEF Writable, Elsewhere
  <2> QED BY <2>1, <2>2, <2>3
<1>4. crowd < 3 => /\ Agrees(message)
                   /\ crowd = 0 => AtSentence' = {}
                   /\ crowd = 1 => \A r, s \in AtSentence' : r = s
                   /\ crowd = 2 => \A q, r, s \in AtSentence' : q = r \/ r = s \/ q = s
  BY <1>1 DEF SentenceInv
<1>5. Agrees(message') <=> Agrees(message)
  BY DEF Agrees
<1> QED BY <1>2, <1>3, <1>4, <1>5 DEF SentenceInv

\* A translation goes on, and nothing is written.
LEMMA SentenceGoesOn ==
    ASSUME SentenceInv, DOMAIN at = Slots, DOMAIN arg = Slots, NEW s \in Slots, NEW step, NEW a,
           Moved(s, step, a), at[s] \in Translating, step \in {"select message", "write message"},
           UNCHANGED <<message, crowd>>, DOMAIN a = {"op", "new", "was"}, Agrees(a.new), a.new # Blank,
           step = "write message" => a.was = message, Elsewhere(s) => message.lang # a.new.lang
    PROVE  SentenceInv'
<1>1. /\ at'[s] = step /\ arg'[s] = a
      /\ \A r \in Slots \ {s} : at'[r] = at[r] /\ arg'[r] = arg[r]
  BY MovesOne, ZenonT(30)
<1>2. step \in Translating /\ step # "ask sentence"
  BY DEF Translating
<1>3. AtSentence' = AtSentence
  BY <1>1, <1>2 DEF AtSentence
<1>4. SentenceTypes'
  <2>1. HoldsSentence(s)'
    BY <1>1, <1>2 DEF HoldsSentence
  <2>2. \A r \in Slots \ {s} : HoldsSentence(r)'
    BY <1>1 DEF SentenceInv, SentenceTypes, HoldsSentence
  <2> QED BY <2>1, <2>2 DEF SentenceInv, SentenceTypes
<1>5. ASSUME NEW r \in AtSentence, crowd < 3
      PROVE  Writable(r)' /\ ((crowd = 1 \/ AtSentence # {r}) => Elsewhere(r)')
  <2>1. Writable(r) /\ ((crowd = 1 \/ AtSentence # {r}) => Elsewhere(r)) /\ r \in Slots
    BY <1>5 DEF SentenceInv, AtSentence
  <2>2. CASE r = s
    BY <1>1, <1>2, <2>1, <2>2 DEF Writable, Elsewhere
  <2>3. CASE r # s
    BY <1>1, <2>1, <2>3 DEF Writable, Elsewhere
  <2> QED BY <2>2, <2>3
<1>6. Agrees(message') <=> Agrees(message)
  BY DEF Agrees
<1> QED BY <1>3, <1>4, <1>5, <1>6 DEF SentenceInv

\* A translation begins: beside nobody, or beside one that has not written yet.
LEMMA SentenceBegins ==
    ASSUME SentenceInv, DOMAIN at = Slots, DOMAIN arg = Slots, NEW s \in Slots, Sentence(s)
    PROVE  SentenceInv'
<1>1. PICK l \in Tongues :
        /\ message.lang # <<l>> /\ Begin(s, "translate sentence", "ask sentence", [op |-> "sentence", lang |-> l])
        /\ crowd' = IF crowd = 3 THEN 3 ELSE IF \A r \in Slots : at[r] \notin Translating THEN 1 ELSE crowd + 1
        /\ UNCHANGED message
  BY DEF Sentence
<1> DEFINE a == [op |-> "sentence", lang |-> l]
<1>2. Moved(s, "ask sentence", a) /\ at[s] = "idle" /\ a.lang = l
  BY <1>1, HandlersMove
<1> HIDE DEF a
<1>3. /\ at'[s] = "ask sentence" /\ arg'[s] = a
      /\ \A r \in Slots \ {s} : at'[r] = at[r] /\ arg'[r] = arg[r]
  BY <1>2, MovesOne
<1>4. AtSentence' = AtSentence \cup {s} /\ s \notin AtSentence
  BY <1>2, <1>3 DEF AtSentence, Translating
<1>5. crowd \in 0 .. 3 /\ DOMAIN message = {"text", "lang"}
  BY DEF SentenceInv, SentenceTypes
<1>6. crowd' = IF crowd = 3 THEN 3 ELSE IF AtSentence = {} THEN 1 ELSE crowd + 1
  BY <1>1 DEF AtSentence
<1>7. SentenceTypes'
  <2>1. crowd' \in 0 .. 3
    BY <1>5, <1>6
  <2>2. DOMAIN message' = {"text", "lang"}
    BY <1>1, <1>5
  <2>3. HoldsSentence(s)'
    BY <1>2, <1>3 DEF HoldsSentence
  <2>4. \A r \in Slots \ {s} : HoldsSentence(r)'
    BY <1>3 DEF SentenceInv, SentenceTypes, HoldsSentence
  <2> QED BY <2>1, <2>2, <2>3, <2>4 DEF SentenceTypes
<1>8. Writable(s)' /\ Elsewhere(s)'
  BY <1>1, <1>2, <1>3 DEF Writable, Elsewhere
<1>9. ASSUME crowd' < 3
      PROVE  /\ Agrees(message)
             /\ crowd' \in {1, 2} /\ (crowd' = 1 => AtSentence' = {s})
             /\ \A q, r, t \in AtSentence' : q = r \/ r = t \/ q = t
             /\ \A r \in AtSentence' : Writable(r)' /\ Elsewhere(r)'
  <2>1. crowd < 3 /\ Agrees(message)
    BY <1>5, <1>6, <1>9 DEF SentenceInv
  <2>2. CASE AtSentence = {}
    BY <1>4, <1>5, <1>6, <1>8, <2>1, <2>2
  <2>3. CASE AtSentence # {}
    <3>1. crowd = 1 /\ crowd' = 2
      <4>1. crowd' = crowd + 1
        BY <1>6, <2>1, <2>3
      <4>2. crowd # 0
        BY <2>1, <2>3 DEF SentenceInv
      <4> QED BY <1>5, <1>9, <4>1, <4>2
    <3>2. \A r, t \in AtSentence : r = t
      BY <3>1 DEF SentenceInv
    <3>3. ASSUME NEW r \in AtSentence PROVE Writable(r)' /\ Elsewhere(r)'
      <4>1. Writable(r) /\ Elsewhere(r)
        BY <2>1, <3>1, <3>3 DEF SentenceInv
      <4>2. at'[r] = at[r] /\ arg'[r] = arg[r]
        BY <1>3, <1>4, <3>3 DEF AtSentence
      <4> QED BY <1>1, <4>1, <4>2 DEF Writable, Elsewhere
    <3> QED BY <1>4, <1>8, <2>1, <3>1, <3>2, <3>3
  <2> QED BY <2>2, <2>3
<1>10. Agrees(message') <=> Agrees(message)
  BY <1>1 DEF Agrees
<1>11. ASSUME crowd' < 3
       PROVE  /\ crowd' = 0 => AtSentence' = {}
              /\ crowd' = 1 => \A r, t \in AtSentence' : r = t
  BY <1>9, <1>11
<1> QED BY <1>7, <1>9, <1>10, <1>11 DEF SentenceInv

\* The columns that differ from what was read are written: all of the translation,
\* since either nobody has written in between, or nothing of it was there.
LEMMA SentenceWritten ==
    ASSUME SentenceInv, DOMAIN at = Slots, DOMAIN arg = Slots, NEW s \in Slots, WriteMessage(s)
    PROVE  SentenceInv'
<1> PICK new : new = arg[s].new
  OBVIOUS
<1> PICK was : was = arg[s].was
  OBVIOUS
<1>1. /\ at[s] = "write message" /\ Moved(s, "idle", Nothing) /\ UNCHANGED crowd
      /\ message' = [f \in DOMAIN message |-> IF was[f] = new[f] THEN message[f] ELSE new[f]]
  BY HandlersMove DEF WriteMessage
<1>2. /\ at'[s] = "idle"
      /\ \A r \in Slots \ {s} : at'[r] = at[r] /\ arg'[r] = arg[r]
  BY <1>1, MovesOne
<1>3. AtSentence' = AtSentence \ {s} /\ s \in AtSentence
  BY <1>1, <1>2 DEF AtSentence, Translating
<1>4. DOMAIN message = {"text", "lang"} /\ Agrees(new) /\ new # Blank
  <2>1. HoldsSentence(s) /\ DOMAIN message = {"text", "lang"}
    BY DEF SentenceInv, SentenceTypes
  <2> QED BY <1>1, <2>1 DEF HoldsSentence
<1>5. PICK l \in Tongues, v \in 1 .. 2 : new = [text |-> <<l, v>>, lang |-> <<l>>]
  BY <1>4 DEF Agrees
<1>6. SentenceTypes'
  <2>1. crowd' \in 0 .. 3 /\ DOMAIN message' = {"text", "lang"}
    BY <1>1 DEF SentenceInv, SentenceTypes
  <2>2. HoldsSentence(s)'
    BY <1>2 DEF HoldsSentence
  <2>3. \A r \in Slots \ {s} : HoldsSentence(r)'
    BY <1>2 DEF SentenceInv, SentenceTypes, HoldsSentence
  <2> QED BY <2>1, <2>2, <2>3 DEF SentenceTypes
<1>7. ASSUME crowd < 3 PROVE message' = new
  <2>1. was = message \/ Apart(was, new)
    BY <1>1, <1>3, <1>7 DEF SentenceInv, Writable
  <2>2. message'.text = new.text /\ message'.lang = new.lang
    BY <1>1, <1>4, <2>1 DEF Apart
  <2>3. message' = [text |-> message'.text, lang |-> message'.lang]
    BY <1>1, <1>4
  <2> QED BY <1>5, <2>2, <2>3
<1>8. ASSUME crowd < 3, NEW t \in AtSentence', t # s PROVE Writable(t)' /\ AtSentence' = {t} /\ crowd = 2
  <2>1. t \in AtSentence /\ AtSentence # {t} /\ at'[t] = at[t] /\ arg'[t] = arg[t]
    BY <1>2, <1>3, <1>8 DEF AtSentence
  <2>2. Elsewhere(t) /\ Agrees(message)
    BY <1>8, <2>1 DEF SentenceInv
  <2>3. crowd = 2
    <3>1. crowd \in 0 .. 3
      BY DEF SentenceInv, SentenceTypes
    <3> QED BY <1>3, <1>8, <2>1, <3>1 DEF SentenceInv
  <2>4. AtSentence' = {t}
    BY <1>3, <1>8, <2>1, <2>3 DEF SentenceInv
  <2>5. ASSUME at[t] = "write message" PROVE Apart(arg[t].was, arg[t].new)
    <3>1. /\ arg[t].was = message /\ message.lang # arg[t].new.lang
          /\ Agrees(arg[t].new) /\ arg[t].new # Blank
      <4>1. HoldsSentence(t)
        BY <2>1 DEF SentenceInv, SentenceTypes, AtSentence
      <4> QED BY <2>2, <2>5, <4>1 DEF Elsewhere, HoldsSentence
    <3>2. PICK k \in Tongues, w \in 1 .. 2 : arg[t].new = [text |-> <<k, w>>, lang |-> <<k>>]
      BY <3>1 DEF Agrees
    <3>3. CASE message = Blank
      BY <3>1, <3>2, <3>3 DEF Apart, Blank
    <3>4. CASE message # Blank
      <4>1. PICK j \in Tongues, u \in 1 .. 2 : message = [text |-> <<j, u>>, lang |-> <<j>>]
        BY <2>2, <3>4 DEF Agrees
      <4>2. j # k
        BY <3>1, <3>2, <4>1
      <4> QED BY <3>1, <3>2, <4>1, <4>2 DEF Apart
    <3> QED BY <3>3, <3>4
  <2>6. Writable(t)'
    BY <2>1, <2>5 DEF Writable, Apart
  <2> QED BY <2>3, <2>4, <2>6
<1>9. ASSUME crowd < 3 PROVE Agrees(message')
  BY <1>4, <1>7, <1>9 DEF Agrees
<1>10. ASSUME crowd < 3
       PROVE  /\ crowd = 0 => AtSentence' = {}
              /\ crowd = 1 => \A r, t \in AtSentence' : r = t
              /\ crowd = 2 => \A q, r, t \in AtSentence' : q = r \/ r = t \/ q = t
  BY <1>3, <1>10 DEF SentenceInv
<1>11. ASSUME crowd < 3, NEW t \in AtSentence'
       PROVE  Writable(t)' /\ ((crowd = 1 \/ AtSentence' # {t}) => Elsewhere(t)')
  <2>1. t # s
    BY <1>3, <1>11
  <2> QED BY <1>8, <1>11, <2>1
<1> QED BY <1>1, <1>6, <1>9, <1>10, <1>11 DEF SentenceInv

\* Every step of the reviews keeps the sentence.
LEMMA SentenceStep ==
    ASSUME SentenceInv, DOMAIN at = Slots, DOMAIN arg = Slots,
           \/ \E s \in Slots : ReviewStep(s)
           \/ TranslateWord \/ RemoveWord \/ TouchReviewed \/ FallDue \/ StartReview \/ Age \/ Sweep
    PROVE  SentenceInv'
<1>1. ASSUME NEW s \in Slots, ReviewStep(s) PROVE SentenceInv'
  <2>1. CASE Sentence(s)
    BY <2>1, SentenceBegins
  <2>2. CASE AskSentence(s)
    <3>1. PICK v \in 1 .. 2 :
            Go(s, "select message", [op |-> "sentence", new |-> [text |-> <<arg[s].lang, v>>, lang |-> <<arg[s].lang>>],
                                     was |-> Blank])
      BY <2>2 DEF AskSentence
    <3> PICK l : l = arg[s].lang
      OBVIOUS
    <3> DEFINE new == [text |-> <<l, v>>, lang |-> <<l>>]
               a == [op |-> "sentence", new |-> new, was |-> Blank]
    <3>2. at[s] = "ask sentence" /\ UNCHANGED <<message, crowd>>
      BY <2>2 DEF AskSentence, reviewVars
    <3>3. Moved(s, "select message", a)
      BY <3>1, HandlersMove
    <3>4. l \in Tongues
      BY <3>2 DEF SentenceInv, SentenceTypes, HoldsSentence
    <3>5. Agrees(new) /\ new # Blank /\ new.lang = <<l>>
      BY <3>4 DEF Agrees, Blank
    <3> HIDE DEF new
    <3>6. DOMAIN a = {"op", "new", "was"} /\ a.new = new
      OBVIOUS
    <3> HIDE DEF a
    <3>7. Elsewhere(s) => message.lang # a.new.lang
      BY <3>2, <3>5, <3>6 DEF Elsewhere
    <3>8. at[s] \in Translating
      BY <3>2 DEF Translating
    <3>9. Agrees(a.new) /\ a.new # Blank
      BY <3>5, <3>6
    <3> QED BY <3>2, <3>3, <3>6, <3>7, <3>8, <3>9, SentenceGoesOn
  <2>3. CASE SelectMessage(s)
    <3> DEFINE a == [arg[s] EXCEPT !.was = message]
    <3>1. at[s] = "select message" /\ UNCHANGED <<message, crowd>> /\ Go(s, "write message", a)
      BY <2>3 DEF SelectMessage, reviewVars
    <3>2. DOMAIN arg[s] = {"op", "new", "was"} /\ Agrees(arg[s].new) /\ arg[s].new # Blank
      BY <3>1 DEF SentenceInv, SentenceTypes, HoldsSentence
    <3>3. DOMAIN a = {"op", "new", "was"} /\ a.new = arg[s].new /\ a.was = message
      BY <3>2
    <3>4. Moved(s, "write message", a)
      BY <3>1, HandlersMove
    <3> HIDE DEF a
    <3>5. Elsewhere(s) => message.lang # a.new.lang
      BY <3>1, <3>3 DEF Elsewhere
    <3>6. at[s] \in Translating
      BY <3>1 DEF Translating
    <3>7. Agrees(a.new) /\ a.new # Blank
      BY <3>2, <3>3
    <3> QED BY <3>1, <3>3, <3>4, <3>5, <3>6, <3>7, SentenceGoesOn
  <2>4. CASE WriteMessage(s)
    BY <2>4, SentenceWritten
  <2>5. CASE SentenceFails(s)
    <3>1. Moved(s, "idle", Nothing) /\ UNCHANGED <<message, crowd>>
      BY <2>5, HandlersMove DEF SentenceFails, reviewVars
    <3>2. \A r \in Slots : at'[r] \in Translating => at'[r] = at[r] /\ arg'[r] = arg[r]
      BY <3>1, MovesOne DEF Translating
    <3> QED BY <3>1, <3>2, SentenceAlike
  <2>6. CASE \/ Rate(s) \/ FindCard(s) \/ SelectCard(s) \/ WriteCard(s) \/ RatingFails(s)
             \/ CompleteReview(s) \/ CloseReview(s)
    <3> DEFINE own == RateSteps \cup {"boxes"}
    <3>1. MovesIn(s, own)
      <4> USE HandlersMove DEF MovesIn, RateSteps, RowSteps
      <4>1. CASE Rate(s) \/ CompleteReview(s)
        BY <4>1 DEF Rate, CompleteReview
      <4>2. CASE FindCard(s)
        BY <4>2 DEF FindCard
      <4>3. CASE SelectCard(s)
        BY <4>3 DEF SelectCard
      <4>4. CASE WriteCard(s) \/ RatingFails(s) \/ CloseReview(s)
        BY <4>4 DEF WriteCard, RatingFails, CloseReview
      <4> QED BY <2>6, <4>1, <4>2, <4>3, <4>4
    <3>2. Translating \cap own = {} /\ "idle" \notin Translating
      BY DEF RateSteps, RowSteps, Translating
    <3> HIDE DEF own
    <3>3. Aside(Translating)
      BY <3>1, <3>2, MovesAside
    <3>4. UNCHANGED <<message, crowd>>
      BY <2>6 DEF Rate, FindCard, SelectCard, WriteCard, RatingFails, CompleteReview, CloseReview, reviewVars
    <3> QED BY <3>3, <3>4, SentenceAlike DEF Aside
  <2> QED BY <1>1, <2>1, <2>2, <2>3, <2>4, <2>5, <2>6 DEF ReviewStep
<1>2. CASE TranslateWord \/ RemoveWord \/ TouchReviewed \/ FallDue \/ StartReview \/ Age \/ Sweep
  <2>1. UNCHANGED <<at, arg, message, crowd>>
    BY <1>2 DEF TranslateWord, RemoveWord, TouchReviewed, FallDue, StartReview, Age, Sweep, Instant, handlerVars
  <2> QED BY <2>1, SentenceAlike
<1> QED BY <1>1, <1>2

\* The invariant is what it was for: a message that says its language says it truly.
LEMMA SentenceMeans ==
    ASSUME SentenceInv
    PROVE  SentenceMatches
<1> SUFFICES ASSUME message.lang # << >>, crowd < 3 PROVE message.text[1] = message.lang[1]
  BY DEF SentenceMatches
<1>1. Agrees(message) /\ message # Blank
  BY DEF SentenceInv, Blank
<1>2. PICK l \in Tongues, v \in 1 .. 2 : message = [text |-> <<l, v>>, lang |-> <<l>>]
  BY <1>1 DEF Agrees
<1> QED BY <1>2

-----------------------------------------------------------------------------
(* The reviews beside the rest. *)

\* The handlers of the others take a step.
LEMMA ReviewsUntouched ==
    ASSUME ReviewInv, SentenceInv, Aside(ReviewSteps), UNCHANGED reviewVars
    PROVE  ReviewInv' /\ SentenceInv'
<1> USE DEF reviewVars
<1>1. Aside(RowSteps) /\ Aside(RateSteps) /\ Aside(Translating)
  BY DEF Aside, ReviewSteps, RateSteps
<1>2. RowInv'
  BY <1>1, RowsElsewhere DEF ReviewInv
<1>3. ClaimInv'
  BY <1>1, HandsAside, ClaimsElsewhere DEF ReviewInv
<1>4. SentenceInv'
  BY <1>1, SentenceAlike DEF Aside
<1> QED BY <1>2, <1>3, <1>4 DEF ReviewInv

\* A restart loses every session, every rating and every translation at work.
LEMMA ReviewsLost ==
    ASSUME ReviewInv, SentenceInv, Restart, ReviewsRestart
    PROVE  ReviewInv' /\ SentenceInv'
<1>1. /\ \A s \in Slots : at'[s] = "idle"
      /\ UNCHANGED <<cards, disturbed, message, crowd>> /\ sessions' = << >>
  BY DEF Restart, ReviewsRestart
<1>2. RowInv'
  <2>1. \A s \in Slots : HoldsRow(s)'
    BY <1>1 DEF HoldsRow, RowSteps
  <2>2. CountsAddUp'
    BY <1>1 DEF ReviewInv, RowInv, CountsAddUp
  <2> QED BY <1>1, <2>1, <2>2 DEF ReviewInv, RowInv
<1>3. ClaimInv'
  <2>1. \A s \in Slots : HoldsClaim(s)'
    BY <1>1 DEF HoldsClaim, RateSteps, RowSteps
  <2>2. IsSequence(sessions') /\ DOMAIN sessions' = {}
    BY <1>1 DEF IsSequence
  <2>3. SessionTypes' /\ RatedOnce'
    BY <2>2 DEF SessionTypes, RatedOnce
  <2> QED BY <2>1, <2>3 DEF ClaimInv
<1>4. SentenceInv'
  <2>1. \A s \in Slots : at'[s] \notin Translating
    BY <1>1 DEF Translating
  <2> QED BY <1>1, <2>1, SentenceAlike
<1> QED BY <1>2, <1>3, <1>4 DEF ReviewInv

-----------------------------------------------------------------------------
(* The whole. *)

\* At the start nothing is at work, and the cards are new.
LEMMA PracticeStart ==
    ASSUME PracticeInit
    PROVE  PracticeInv /\ StaleTier!Init
<1> USE DEF PracticeInit
<1>1. CatalogInv /\ StaleTier!Init
  BY CatalogStart
<1>2. \A s \in Slots : at[s] = "idle"
  BY DEF HandlersInit
<1>3. TrialInv
  <2>1. made = [u \in Callers |-> 0]
    BY DEF PersonalInit
  <2>2. \A u : Working(u) = {} /\ Promised(u) = {}
    BY <1>2 DEF Working, Promised, Generating
  <2>3. \A s \in Slots : at[s] \notin Generating
    BY <1>2 DEF Generating
  <2>4. \A u \in Callers : TrialOf(u)
    BY <2>1, <2>2 DEF TrialOf
  <2> QED BY <2>1, <2>3, <2>4 DEF TrialInv
<1>4. RowInv
  <2>1. world.words \in Seq(Words)
    BY ReviewsAssumption DEF HandlersInit
  <2>2. cards = [i \in DOMAIN world.words |-> Card(world.words[i])] /\ disturbed = {}
    BY DEF ReviewsInit
  <2>3. \A i \in DOMAIN cards :
          /\ cards[i] \in CardRow
          /\ cards[i].count = 0 /\ cards[i].real = 0 /\ cards[i].right = 0 /\ cards[i].box = 1
    BY <2>1, <2>2, CardCounts
  <2>4. cards \in Seq(CardRow)
    <3>1. Len(world.words) \in Nat /\ DOMAIN cards = 1 .. Len(world.words)
      BY <2>1, <2>2
    <3>2. cards \in [1 .. Len(world.words) -> CardRow]
      BY <2>2, <2>3, <3>1
    <3> QED BY <3>1, <3>2
  <2>5. CountsAddUp
    BY <2>3, ReviewsAssumption DEF CountsAddUp
  <2>6. \A s \in Slots : HoldsRow(s)
    BY <1>2 DEF HoldsRow, RowSteps
  <2> QED BY <2>2, <2>4, <2>5, <2>6 DEF RowInv
<1>7. ScenarioInv
  <2>1. personal = world.personal /\ world \in Worlds
    BY DEF PersonalInit, HandlersInit
  <2> QED BY <2>1, PersonalAssumption DEF ScenarioInv
<1>5. ClaimInv
  <2>1. IsSequence(sessions) /\ DOMAIN sessions = {}
    BY DEF ReviewsInit, IsSequence
  <2>2. \A s \in Slots : HoldsClaim(s)
    BY <1>2 DEF HoldsClaim, RateSteps, RowSteps
  <2> QED BY <2>1, <2>2 DEF ClaimInv, SessionTypes, RatedOnce
<1>6. SentenceInv
  <2>1. message = Blank /\ crowd = 0
    BY DEF ReviewsInit
  <2>2. AtSentence = {} /\ \A s \in Slots : HoldsSentence(s)
    BY <1>2 DEF AtSentence, Translating, HoldsSentence
  <2>3. DOMAIN message = {"text", "lang"} /\ Agrees(message)
    BY <2>1 DEF Blank, Agrees
  <2> QED BY <2>1, <2>2, <2>3 DEF SentenceInv, SentenceTypes
<1> QED BY <1>1, <1>3, <1>4, <1>5, <1>6, <1>7 DEF PracticeInv, ReviewInv

\* A step of one module keeps the invariant of each.
LEMMA PracticeStep ==
    ASSUME PracticeInv, PracticeNext
    PROVE  PracticeInv' /\ NoneTaken /\ [StaleTier!Next]_(StaleTier!vars)
<1> USE DEF PracticeInv
<1>1. DOMAIN at = Slots /\ DOMAIN arg = Slots
  BY DEF CatalogInv, StoreInv, CatalogTypes
<1>2. CASE /\ (\E s \in Slots : PersonalStep(s)) \/ Practise \/ ChangePlan \/ NextDay \/ NextMonth
           /\ UNCHANGED <<reviewVars, catalogVars>>
  <2>1. TrialInv'
    BY <1>1, <1>2, TrialStep
  <2>2. Foreign(CatalogSteps) /\ Aside(ReviewSteps)
    <3>1. ASSUME NEW s \in Slots, PersonalStep(s) PROVE Foreign(CatalogSteps) /\ Aside(ReviewSteps)
      <4>1. MovesIn(s, PersonalSteps)
        BY <3>1, PersonalOwn
      <4> QED BY <1>1, <4>1, MovesAside, OwnAwaits
    <3>2. ASSUME Practise \/ ChangePlan \/ NextDay \/ NextMonth PROVE UNCHANGED <<at, arg>>
      BY <3>2 DEF Practise, ChangePlan, NextDay, NextMonth, Instant
    <3> QED BY <1>1, <1>2, <3>1, <3>2, InstantAside
  <2>3. ScenarioInv' /\ NoneTaken
    BY <1>2, ScenarioStep
  <2> QED BY <1>2, <2>1, <2>2, <2>3, ReviewsUntouched, CatalogUntouched
<1>3. CASE /\ \/ \E s \in Slots : ReviewStep(s)
              \/ TranslateWord \/ RemoveWord \/ TouchReviewed \/ FallDue \/ StartReview \/ Age \/ Sweep
           /\ UNCHANGED <<intakeVars, personalVars, catalogVars>>
  <2>1. RowInv'
    BY <1>1, <1>3, RowStep
  <2>2. ReviewInv'
    BY <1>1, <1>3, <2>1, ClaimStep DEF ReviewInv
  <2>3. SentenceInv'
    BY <1>1, <1>3, SentenceStep
  <2>4. Foreign(CatalogSteps) /\ Aside(Generating)
    <3>1. ASSUME NEW s \in Slots, ReviewStep(s) PROVE Foreign(CatalogSteps) /\ Aside(Generating)
      <4>1. MovesIn(s, ReviewSteps)
        BY <3>1, ReviewOwn
      <4> QED BY <1>1, <4>1, MovesAside, OwnAwaits
    <3>2. ASSUME TranslateWord \/ RemoveWord \/ TouchReviewed \/ FallDue \/ StartReview \/ Age \/ Sweep
          PROVE  UNCHANGED <<at, arg>>
      BY <3>2 DEF TranslateWord, RemoveWord, TouchReviewed, FallDue, StartReview, Age, Sweep, Instant, handlerVars
    <3> QED BY <1>1, <1>3, <3>1, <3>2, InstantAside
  <2>5. TrialInv'
    <3>1. UNCHANGED <<made, trial, lapsed>>
      BY <1>3 DEF personalVars
    <3> QED BY <2>4, <3>1, TrialUntouched
  <2>6. ScenarioInv' /\ NoneTaken
    BY <1>3, ScenariosUntouched DEF intakeVars, personalVars
  <2> QED BY <1>3, <2>2, <2>3, <2>4, <2>5, <2>6, CatalogUntouched
<1>4. CASE /\ \/ \E s \in Slots : CatalogStep(s)
              \/ GenerateDraft \/ StorePersonal \/ DropPersonal \/ Browse \/ Subscribe \/ HourPasses
           /\ UNCHANGED <<intakeVars, personalVars, reviewVars>>
  <2>1. CatalogInv' /\ [StaleTier!Next]_(StaleTier!vars)
    BY <1>4, CatalogSteppedBy DEF CatalogNext
  <2>2. Aside(ReviewSteps) /\ Aside(Generating)
    <3>1. ASSUME NEW s \in Slots, CatalogStep(s) PROVE Aside(ReviewSteps) /\ Aside(Generating)
      <4>1. MovesIn(s, CatalogSteps)
        BY <3>1, CatalogOwn
      <4> QED BY <1>1, <4>1, MovesAside, OwnAwaits
    <3>2. ASSUME GenerateDraft \/ StorePersonal \/ DropPersonal \/ Browse \/ Subscribe \/ HourPasses
          PROVE  UNCHANGED <<at, arg>>
      BY <3>2 DEF GenerateDraft, StorePersonal, DropPersonal, Browse, Subscribe, HourPasses, Instant, handlerVars
    <3> QED BY <1>1, <1>4, <3>1, <3>2, InstantAside
  <2>3. TrialInv'
    <3>1. UNCHANGED <<made, trial, lapsed>>
      BY <1>4 DEF personalVars
    <3> QED BY <2>2, <3>1, TrialUntouched
  <2>4. ScenarioInv' /\ NoneTaken
    BY <1>4, ScenariosUntouched DEF intakeVars, personalVars
  <2> QED BY <1>4, <2>1, <2>2, <2>3, <2>4, ReviewsUntouched
<1>5. CASE Restart /\ IntakeRestart /\ PersonalRestart /\ ReviewsRestart /\ CatalogRestart
  <2>1. CatalogInv' /\ [StaleTier!Next]_(StaleTier!vars)
    BY <1>5, CatalogSteppedBy DEF CatalogNext
  <2>2. ScenarioInv' /\ NoneTaken
    BY <1>5, ScenariosUntouched DEF IntakeRestart, PersonalRestart
  <2> QED BY <1>5, <2>1, <2>2, TrialRestart, ReviewsLost
<1> QED BY <1>2, <1>3, <1>4, <1>5 DEF PracticeNext

\* A step in which nothing of the practice happens.
LEMMA PracticeStutters ==
    ASSUME PracticeInv, UNCHANGED <<handlerVars, practiceVars>>
    PROVE  PracticeInv' /\ NoneTaken /\ [StaleTier!Next]_(StaleTier!vars)
<1> USE DEF PracticeInv
<1>1. DOMAIN at = Slots /\ DOMAIN arg = Slots
  BY DEF CatalogInv, StoreInv, CatalogTypes
<1>2. /\ UNCHANGED <<at, arg>> /\ UNCHANGED reviewVars /\ UNCHANGED catalogVars
      /\ UNCHANGED <<made, trial, lapsed>> /\ UNCHANGED personal
  BY DEF handlerVars, practiceVars, personalVars, intakeVars
<1>3. Foreign(CatalogSteps) /\ Aside(ReviewSteps) /\ Aside(Generating)
  BY <1>1, <1>2, InstantAside
<1> QED BY <1>2, <1>3, TrialUntouched, ScenariosUntouched, ReviewsUntouched, CatalogUntouched

\* The invariant of personalization, reviews and catalogue in one process.
THEOREM PracticeInvariance == PracticeSpec => []PracticeInv
<1>1. PracticeInit => PracticeInv
  BY PracticeStart
<1>2. PracticeInv /\ [PracticeNext]_<<handlerVars, practiceVars>> => PracticeInv'
  BY PracticeStep, PracticeStutters
<1> QED BY <1>1, <1>2, PTL DEF PracticeSpec

\* A month has one generation on trial, and its answer uses the trial up, however the
\* awaits of generations, changes of plan and restarts interleave (TrialOnce).
THEOREM TrialUsedOnce == PracticeSpec => []TrialOnce
<1>1. PracticeInv => TrialOnce
  BY TrialMeans DEF PracticeInv
<1> QED BY <1>1, PracticeInvariance, PTL

\* What a prune has left is deleted only where a batch that is no younger committed too
\* late for that prune to see it, whatever generations, commits and practice overlap
\* (KeptForGood).
THEOREM PrunedOnce == PracticeSpec => KeptForGood
<1>1. PracticeInv /\ [PracticeNext]_<<handlerVars, practiceVars>> => NoneTaken
  BY PracticeStep, PracticeStutters
<1>2. PracticeInv /\ [PracticeNext]_<<handlerVars, practiceVars>> =>
        [\A u \in Callers : \A i \in DOMAIN personal[u] : personal[u][i].kept =>
           \/ i \in DOMAIN personal'[u] /\ personal'[u][i].kept
           \/ \E j \in Unused(personal[u]) : ~personal[u][j].kept /\ j[1] <= i[1]]_personalVars
  BY <1>1 DEF NoneTaken, KeptStay
<1> QED BY <1>2, PracticeInvariance, PTL DEF PracticeSpec, KeptForGood

\* A card changes its box once in a session, and a rating neither saved nor at work is
\* one whose claim was lost (RatedOnce).
THEOREM OneRating == PracticeSpec => []RatedOnce
<1>1. PracticeInv => RatedOnce
  BY DEF PracticeInv, ReviewInv, ClaimInv
<1> QED BY <1>1, PracticeInvariance, PTL

\* The counts of a card are its reviews, of one two writers had in hand no more than
\* its reviews (CountsAddUp).
THEOREM TrueCounts == PracticeSpec => []CountsAddUp
<1>1. PracticeInv => CountsAddUp
  BY DEF PracticeInv, ReviewInv, RowInv
<1> QED BY <1>1, PracticeInvariance, PTL

\* The sentence on a message is in the language it says (SentenceMatches).
THEOREM TrueSentence == PracticeSpec => []SentenceMatches
<1>1. PracticeInv => SentenceMatches
  BY SentenceMeans DEF PracticeInv
<1> QED BY <1>1, PracticeInvariance, PTL

\* A personal scenario is shown and granted to nobody but its owner, beside everything
\* else the process does (PersonalPrivate).
THEOREM PrivateScenarios == PracticeSpec => []PersonalPrivate
<1>1. PracticeInv => PersonalPrivate
  BY DEF PracticeInv, CatalogInv, StoreInv
<1> QED BY <1>1, PracticeInvariance, PTL

\* A bundle holds what its creation attached to it, and its code is its own
\* (BundlesWhole).
THEOREM WholeBundles == PracticeSpec => []BundlesWhole
<1>1. PracticeInv => BundlesWhole
  BY DEF PracticeInv, CatalogInv, StoreInv
<1> QED BY <1>1, PracticeInvariance, PTL

\* The guard of the chat implements StaleRead beside the other modules: the tier it goes
\* by was the scenario's less than CACHE_TTL_MS before the request came (TierIsFresh).
THEOREM FreshTier == PracticeSpec => TierIsFresh
<1>1. PracticeInit => StaleTier!Init
  BY PracticeStart
<1>2. PracticeInv /\ [PracticeNext]_<<handlerVars, practiceVars>> => [StaleTier!Next]_(StaleTier!vars)
  BY PracticeStep, PracticeStutters
<1> QED BY <1>1, <1>2, PracticeInvariance, PTL DEF PracticeSpec, TierIsFresh, StaleTier!Spec

=============================================================================
