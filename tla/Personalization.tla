-------------------------- MODULE Personalization ---------------------------
(***************************************************************************)
(* PersonalizationService and the services beside it: the intake chat of a *)
(* subscriber, the generation of personal scenarios under a quota, the     *)
(* skip of a profile that brings nothing new, the pruning of old rows and  *)
(* the offer after a scenario.  A generation is a chain of awaits about    *)
(* one user that nothing locks.                                            *)
(***************************************************************************)
EXTENDS Intake

CONSTANTS
    Profiles,   \* what a conversation tells of a learner: sets of facts
    Size,       \* scenarios of a batch
    Cap,        \* PERSONAL_CAP
    Ceiling     \* DAILY_CEILING

VARIABLES
    plan,       \* of each user: "none", "monthly" (or yearly), "lifetime"
    personal,   \* scenarios of type personal: of each user, by batch and number in it
    trial,      \* users whose personalizedTrialUsedAt is in this month
    lately,     \* users whose lastPersonalizationAt is less than a day ago
    snapshot,   \* personalizationProfileSnapshot
    made,       \* generations of this month on trial
    lapsed,     \* users of whom two generations overlapped or one was cut short
    offers      \* personalization.offered events

personalVars == <<plan, personal, trial, lately, snapshot, made, lapsed, offers>>

\* kept: the row has been through a prune.
Scenario == [recent |-> TRUE, used |-> FALSE, kept |-> FALSE]
Scenarios == [recent : BOOLEAN, used : BOOLEAN, kept : BOOLEAN]

\* The rows after S is inserted.  One transaction saves a batch, and created_at is the
\* time at which it began: the rows of a batch have it in common.
WithBatch(rs, S) == [i \in DOMAIN rs \cup S |-> IF i \in DOMAIN rs THEN rs[i] ELSE Scenario]

Unused(rs) == {i \in DOMAIN rs : ~rs[i].used}
\* The unused rows that a prune has left.
Spared(rs) == {i \in Unused(rs) : rs[i].kept}

\* A table in which prunes have left no more than they should.
WellPruned(rs) ==
    /\ IsFiniteSet(DOMAIN rs) /\ rs \in [DOMAIN rs -> Scenarios]
    /\ Cardinality(Spared(rs)) <= Cap

\* The rows of a world are of an earlier time.
ASSUME PersonalAssumption ==
    /\ {Cap, Size} \subseteq Nat
    /\ \A w \in Worlds :
         /\ w.personal \in [Callers -> {w.personal[u] : u \in Callers}]
         /\ \A u \in Callers :
              WellPruned(w.personal[u]) /\ \A i \in DOMAIN w.personal[u] : i[1] = 0

PersonalInit ==
    /\ plan = world.plan
    /\ personal = world.personal
    /\ trial = {} /\ lately = {} /\ lapsed = {}
    /\ snapshot = [u \in Callers |-> {}]
    /\ made = [u \in Callers |-> 0]
    /\ offers = 0

Recent(u) == Cardinality({i \in DOMAIN personal[u] : personal[u][i].recent})

QuotaFaulty(u) ==
    IF plan[u] = "none" THEN "free_blocked"
    ELSE IF Recent(u) >= Ceiling THEN "daily_ceiling"
    ELSE IF plan[u] = "lifetime" THEN "ok" ELSE "trial"

\* checkQuota.  The ceiling counts rows; what a monthly plan has left is one trial.
Quota(u) ==
    IF plan[u] = "none" THEN "free_blocked"
    ELSE IF Recent(u) >= Ceiling THEN "daily_ceiling"
    ELSE IF plan[u] = "lifetime" THEN "ok"
    ELSE IF u \in trial THEN "paywall" ELSE "trial"

-----------------------------------------------------------------------------
(* The intake chat. *)

\* Whoever has a plan may chat, with the quota used up too.  The conversation is
\* not compared with the user.
PersonalChat(s) ==
    \E u \in Callers :
       /\ plan[u] # "none"
       /\ \/ /\ Len(convs) + Cardinality(Opening) < MaxConvs
             /\ Begin(s, "personal chat", "open personal", [op |-> "turn", user |-> u])
          \/ \E c \in DOMAIN convs, text \in BOOLEAN :
               Begin(s, "personal chat", "turn",
                     [op |-> "turn", kind |-> "personalize", conv |-> c, text |-> text])
       /\ UNCHANGED <<intakeVars, personalVars>>

\* The conversation stays when the user turns out to learn no language: 400.
OpenPersonal(s) ==
    /\ at[s] = "open personal"
    /\ \E l \in Targets :
         convs' = Append(convs, [Conv(l) EXCEPT !.kind = "personalize", !.owner = arg[s].user])
    /\ \/ Go(s, "turn", [op |-> "turn", kind |-> "personalize", conv |-> Len(convs'), text |-> FALSE])
       \/ End(s)
    /\ UNCHANGED <<batches, broken, contested, personalVars>>

-----------------------------------------------------------------------------
(* Generation. *)

Job(u, c) == [op |-> "generate", user |-> u, conv |-> c, quota |-> "none",
              lately |-> FALSE, snap |-> {}, profile |-> {}, rows |-> 0, stamp |-> 0]
Generating == {"owner", "quota", "user", "profile", "generate", "save", "commit", "track", "trial", "prune"}
Working(u) == {s \in Slots : at[s] \in Generating \ {"owner", "prune"} /\ arg[s].user = u}

PersonalComplete(s) ==
    \E u \in Callers, c \in DOMAIN convs :
       /\ Begin(s, "personal complete", "owner", Job(u, c))
       /\ UNCHANGED <<intakeVars, personalVars>>

CheckOwner(s) ==
    LET c == convs[arg[s].conv] IN
    /\ at[s] = "owner"
    /\ IF c.kind = "personalize" /\ c.owner = arg[s].user
       THEN Go(s, "quota", arg[s]) /\ lapsed' = IF Working(arg[s].user) = {} THEN lapsed
                                                ELSE lapsed \cup {arg[s].user}
       ELSE End(s) /\ UNCHANGED lapsed
    /\ UNCHANGED <<intakeVars, plan, personal, trial, lately, snapshot, made, offers>>

CheckQuota(s) ==
    LET q == Quota(arg[s].user) IN
    /\ at[s] = "quota"
    /\ IF q \in {"ok", "trial"} THEN Go(s, "user", [arg[s] EXCEPT !.quota = q]) ELSE End(s)
    /\ UNCHANGED <<intakeVars, personalVars>>

\* The row of the user is read here and used once the model has answered.
LoadUser(s) ==
    LET u == arg[s].user IN
    /\ at[s] = "user"
    /\ Go(s, "profile", [arg[s] EXCEPT !.lately = u \in lately, !.snap = snapshot[u]])
    /\ UNCHANGED <<intakeVars, personalVars>>

\* shouldSkipGeneration: a day has not passed, and there is no new fact.
NothingNew(s, p) == arg[s].lately /\ p \subseteq arg[s].snap

ExtractProfile(s) ==
    /\ at[s] = "profile"
    /\ \E p \in Profiles :
         IF NothingNew(s, p) THEN End(s) ELSE Go(s, "generate", [arg[s] EXCEPT !.profile = p])
    /\ UNCHANGED <<intakeVars, personalVars>>

\* A batch, or nothing at all if the answer cannot be parsed: both go on.
Generate(s) ==
    /\ at[s] = "generate"
    /\ \E n \in {0, Size} : Go(s, "save", [arg[s] EXCEPT !.rows = n])
    /\ UNCHANGED <<intakeVars, personalVars>>

\* The transaction of save begins: created_at is fixed.
SaveBatch(s) ==
    /\ at[s] = "save"
    /\ batches' = batches + 1
    /\ Go(s, "commit", [arg[s] EXCEPT !.stamp = batches'])
    /\ UNCHANGED <<convs, broken, contested, personalVars>>

\* The rows are there for others when it commits, perhaps after those of a transaction
\* that began later.
CommitBatch(s) ==
    LET u == arg[s].user IN
    /\ at[s] = "commit"
    /\ personal' = [personal EXCEPT ![u] = WithBatch(@, {arg[s].stamp} \X (1 .. arg[s].rows))]
    /\ made' = IF arg[s].quota = "trial" THEN [made EXCEPT ![u] = @ + 1] ELSE made
    /\ Go(s, "track", arg[s])
    /\ UNCHANGED <<intakeVars, plan, trial, lately, snapshot, lapsed, offers>>

Track(s) ==
    LET u == arg[s].user IN
    /\ at[s] = "track"
    /\ lately' = lately \cup {u}
    /\ snapshot' = [snapshot EXCEPT ![u] = arg[s].profile]
    /\ Go(s, IF arg[s].quota = "trial" THEN "trial" ELSE "prune", arg[s])
    /\ UNCHANGED <<intakeVars, plan, personal, trial, made, lapsed, offers>>

MarkTrialUsed(s) ==
    /\ at[s] = "trial"
    /\ trial' = trial \cup {arg[s].user}
    /\ Go(s, "prune", arg[s])
    /\ UNCHANGED <<intakeVars, plan, personal, lately, snapshot, made, lapsed, offers>>

\* How many rows an OFFSET leaves.
Remaining(S) == IF Cardinality(S) > Cap THEN Cap ELSE Cardinality(S)

DoomedFaulty(rs) == {D \in SUBSET Unused(rs) : Cardinality(Unused(rs) \ D) = Remaining(Unused(rs))}

\* ORDER BY created_at ASC OFFSET Cap: the rows after the first Cap of them, whichever
\* of those with one created_at come first.
Doomed(rs) == {D \in SUBSET Unused(rs) :
    /\ Cardinality(Unused(rs) \ D) = Remaining(Unused(rs))
    /\ \A i \in D, j \in Unused(rs) \ D : j[1] <= i[1]}

Survivors(rs, D) == [i \in DOMAIN rs \ D |-> [rs[i] EXCEPT !.kept = TRUE]]

\* Nobody waits for it, and its failure is only logged.
Prune(s) ==
    /\ at[s] = "prune"
    /\ \E D \in Doomed(personal[arg[s].user]) :
         personal' = [personal EXCEPT ![arg[s].user] = Survivors(@, D)]
    /\ End(s)
    /\ UNCHANGED <<intakeVars, plan, trial, lately, snapshot, made, lapsed, offers>>

CutOff(S) ==
    lapsed' = lapsed \cup {arg[s].user : s \in {r \in S : at[r] \in {"track", "trial"}}}

GenerationFails(s) ==
    /\ world.faults
    /\ at[s] \in Generating \cup {"open personal", "offer", "emit"}
    /\ End(s)
    /\ CutOff({s})
    /\ UNCHANGED <<intakeVars, plan, personal, trial, lately, snapshot, made, offers>>

-----------------------------------------------------------------------------
(* The offer, after a scenario that triggers it: advisory lock of the user. *)

Offer(s) ==
    \E u \in Callers, triggers \in BOOLEAN :
       /\ Begin(s, "offer", "offer", [op |-> "offer", user |-> u, triggers |-> triggers])
       /\ UNCHANGED <<intakeVars, personalVars>>

TakeAdvisoryLock(s) ==
    /\ at[s] = "offer"
    /\ \A r \in Slots : at[r] = "emit" => arg[r].user # arg[s].user
    /\ Go(s, "emit", arg[s])
    /\ UNCHANGED <<intakeVars, personalVars>>

\* A user past the trial is asked too; nothing records that the offer was made.
Emit(s) ==
    /\ at[s] = "emit"
    /\ offers' = IF ~arg[s].triggers \/ Quota(arg[s].user) \in {"free_blocked", "daily_ceiling"}
                 THEN offers ELSE offers + 1
    /\ End(s)
    /\ UNCHANGED <<intakeVars, plan, personal, trial, lately, snapshot, made, lapsed>>

-----------------------------------------------------------------------------
(* The rest of the world. *)

\* A conversation about a personal scenario: the row is in use.
Practise ==
    \E u \in Callers : \E i \in DOMAIN personal[u] :
       /\ Instant("practise")
       /\ personal' = [personal EXCEPT ![u][i].used = TRUE]
       /\ UNCHANGED <<intakeVars, plan, trial, lately, snapshot, made, lapsed, offers>>

\* Another plan; a day without a generation; another month.
ChangePlan ==
    \E u \in Callers, p \in {"none", "monthly", "lifetime"} :
       /\ Instant("plan")
       /\ plan' = [plan EXCEPT ![u] = p]
       /\ UNCHANGED <<intakeVars, personal, trial, lately, snapshot, made, lapsed, offers>>

NextDay ==
    /\ Instant("day")
    /\ personal' = [u \in Callers |-> [i \in DOMAIN personal[u] |-> [personal[u][i] EXCEPT !.recent = FALSE]]]
    /\ lately' = {}
    /\ UNCHANGED <<intakeVars, plan, trial, snapshot, made, lapsed, offers>>

NextMonth ==
    /\ Instant("month")
    /\ trial' = {}
    /\ made' = [u \in Callers |-> 0]
    /\ lapsed' = lapsed \cup {u \in Callers : Working(u) # {}}
    /\ UNCHANGED <<intakeVars, plan, personal, lately, snapshot, offers>>

PersonalRestart ==
    /\ CutOff(Slots)
    /\ UNCHANGED <<plan, personal, trial, lately, snapshot, made, offers>>

PersonalStep(s) ==
    \/ TurnStep(s) /\ UNCHANGED personalVars
    \/ PersonalChat(s) \/ OpenPersonal(s) \/ PersonalComplete(s) \/ CheckOwner(s) \/ CheckQuota(s)
    \/ LoadUser(s) \/ ExtractProfile(s) \/ Generate(s) \/ SaveBatch(s) \/ CommitBatch(s) \/ Track(s)
    \/ MarkTrialUsed(s) \/ Prune(s) \/ GenerationFails(s)
    \/ Offer(s) \/ TakeAdvisoryLock(s) \/ Emit(s)

PersonalNext ==
    \/ \E s \in Slots : PersonalStep(s)
    \/ Practise \/ ChangePlan \/ NextDay \/ NextMonth
    \/ Restart /\ IntakeRestart /\ PersonalRestart

PersonalSpec ==
    HandlersInit /\ IntakeInit /\ PersonalInit
        /\ [][PersonalNext]_<<handlerVars, intakeVars, personalVars>>

-----------------------------------------------------------------------------

\* A month has one generation on trial, whether it yielded scenarios or none, and
\* once it has been answered the trial is used, unless two generations of the user
\* overlapped, or one died between its scenarios and the mark.
TrialOnce ==
    \A u \in Callers \ lapsed :
        /\ made[u] <= 1
        /\ made[u] = 1 /\ Working(u) = {} => u \in trial

\* A scenario that a prune has left is taken from its user only by a batch that is no
\* younger and was committed too late for that prune to see it.  For the rest whoever
\* has collected Cap unused ones keeps those, and it is the new batch that goes.
KeptForGood ==
    [][\A u \in Callers : \A i \in DOMAIN personal[u] : personal[u][i].kept =>
          \/ i \in DOMAIN personal'[u] /\ personal'[u][i].kept
          \/ \E j \in Unused(personal[u]) : ~personal[u][j].kept /\ j[1] <= i[1]]_personalVars

\* "Lazily prune oldest UNUSED personal scenarios over the cap": none that is deleted
\* is younger than one that is left unused.
OldestPruned ==
    [][\A u \in Callers : \A i \in DOMAIN personal[u] \ DOMAIN personal'[u], j \in Unused(personal'[u]) :
          i[1] <= j[1]]_personalVars

=============================================================================
