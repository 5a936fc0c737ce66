--------------------------- MODULE Reconciliation ---------------------------
(***************************************************************************)
(* subscription-reconciliation.cron.ts: the nightly job that asks          *)
(* RevenueCat about rows whose period has ended and applies the answer.    *)
(* The calls of a chunk run through the job's circuit breaker.  Writing    *)
(* the answer is one step here; Subscription has the transaction inside.   *)
(*                                                                         *)
(* The client the job is wired to catches every error and returns null.    *)
(* The breaker never opens around it (InertAroundNull), so no cooldown is  *)
(* ever under way; the job's own checks of the breaker are kept.           *)
(***************************************************************************)
EXTENDS CircuitBreaker, Sequences, SequencesExt

CONSTANTS
    BatchSize, Parallelism,
    Paused,         \* rows that are PAUSED at the start
    MidPeriod,      \* rows whose period has not ended at the start
    Entitled,       \* users RevenueCat holds an active entitlement for
    Endless         \* those of them whose entitlement has no end (LIFETIME)

ASSUME BatchAssumption == BatchSize \in Nat \ {0} /\ Parallelism \in Nat \ {0}
ASSUME WiredClientAssumption == ClientModes = {FALSE}
ASSUME RowsAssumption == Callers \subseteq Nat /\ Paused \cup MidPeriod \subseteq Callers
ASSUME EndlessAssumption == Endless \subseteq Entitled

VARIABLES
    status,     \* status of each row
    due,        \* rows whose currentPeriodEnd lies in the past
    old,        \* rows last updated more than seven days ago
    running,    \* is a run under way?
    queue       \* candidates of the run not yet started

cronVars == <<status, due, old, running, queue>>
vars == <<breakerVars, cronVars>>

\* Rows whose period has ended, and ACTIVE rows that nothing has touched for long.
Candidates ==
    {c \in Callers : \/ c \in due /\ status[c] \in {"ACTIVE", "PAUSED"}
                     \/ c \in old /\ status[c] = "ACTIVE"}

\* The order of the query is currentPeriodEnd: ended periods first, and rows are
\* numbered by it otherwise.
Sooner(c, d) == (c \in due /\ d \notin due) \/ ((c \in due <=> d \in due) /\ c < d)

Batch == SubSeq(SetToSortSeq(Candidates, Sooner), 1,
                IF Cardinality(Candidates) < BatchSize THEN Cardinality(Candidates) ELSE BatchSize)

InFlight == {c \in Callers : call[c] # "idle"}

CronInit ==
    /\ BreakerInit
    /\ status = [c \in Callers |-> IF c \in Paused THEN "PAUSED" ELSE "ACTIVE"]
    /\ due = Callers \ MidPeriod
    /\ old = {}
    /\ running = FALSE
    /\ queue = << >>

\* 03:00.  With the breaker OPEN, or no candidate, there is no run.
RunReconciliation ==
    /\ ~running /\ state # "OPEN" /\ Candidates # {}
    /\ running' = TRUE
    /\ queue' = Batch
    /\ UNCHANGED <<breakerVars, status, due, old>>

Chunk == SubSeq(queue, 1, IF Len(queue) < Parallelism THEN Len(queue) ELSE Parallelism)

\* Promise.allSettled has settled and the breaker is not OPEN: the next chunk.
StartChunk ==
    /\ running /\ InFlight = {} /\ queue # << >> /\ state # "OPEN"
    /\ ExecuteAll(ToSet(Chunk))
    /\ queue' = SubSeq(queue, Len(Chunk) + 1, Len(queue))
    /\ UNCHANGED <<status, due, old, running>>

\* The last chunk has settled, or the breaker has opened.
EndRun ==
    /\ running /\ InFlight = {}
    /\ state # "OPEN" => queue = << >>
    /\ running' = FALSE
    /\ queue' = << >>
    /\ UNCHANGED <<breakerVars, status, due, old>>

ApplyAnswerFaulty(c) ==
    IF c \in Entitled
    THEN status' = [status EXCEPT ![c] = "ACTIVE"] /\ due' = due \ {c} /\ old' = old \ {c}
    ELSE UNCHANGED <<status, due, old>>

\* applyRcGroundTruth: an entitlement renews the row, and its period where the
\* entitlement ends (else currentPeriodEnd is undefined, and the update leaves the
\* old end in the row); without one an ACTIVE row expires and any other row is
\* left alone.
ApplyAnswer(c) ==
    \/ /\ c \in Entitled
       /\ status' = [status EXCEPT ![c] = "ACTIVE"]
       /\ due' = (IF c \in Endless THEN due ELSE due \ {c})
       /\ old' = old \ {c}
    \/ /\ c \notin Entitled /\ status[c] = "ACTIVE"
       /\ status' = [status EXCEPT ![c] = "EXPIRED"]
       /\ old' = old \ {c}
       /\ UNCHANGED due
    \/ /\ c \notin Entitled /\ status[c] # "ACTIVE"
       /\ UNCHANGED <<status, due, old>>

ReconcileOneFaulty(c) ==
    /\ Succeed(c)
    /\ status' = [status EXCEPT ![c] = IF c \in Entitled THEN "ACTIVE" ELSE "EXPIRED"]
    /\ UNCHANGED <<due, old, running, queue>>

ReconcileOne(c) == Succeed(c) /\ ApplyAnswer(c) /\ UNCHANGED <<running, queue>>

\* The answer is not applied: a webhook stamped the row later, or the product is
\* unknown and applyRcGroundTruth throws, which allSettled swallows.
LoseAnswer(c) == Succeed(c) /\ UNCHANGED cronVars

SkipOneFaulty(c) == Err(c) /\ ApplyAnswer(c) /\ UNCHANGED <<running, queue>>

\* RevenueCat erred: reconcileOne gets null and skips the row.
SkipOne(c) == Err(c) /\ UNCHANGED cronVars

\* Time passes over a row.
PeriodEnds(c) ==
    /\ c \notin due
    /\ due' = due \cup {c}
    /\ UNCHANGED <<breakerVars, status, old, running, queue>>

GrowsOld(c) ==
    /\ c \notin old
    /\ old' = old \cup {c}
    /\ UNCHANGED <<breakerVars, status, due, running, queue>>

CronNext ==
    \/ RunReconciliation \/ StartChunk \/ EndRun
    \/ \E c \in Callers : ReconcileOne(c) \/ LoseAnswer(c) \/ SkipOne(c)
    \/ \E c \in Callers : PeriodEnds(c) \/ GrowsOld(c)

CronSpec == CronInit /\ [][CronNext]_vars

\* A run every night; time passes; and about a row that RevenueCat is asked about
\* again and again, one of the answers is given and applied.
CronFairSpec ==
    /\ CronSpec
    /\ WF_vars(RunReconciliation) /\ WF_vars(StartChunk) /\ WF_vars(EndRun)
    /\ \A c \in Callers :
         /\ WF_vars(ReconcileOne(c) \/ LoseAnswer(c) \/ SkipOne(c)) /\ SF_vars(ReconcileOne(c))
         /\ WF_vars(PeriodEnds(c)) /\ WF_vars(GrowsOld(c))

-----------------------------------------------------------------------------

\* No mass revoke: a row loses its ACTIVE status only by an answer RevenueCat
\* gave about that very row, in this run, that it holds no entitlement.
RevokedByAnswerOnly ==
    [][\A c \in Callers : status[c] = "ACTIVE" /\ status'[c] # "ACTIVE" =>
         c \in InFlight /\ errors' = 0 /\ c \notin Entitled]_vars

\* What the job knows of a row is its status.
Ledger == INSTANCE Entitlements
              WITH Users <- Callers, NoRow <- [status |-> "none"], notices <- {},
                   rows <- [c \in Callers |-> [status |-> status[c], plan |-> "MONTHLY", expires |-> 0]],
                   recorded <- {}, answered <- {}

\* Every write of the job is an answer about one row: it gives access, or takes it
\* from a row in force; a PAUSED row is never expired for want of an entitlement.
ServesEntitlements == Ledger!Spec

\* A row in force that RevenueCat no longer backs is expired in the end.
EventuallySettled == \A c \in Callers \ Entitled : <>(status[c] # "ACTIVE")

\* Rows the job asks about again and again: PAUSED ones, which an answer without
\* an entitlement leaves as they are, and those it renews, the endless ones with
\* the end of their former period.
Recurring == Paused \cup Entitled

\* The job "finds subscriptions that are out-of-sync with RevenueCat and corrects them"
\* as long as these rows leave room in the batch; where they fill it, a row that sorts
\* after them may never be reached.
EventuallyReconciled == Cardinality(Recurring) < BatchSize => EventuallySettled

=============================================================================
