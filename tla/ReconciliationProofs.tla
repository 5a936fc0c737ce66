------------------------ MODULE ReconciliationProofs ------------------------
(***************************************************************************)
(* Proofs about Reconciliation, for any rows, batch, parallelism and       *)
(* breaker.  A chunk of calls goes through the breaker in one turn, so a   *)
(* run is not a behaviour of CircuitBreaker; but its steps keep the        *)
(* invariant of CircuitBreakerProofs.                                      *)
(***************************************************************************)
EXTENDS Reconciliation, CircuitBreakerProofs

\* The breaker's invariant, and the type of the rows.
CronInv ==
    /\ Counts
    /\ status \in [Callers -> {"ACTIVE", "PAUSED", "EXPIRED"}]

\* Before the first night.
LEMMA CronInitInv == CronInit => CronInv
BY BreakerInitCounts DEF CronInit, CronInv

\* An answer of RevenueCat changes at most the row it is about.
LEMMA AnswerChangesOne ==
  ASSUME CronInv, NEW c \in Callers, ApplyAnswer(c)
  PROVE  /\ status' \in [Callers -> {"ACTIVE", "PAUSED", "EXPIRED"}]
         /\ \A d \in Callers : status'[d] # status[d] => d = c
         /\ c \in Entitled => status'[c] = "ACTIVE"
BY DEF ApplyAnswer, CronInv

\* Every step keeps the invariant: chunks start calls, answers end them, and the
\* rest leaves the breaker alone.
LEMMA CronNextInv == CronInv /\ [CronNext]_vars => CronInv'
<1> SUFFICES ASSUME CronInv, [CronNext]_vars PROVE CronInv'
  OBVIOUS
<1> USE DEF CronInv
<1>1. CASE RunReconciliation \/ EndRun \/ UNCHANGED vars
  <2>1. UNCHANGED breakerVars /\ status' = status
    BY <1>1 DEF RunReconciliation, EndRun, vars, cronVars
  <2> QED
    BY <2>1, BreakerNextCounts
<1>2. CASE StartChunk
  BY <1>2, ExecuteCounts DEF StartChunk
<1>3. ASSUME NEW c \in Callers, ReconcileOne(c)
      PROVE  CronInv'
  <2>1. [BreakerNext]_breakerVars /\ ApplyAnswer(c)
    BY <1>3 DEF ReconcileOne, BreakerNext
  <2> QED
    BY <2>1, BreakerNextCounts, AnswerChangesOne
<1>4. ASSUME NEW c \in Callers, LoseAnswer(c) \/ SkipOne(c)
      PROVE  CronInv'
  <2>1. [BreakerNext]_breakerVars /\ status' = status
    BY <1>4 DEF LoseAnswer, SkipOne, BreakerNext, cronVars
  <2> QED
    BY <2>1, BreakerNextCounts
<1>5. ASSUME NEW c \in Callers, PeriodEnds(c) \/ GrowsOld(c)
      PROVE  CronInv'
  <2>1. UNCHANGED breakerVars /\ status' = status
    BY <1>5 DEF PeriodEnds, GrowsOld
  <2> QED
    BY <2>1, BreakerNextCounts
<1> QED
  BY <1>1, <1>2, <1>3, <1>4, <1>5 DEF CronNext

\* The invariant holds of every behaviour.
THEOREM CronInvariance == CronSpec => []CronInv
BY CronInitInv, CronNextInv, PTL DEF CronSpec

-----------------------------------------------------------------------------
(* What follows. *)

\* The job's breaker never opens around RevenueCatRestClient either, however
\* many calls of a chunk go through it in one turn.
THEOREM InertInJob == CronSpec => []InertAroundNull
<1>1. CronInv => InertAroundNull
  BY ThresholdAssumption DEF CronInv, Counts, StateMatchesCount, InertAroundNull
<1> QED
  BY <1>1, CronInvariance, PTL

\* No mass revoke: an outage, a lost answer, a breaker in any state, age or the
\* end of a period alone never takes the status ACTIVE from a row.
THEOREM NoMassRevoke == CronSpec => RevokedByAnswerOnly
<1>1. ASSUME CronInv, CronNext, NEW c \in Callers, status[c] = "ACTIVE", status'[c] # "ACTIVE"
      PROVE  c \in InFlight /\ errors' = 0 /\ c \notin Entitled
  <2>1. PICK d \in Callers : ReconcileOne(d)
    BY <1>1 DEF CronNext, RunReconciliation, StartChunk, EndRun, LoseAnswer, SkipOne,
       PeriodEnds, GrowsOld, cronVars
  <2>2. d = c /\ c \notin Entitled
    BY <1>1, <2>1, AnswerChangesOne DEF ReconcileOne
  <2>3. c \in InFlight /\ errors' = 0
    BY <2>1, <2>2 DEF ReconcileOne, Succeed, Done, InFlight
  <2> QED
    BY <2>2, <2>3
<1>2. CronInv /\ [CronNext]_vars =>
        [\A c \in Callers : status[c] = "ACTIVE" /\ status'[c] # "ACTIVE" =>
           c \in InFlight /\ errors' = 0 /\ c \notin Entitled]_vars
  BY <1>1
<1> QED
  BY <1>2, CronInvariance, PTL DEF CronSpec, RevokedByAnswerOnly

-----------------------------------------------------------------------------
(* The job implements Entitlements: to a row it does what an answer allows. *)

\* The abstract row of c.
Facts(c) == [status |-> status[c], plan |-> "MONTHLY", expires |-> 0]

\* The entries of the refinement mapping, by name.
Told == [c \in Callers |-> Facts(c)]

\* An answer about c is one Entitlements knows, or changes no status at all.
LEMMA AnswerReports ==
  ASSUME CronInv, NEW c \in Callers, ApplyAnswer(c), status' # status
  PROVE  Ledger!Report(c)
<1>1. /\ status \in [Callers -> {"ACTIVE", "PAUSED", "EXPIRED"}]
      /\ status' = [status EXCEPT ![c] = status'[c]]
      /\ \/ status'[c] = "ACTIVE"
         \/ status[c] = "ACTIVE" /\ status'[c] = "EXPIRED"
  BY DEF ApplyAnswer, CronInv
<1>2. Told' = [Told EXCEPT ![c] = Told'[c]]
  BY <1>1 DEF Told, Facts
<1>3. /\ Told[c].status = status[c] /\ Told'[c].status = status'[c]
      /\ Told'[c].plan = "MONTHLY" /\ Told'[c].plan = Told[c].plan
      /\ Told'[c].expires = Told[c].expires
  BY DEF Told, Facts
<1>4. Told[c] # [status |-> "none"] /\ Told'[c] # [status |-> "none"]
  BY <1>1, <1>3
<1>5. CASE status'[c] = "ACTIVE"
  <2>1. Ledger!Grant(c)
    BY <1>2, <1>3, <1>4, <1>5 DEF Ledger!Grant, Ledger!Only, Told, Facts
  <2> QED
    BY <2>1 DEF Ledger!Report
<1>6. CASE status[c] = "ACTIVE" /\ status'[c] = "EXPIRED"
  <2>1. /\ Ledger!Has(c) /\ Told[c].status = "ACTIVE"
        /\ Ledger!Becomes(c, "EXPIRED") /\ Ledger!SamePlan(c) /\ Ledger!SamePeriod(c)
    BY <1>2, <1>3, <1>4, <1>6
       DEF Ledger!Has, Ledger!Becomes, Ledger!Only, Ledger!SamePlan, Ledger!SamePeriod, Told, Facts
  <2> QED
    BY <2>1 DEF Ledger!Report, Ledger!Revoke, Told, Facts
<1> QED
  BY <1>1, <1>5, <1>6

\* Whatever the job, the breaker and the clock do, what becomes of the rows are
\* answers about one row each: it gains access, or a row in force loses it, and a
\* PAUSED row is never expired.  So to the rest of the application the job is one
\* more party that Entitlements speaks of.
THEOREM CronImplementsEntitlements == CronSpec => ServesEntitlements
<1>1. CronInit => Ledger!Init
  BY RowsAssumption DEF CronInit, Ledger!Init, Ledger!Has, Ledger!Statuses
<1>2. ASSUME CronInv, [CronNext]_vars
      PROVE  [Ledger!Next]_(Ledger!vars)
  <2>1. CASE status' = status
    BY <2>1 DEF Ledger!vars
  <2>2. CASE status' # status
    <3>1. PICK c \in Callers : ReconcileOne(c)
      BY <1>2, <2>2 DEF CronNext, RunReconciliation, StartChunk, EndRun, LoseAnswer,
         SkipOne, PeriodEnds, GrowsOld, cronVars, vars
    <3>2. Ledger!Report(c)
      BY <1>2, <2>2, <3>1, AnswerReports DEF ReconcileOne
    <3> QED
      BY <3>2 DEF Ledger!Learn, Ledger!Next
  <2> QED
    BY <2>1, <2>2
<1> QED
  BY <1>1, <1>2, CronInvariance, PTL DEF CronSpec, ServesEntitlements, Ledger!Spec

=============================================================================
