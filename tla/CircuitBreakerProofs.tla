------------------------- MODULE CircuitBreakerProofs -------------------------
(***************************************************************************)
(* Proofs about CircuitBreaker, for every threshold, cooldown and set of   *)
(* callers, around a function that rejects or one that returns null.       *)
(***************************************************************************)
EXTENDS CircuitBreaker, TLAPS

\* The count of failures decides the state, except that a success is what leaves
\* it: inductive with the types, and with the fact that a client that returns
\* null on an error never has one counted.
Counts ==
    /\ BreakerTypeOK
    /\ StateMatchesCount
    /\ ~throws => failures = 0

\* The initial state, for a threshold that is not zero.
LEMMA BreakerInitCounts == BreakerInit => Counts
BY ThresholdAssumption, DurationAssumption
   DEF BreakerInit, Counts, BreakerTypeOK, StateMatchesCount, BreakerState

\* A failure recorded by a call that rejects.
LEMMA FailureCounts ==
  ASSUME Counts, throws, RecordFailure, UNCHANGED throws
  PROVE  /\ state' \in BreakerState /\ failures' \in Nat /\ left' \in 0..OpenDuration
         /\ StateMatchesCount'
<1>1. failures \in Nat /\ left \in 0..OpenDuration /\ state \in BreakerState
  BY DEF Counts, BreakerTypeOK
<1>2. CASE state # "OPEN" /\ failures + 1 >= FailureThreshold
  BY <1>1, <1>2, ThresholdAssumption, DurationAssumption
     DEF RecordFailure, StateMatchesCount, BreakerState
<1>3. CASE state = "OPEN"
  BY <1>1, <1>3, ThresholdAssumption DEF RecordFailure, StateMatchesCount, Counts, BreakerState
<1>4. CASE state # "OPEN" /\ ~(failures + 1 >= FailureThreshold)
  BY <1>1, <1>4, ThresholdAssumption DEF RecordFailure, StateMatchesCount, Counts, BreakerState
<1> QED
  BY <1>2, <1>3, <1>4

\* A success recorded in any state.
LEMMA SuccessCounts ==
  ASSUME RecordSuccess
  PROVE  /\ state' \in BreakerState /\ failures' = 0 /\ left' \in 0..OpenDuration
         /\ StateMatchesCount'
BY ThresholdAssumption, DurationAssumption DEF RecordSuccess, StateMatchesCount, BreakerState

\* Calls that start or are refused, however many in one turn.
LEMMA ExecuteCounts ==
  ASSUME Counts, NEW S, ExecuteAll(S)
  PROVE  Counts'
<1>1. /\ state' = AfterCooldown
      /\ call' = IF state' = "OPEN" THEN call
                 ELSE [d \in Callers |-> IF d \in S THEN state' ELSE call[d]]
      /\ UNCHANGED <<failures, left, errors, throws>>
  BY DEF ExecuteAll
<1>2. state' \in BreakerState /\ (state' = "CLOSED" <=> state = "CLOSED")
  BY <1>1 DEF AfterCooldown, Counts, BreakerTypeOK, BreakerState
<1>3. call' \in [Callers -> {"idle", "CLOSED", "HALF_OPEN"}]
  BY <1>1, <1>2 DEF Counts, BreakerTypeOK, BreakerState
<1> QED
  BY <1>1, <1>2, <1>3 DEF Counts, BreakerTypeOK, StateMatchesCount

\* Every step keeps the count and the state together.
LEMMA BreakerNextCounts == Counts /\ [BreakerNext]_breakerVars => Counts'
<1> SUFFICES ASSUME Counts, [BreakerNext]_breakerVars PROVE Counts'
  OBVIOUS
<1>1. ASSUME NEW c \in Callers, Execute(c) PROVE Counts'
  BY <1>1, ExecuteCounts DEF Execute
<1>2. ASSUME NEW c \in Callers, Succeed(c) PROVE Counts'
  <2>1. call' \in [Callers -> {"idle", "CLOSED", "HALF_OPEN"}]
    BY <1>2 DEF Succeed, Done, Counts, BreakerTypeOK
  <2>2. errors' = 0 /\ throws' = throws /\ RecordSuccess
    BY <1>2 DEF Succeed
  <2> QED
    BY <2>1, <2>2, SuccessCounts DEF Counts, BreakerTypeOK
<1>3. ASSUME NEW c \in Callers, Err(c) PROVE Counts'
  <2>1. call' \in [Callers -> {"idle", "CLOSED", "HALF_OPEN"}]
    BY <1>3 DEF Err, Done, Counts, BreakerTypeOK
  <2>2. errors' \in Nat /\ throws' = throws
    BY <1>3 DEF Err, Counts, BreakerTypeOK
  <2>3. CASE throws
    <3>1. RecordFailure
      BY <1>3, <2>3 DEF Err
    <3> QED
      BY <2>1, <2>2, <2>3, <3>1, FailureCounts DEF Counts, BreakerTypeOK
  <2>4. CASE ~throws
    <3>1. RecordSuccess
      BY <1>3, <2>4 DEF Err
    <3> QED
      BY <2>1, <2>2, <3>1, SuccessCounts DEF Counts, BreakerTypeOK
  <2> QED
    BY <2>3, <2>4
<1>4. CASE Cool
  BY <1>4, DurationAssumption DEF Cool, Counts, BreakerTypeOK, StateMatchesCount
<1>5. CASE UNCHANGED breakerVars
  BY <1>5 DEF breakerVars, Counts, BreakerTypeOK, StateMatchesCount
<1> QED
  BY <1>1, <1>2, <1>3, <1>4, <1>5 DEF BreakerNext

\* The count and the state agree in every behaviour.
THEOREM CountsInvariant == BreakerSpec => []Counts
BY BreakerInitCounts, BreakerNextCounts, PTL DEF BreakerSpec

\* Answers of calls let through in earlier states never bring the state and the
\* number of consecutive failures apart.
THEOREM StateFollowsCount == BreakerSpec => []StateMatchesCount
<1>1. Counts => StateMatchesCount
  BY DEF Counts
<1> QED
  BY <1>1, CountsInvariant, PTL

\* The breaker around RevenueCatRestClient.getSubscriber never opens: the client
\* returns null where the breaker waits for a rejection.
THEOREM Inert == BreakerSpec => []InertAroundNull
<1>1. Counts => InertAroundNull
  BY ThresholdAssumption DEF Counts, StateMatchesCount, InertAroundNull
<1> QED
  BY <1>1, CountsInvariant, PTL

\* One failed probe trips the breaker again for a whole cooldown, whatever the
\* threshold: the count is not reset on the way to HALF_OPEN.
THEOREM ProbeReopens == BreakerSpec => FailedProbeReopens
<1>1. ASSUME Counts, [BreakerNext]_breakerVars, NEW c \in Callers,
             call[c] = "HALF_OPEN", failures' > failures, call'[c] = "idle",
             state = "HALF_OPEN"
      PROVE  state' = "OPEN" /\ left' = OpenDuration
  <2>1. failures \in Nat /\ failures >= FailureThreshold
    BY <1>1, ThresholdAssumption DEF Counts, BreakerTypeOK, StateMatchesCount
  <2>2. failures' # failures /\ failures' # 0
    BY <1>1, <2>1
  <2>3. PICK d \in Callers : Err(d)
    BY <1>1, <2>2 DEF BreakerNext, breakerVars, Execute, ExecuteAll, Succeed, RecordSuccess, Cool
  <2>4. RecordFailure
    BY <2>2, <2>3 DEF Err, RecordSuccess
  <2> QED
    BY <1>1, <2>1, <2>4, ThresholdAssumption DEF RecordFailure
<1>2. Counts /\ [BreakerNext]_breakerVars =>
        [\A c \in Callers :
           call[c] = "HALF_OPEN" /\ failures' > failures /\ call'[c] = "idle" /\ state = "HALF_OPEN"
           => state' = "OPEN" /\ left' = OpenDuration]_breakerVars
  BY <1>1
<1> QED
  BY <1>2, CountsInvariant, PTL DEF BreakerSpec, FailedProbeReopens

=============================================================================
