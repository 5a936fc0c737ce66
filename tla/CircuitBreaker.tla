--------------------------- MODULE CircuitBreaker ---------------------------
(***************************************************************************)
(* common/utils/circuit-breaker.ts, with the calls that run through it     *)
(* concurrently.  PremiumGuard and the reconciliation cron each own one    *)
(* breaker around RevenueCatRestClient.getSubscriber.                      *)
(*                                                                         *)
(* Time is what is left of the cooldown.  A call that has started is not   *)
(* told when the breaker trips, so its answer may arrive in any state.     *)
(***************************************************************************)
EXTENDS Integers, FiniteSets

CONSTANTS
    Callers,            \* calls that may be in flight
    FailureThreshold,   \* consecutive failures before opening
    OpenDuration,       \* cooldown, in ticks
    MaxFailures,        \* bound of the failure counter in the model
    ClientModes         \* does the wrapped function reject on an error (TRUE),
                        \* as the class expects of it, or return null (FALSE),
                        \* as the client of both callers in this code does?

VARIABLES
    state,      \* CLOSED, OPEN or HALF_OPEN
    failures,   \* consecutiveFailures
    left,       \* ticks until Date.now() - openedAt >= openDurationMs
    call,       \* state in which each running call was let through, or "idle"
    errors,     \* consecutive errors of the service behind the calls
    throws      \* the mode of the wrapped function, fixed

breakerVars == <<state, failures, left, call, errors, throws>>

BreakerState == {"CLOSED", "OPEN", "HALF_OPEN"}

ASSUME ThresholdAssumption == FailureThreshold \in Nat \ {0}
ASSUME DurationAssumption == OpenDuration \in Nat
ASSUME MaxFailuresAssumption == MaxFailures \in Nat
ASSUME ClientAssumption == ClientModes \subseteq BOOLEAN

BreakerInit ==
    /\ state = "CLOSED" /\ failures = 0 /\ left = 0 /\ errors = 0
    /\ call = [c \in Callers |-> "idle"]
    /\ throws \in ClientModes

-----------------------------------------------------------------------------

AfterCooldownFaulty == state

\* transitionIfNeeded.
AfterCooldown == IF state = "OPEN" /\ left = 0 THEN "HALF_OPEN" ELSE state

\* Calls of execute made in one turn of the event loop: all start, or all
\* return null at once.
ExecuteAll(S) ==
    /\ \A c \in S : call[c] = "idle"
    /\ state' = AfterCooldown
    /\ call' = IF state' = "OPEN" THEN call
               ELSE [c \in Callers |-> IF c \in S THEN state' ELSE call[c]]
    /\ UNCHANGED <<failures, left, errors, throws>>

\* One call, as the class offers it: execute itself decides whether it starts.
Execute(c) == ExecuteAll({c})

RecordSuccess ==
    state' = "CLOSED" /\ failures' = 0 /\ left' = 0

RecordFailureFaulty ==
    /\ failures' = failures + 1
    /\ IF state # "OPEN" /\ failures + 1 = FailureThreshold
       THEN state' = "OPEN" /\ left' = OpenDuration
       ELSE UNCHANGED <<state, left>>

\* A failure while OPEN only counts; in any other state the threshold decides.
RecordFailure ==
    /\ failures' = failures + 1
    /\ IF state # "OPEN" /\ failures + 1 >= FailureThreshold
       THEN state' = "OPEN" /\ left' = OpenDuration
       ELSE UNCHANGED <<state, left>>

Done(c) == call[c] # "idle" /\ call' = [call EXCEPT ![c] = "idle"]

Succeed(c) == Done(c) /\ RecordSuccess /\ errors' = 0 /\ UNCHANGED throws

ErrFaulty(c) ==
    /\ failures < MaxFailures /\ errors < MaxFailures
    /\ Done(c)
    /\ errors' = errors + 1
    /\ RecordFailure
    /\ UNCHANGED throws

\* The service errs.  A function that rejects makes it a failure of the breaker,
\* which is the class by itself; one that returns null, as getSubscriber always
\* does ("Never throws"), a success.
Err(c) ==
    /\ failures < MaxFailures /\ errors < MaxFailures
    /\ Done(c)
    /\ errors' = errors + 1
    /\ IF throws THEN RecordFailure ELSE RecordSuccess
    /\ UNCHANGED throws

Cool ==
    /\ left > 0
    /\ left' = left - 1
    /\ UNCHANGED <<state, failures, call, errors, throws>>

BreakerNext ==
    \/ \E c \in Callers : Execute(c) \/ Succeed(c) \/ Err(c)
    \/ Cool

BreakerSpec == BreakerInit /\ [][BreakerNext]_breakerVars

\* Requests keep coming, calls end (the client has a timeout), time passes.
BreakerFairSpec ==
    /\ BreakerSpec
    /\ WF_breakerVars(\E c \in Callers : Execute(c))
    /\ \A c \in Callers : WF_breakerVars(Succeed(c) \/ Err(c))
    /\ WF_breakerVars(Cool)

-----------------------------------------------------------------------------

BreakerTypeOK ==
    /\ state \in BreakerState
    /\ failures \in Nat /\ errors \in Nat
    /\ left \in 0..OpenDuration
    /\ call \in [Callers -> {"idle", "CLOSED", "HALF_OPEN"}]
    /\ throws \in ClientModes

\* The breaker is CLOSED exactly while fewer failures than the threshold have
\* come in a row, whichever calls, old or new, report them.
StateMatchesCount == state = "CLOSED" <=> failures < FailureThreshold

\* One failed probe is enough: a call let through HALF_OPEN that fails never
\* leaves the breaker letting calls through, unless another call has succeeded.
FailedProbeReopens ==
    [][\A c \in Callers :
         call[c] = "HALF_OPEN" /\ failures' > failures /\ call'[c] = "idle" /\ state = "HALF_OPEN"
         => state' = "OPEN" /\ left' = OpenDuration]_breakerVars

\* Tripped breakers let a probe through after the cooldown.
Recovers == state = "OPEN" ~> state # "OPEN"

\* Around a client that returns null on an error, as getSubscriber does, the
\* breaker is inert: no outage of RevenueCat ever opens it.
InertAroundNull == ~throws => state = "CLOSED"

=============================================================================
