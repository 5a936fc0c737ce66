------------------------------ MODULE Handlers ------------------------------
(***************************************************************************)
(* HTTP requests at work.  A slot serves one request at a time, and every  *)
(* await of its handler is a step of its own: between two of them the      *)
(* handlers in the other slots run.                                        *)
(***************************************************************************)
EXTENDS Naturals

CONSTANTS
    Slots,      \* requests that can be at work together
    Worlds      \* what clients may do: records with ops, requests and faults

\* ops: the endpoints called; requests: bound on the calls; faults: a query, a
\* model or the process may fail.  Further fields hold rows that exist at the start.
ASSUME WorldsAssumption ==
    \A w \in Worlds : w.requests \in Nat /\ w.faults \in BOOLEAN

VARIABLES
    world,      \* the one of this behaviour
    at,         \* the await each slot is at
    arg,        \* what its handler holds in local variables
    begun       \* requests so far

handlerVars == <<world, at, arg, begun>>

Nothing == [op |-> "none"]

HandlersInit ==
    /\ world \in Worlds
    /\ at = [s \in Slots |-> "idle"]
    /\ arg = [s \in Slots |-> Nothing]
    /\ begun = 0

Offered(op) == op \in world.ops /\ begun < world.requests

\* A request whose first await is `step`, and one that is over in a statement.
Begin(s, op, step, a) ==
    /\ at[s] = "idle" /\ Offered(op)
    /\ begun' = begun + 1
    /\ at' = [at EXCEPT ![s] = step]
    /\ arg' = [arg EXCEPT ![s] = a]
    /\ UNCHANGED world
Instant(op) ==
    /\ Offered(op)
    /\ begun' = begun + 1
    /\ UNCHANGED <<world, at, arg>>

Go(s, step, a) ==
    /\ at' = [at EXCEPT ![s] = step]
    /\ arg' = [arg EXCEPT ![s] = a]
    /\ UNCHANGED <<world, begun>>
End(s) == Go(s, "idle", Nothing)

\* The process is restarted: no handler survives.
Restart ==
    /\ world.faults
    /\ at' = [s \in Slots |-> "idle"]
    /\ arg' = [s \in Slots |-> Nothing]
    /\ UNCHANGED <<world, begun>>

=============================================================================
