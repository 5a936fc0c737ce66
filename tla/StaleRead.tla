----------------------------- MODULE StaleRead ------------------------------
(***************************************************************************)
(* What a cache with a time to live promises: whoever asks for the value   *)
(* of a key is told one it had at some moment no earlier than Window       *)
(* before the question.  Nothing is said of how the cache is filled.       *)
(***************************************************************************)
EXTENDS Integers

CONSTANTS Readers, Keys, Values, Window

VARIABLES
    reg,        \* the values themselves
    clock,
    held,       \* when each key last had each value
    asked       \* of each reader the question, if any: the key, since when, what was told

vars == <<reg, clock, held, asked>>

Never == 0 - Window - 1
Question(k, t, v) == {[key |-> k, since |-> t, told |-> v]}

Init ==
    /\ reg \in [Keys -> Values]
    /\ clock = 0
    /\ held = [k \in Keys |-> [v \in Values |-> IF reg[k] = v THEN 0 ELSE Never]]
    /\ asked = [r \in Readers |-> {}]

Write(k, v) ==
    /\ reg' = [reg EXCEPT ![k] = v]
    /\ held' = [held EXCEPT ![k][v] = clock]
    /\ UNCHANGED <<clock, asked>>

Tick ==
    /\ clock' = clock + 1
    /\ held' = [k \in Keys |-> [held[k] EXCEPT ![reg[k]] = clock']]
    /\ UNCHANGED <<reg, asked>>

\* Several readers may be gone at once.
Leave(R) ==
    /\ asked' = [r \in Readers |-> IF r \in R THEN {} ELSE asked[r]]
    /\ UNCHANGED <<reg, clock, held>>

Ask(r, k) ==
    /\ asked' = [asked EXCEPT ![r] = Question(k, clock, {})]
    /\ UNCHANGED <<reg, clock, held>>

Answer(r, v) ==
    /\ \E q \in asked[r] :
         /\ q.told = {} /\ held[q.key][v] >= q.since - Window
         /\ asked' = [asked EXCEPT ![r] = Question(q.key, q.since, {v})]
    /\ UNCHANGED <<reg, clock, held>>

Next ==
    \/ \E k \in Keys, v \in Values : Write(k, v)
    \/ Tick
    \/ \E R \in SUBSET Readers : Leave(R)
    \/ \E r \in Readers, k \in Keys : Ask(r, k)
    \/ \E r \in Readers, v \in Values : Answer(r, v)

Spec == Init /\ [][Next]_vars

=============================================================================
