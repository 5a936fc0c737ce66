------------------------------ MODULE Dialogue ------------------------------
(***************************************************************************)
(* What ScenarioChat promises of a roleplay.  To whoever looks at the      *)
(* conversations, a turn is one step that stores messages, counts them and *)
(* decides whether the conversation is over; words are chosen once; and    *)
(* the end is offered to personalization once, afterwards.  Requests,      *)
(* entities in memory and the two statements of a save have no place here. *)
(* A conversation may be spoiled, by requests that share it or one that    *)
(* dies half way; of what becomes of it then, little is promised, and of   *)
(* the others nothing less than before.                                    *)
(***************************************************************************)
EXTENDS Integers

CONSTANTS
    Picks,          \* selections of vocabulary
    Null,           \* none chosen yet
    MaxTurns        \* turns after which a conversation is over

VARIABLES
    rows,       \* count, status and vocab of each conversation
    messages,   \* of each, how many messages there are
    offers,     \* of each, how often its end was offered to personalization
    spoiled     \* conversations that requests shared, or one left half saved

vars == <<rows, messages, offers, spoiled>>

Fresh == [count |-> 0, status |-> "CHATTING", vocab |-> Null]

Open == {c \in DOMAIN rows : rows[c].status = "CHATTING"}

\* f, and v for c.
With(f, c, v) == [d \in DOMAIN f \cup {c} |-> IF d = c THEN v ELSE f[d]]

Init == rows = << >> /\ messages = << >> /\ offers = << >> /\ spoiled = {}

\* Not while there is one to go on with.
Start(c) ==
    /\ c \notin DOMAIN rows /\ Open = {}
    /\ rows' = With(rows, c, Fresh)
    /\ messages' = With(messages, c, 0)
    /\ offers' = With(offers, c, 0)
    /\ UNCHANGED spoiled

\* A conversation that is under way, and of which something is promised.
Underway(c) == c \in Open \ spoiled

\* The words of c are chosen now, unless they are already.
Words(c) == IF rows[c].vocab = Null THEN Picks ELSE {rows[c].vocab}

Inject(c) ==
    /\ Underway(c)
    /\ \E p \in Words(c) : rows' = [rows EXCEPT ![c].vocab = p]
    /\ UNCHANGED <<messages, offers, spoiled>>

\* n messages more; end: the model says that this is the end.
Turn(c, n, end) ==
    /\ Underway(c)
    /\ LET total == rows[c].count + n
           over == end \/ total \div 2 >= MaxTurns
           status == IF over THEN "DONE" ELSE "CHATTING"
       IN  /\ \E p \in Words(c) :
                 rows' = [rows EXCEPT ![c] = [count |-> total, status |-> status, vocab |-> p]]
           /\ messages' = [messages EXCEPT ![c] = total]
    /\ UNCHANGED <<offers, spoiled>>

Offer(c) ==
    /\ c \in DOMAIN rows \ (Open \cup spoiled)
    /\ offers[c] = 0 /\ offers' = [offers EXCEPT ![c] = 1]
    /\ UNCHANGED <<rows, messages, spoiled>>

\* The messages of a turn that was under way come to light uncounted.
Spoil(c, n) ==
    /\ c \notin spoiled /\ spoiled' = spoiled \cup {c}
    /\ messages' = [messages EXCEPT ![c] = messages[c] + n]
    /\ UNCHANGED <<rows, offers>>

\* It loses no message and counts none that is not there, and it is not opened
\* again beside another.
Suffer(c) ==
    /\ c \in spoiled
    /\ rows' = [rows EXCEPT ![c] = rows'[c]]
    /\ messages' = [messages EXCEPT ![c] = messages'[c]] /\ messages'[c] >= messages[c]
    /\ offers' = [offers EXCEPT ![c] = offers'[c]] /\ offers'[c] >= offers[c]
    /\ rows'[c].count <= messages'[c]
    /\ rows'[c].status = "CHATTING" => c \in Open \/ Open = {}
    /\ UNCHANGED spoiled

Next == \E c \in DOMAIN rows' :
    \/ Suffer(c) \/ Inject(c) \/ Start(c) \/ Offer(c)
    \/ \E n \in 0..2 : Spoil(c, n) \/ \E end \in BOOLEAN : Turn(c, n, end)

Spec == Init /\ [][Next]_vars

=============================================================================
