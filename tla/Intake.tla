------------------------------- MODULE Intake -------------------------------
(***************************************************************************)
(* Conversations with a model: the turns of IntakeChatEngine, onboarding   *)
(* (chat, complete, transcript) and the tutor of LearningAgentService.     *)
(* The messages of a turn are rows of their own, counted afterwards.       *)
(***************************************************************************)
EXTENDS Handlers, Integers, Sequences, FiniteSetsExt

CONSTANTS
    Callers,    \* users; 0 stands for nobody
    Targets,    \* languages a session can be about
    MaxTurns,   \* of an intake conversation
    MaxConvs    \* bound on the conversations

VARIABLES
    convs,      \* rows of ai_conversations, with the number of their messages, the
                \* batch of scenarios stored and the one its last caller was given
    batches,    \* batches of scenarios the model has made
    broken,     \* conversations in which a turn was cut short
    contested   \* those two requests completed at the same time

intakeVars == <<convs, batches, broken, contested>>

Conv(l) == [kind |-> "anonymous", owner |-> 0, lang |-> l, count |-> 0, said |-> 0, batch |-> 0, given |-> 0]

\* The conversations of a world: nobody cut a turn of theirs short, and no two of
\* their turns overlapped.
ASSUME IntakeAssumption ==
    /\ MaxTurns \in Nat \ {0} /\ IsFiniteSet(Slots) /\ Slots # {}
    /\ \A w \in Worlds :
         /\ w.convs \in Seq({w.convs[c] : c \in DOMAIN w.convs})
         /\ \A c \in DOMAIN w.convs :
              /\ DOMAIN w.convs[c] = DOMAIN Conv(w.convs[c].lang)
              /\ {w.convs[c].count, w.convs[c].batch} \subseteq Nat /\ w.convs[c].given = w.convs[c].batch
              /\ w.convs[c].said = w.convs[c].count /\ w.convs[c].count <= 2 * MaxTurns - 1

IntakeInit ==
    /\ convs = world.convs
    /\ batches = 0
    /\ broken = {} /\ contested = {}

Opening == {s \in Slots : at[s] = "open"}

-----------------------------------------------------------------------------
(* A turn. *)

\* Onboarding: without a conversation the first message opens one.
OnboardingChat(s) ==
    /\ \/ \E l \in Targets :
            /\ Len(convs) + Cardinality(Opening) < MaxConvs
            /\ Begin(s, "onboarding chat", "open",
                     [op |-> "turn", kind |-> "anonymous", lang |-> l, text |-> FALSE])
       \/ \E c \in DOMAIN convs, text \in BOOLEAN :
            Begin(s, "onboarding chat", "turn",
                  [op |-> "turn", kind |-> "anonymous", conv |-> c, text |-> text])
    /\ UNCHANGED intakeVars

\* The language may be unknown or inactive: 400.
OpenSession(s) ==
    /\ at[s] = "open"
    /\ \/ /\ convs' = Append(convs, Conv(arg[s].lang))
          /\ Go(s, "turn", [op |-> "turn", kind |-> arg[s].kind, conv |-> Len(convs'),
                            text |-> arg[s].text])
       \/ End(s) /\ UNCHANGED convs
    /\ UNCHANGED <<batches, broken, contested>>

CurrentTurn(n) == IF n = 0 THEN 1 ELSE (n - 1) \div 2 + 2

AdmittedFaulty(s) ==
    convs[arg[s].conv].kind = arg[s].kind /\ (convs[arg[s].conv].count = 0 \/ arg[s].text)

\* 404 for the wrong type, 400 past the last turn and without a message.
Admitted(s) ==
    LET c == convs[arg[s].conv] IN
    /\ c.kind = arg[s].kind
    /\ CurrentTurn(c.count) <= MaxTurns
    /\ c.count = 0 \/ arg[s].text

\* The row and the history are read, the model answers: no other await matters.
Turn(s) ==
    LET first == convs[arg[s].conv].count = 0 IN
    /\ at[s] = "turn"
    /\ IF Admitted(s)
       THEN Go(s, IF first THEN "reply" ELSE "message",
               [op |-> "turn", conv |-> arg[s].conv, first |-> first])
       ELSE End(s)
    /\ UNCHANGED intakeVars

\* The tutor answers in any conversation of the user, and in those of nobody, at
\* once or chunk by chunk: streamChat writes what chat does.
Tutor(s) ==
    \E c \in DOMAIN convs, u \in Callers :
       /\ Begin(s, "tutor", "tutor", [op |-> "tutor", conv |-> c, user |-> u])
       /\ UNCHANGED intakeVars

MayUse(c, u) == convs[c].owner \in {0, u}

TutorTurn(s) ==
    /\ at[s] = "tutor"
    /\ IF MayUse(arg[s].conv, arg[s].user)
       THEN Go(s, "message", [op |-> "tutor", conv |-> arg[s].conv, first |-> FALSE])
       ELSE End(s)
    /\ UNCHANGED intakeVars

Said(c) == [convs EXCEPT ![c].said = @ + 1]

SaveMessage(s) ==
    /\ \/ at[s] = "message" /\ Go(s, "reply", arg[s])
       \/ at[s] = "reply" /\ Go(s, "count", arg[s])
    /\ convs' = Said(arg[s].conv)
    /\ UNCHANGED <<batches, broken, contested>>

MessagesFaulty(a) == 2

Messages(a) == IF a.first THEN 1 ELSE 2

\* increment: the database adds, whatever the handler read.
CountMessages(s) ==
    /\ at[s] = "count"
    /\ convs' = [convs EXCEPT ![arg[s].conv].count = @ + Messages(arg[s])]
    /\ End(s)
    /\ UNCHANGED <<batches, broken, contested>>

\* Messages a request has stored and not counted yet.
Uncounted(s) ==
    CASE at[s] = "count" -> Messages(arg[s])
      [] at[s] = "reply" -> IF arg[s].first THEN 0 ELSE 1
      [] OTHER -> 0
CutShort(S) == broken' = broken \cup {arg[s].conv : s \in {r \in S : Uncounted(r) > 0}}

-----------------------------------------------------------------------------
(* The end of onboarding, for a user or for nobody. *)

Complete(s) ==
    \E c \in DOMAIN convs, u \in Callers \cup {0} :
       /\ Begin(s, "onboarding complete", "complete", [op |-> "complete", conv |-> c, user |-> u])
       /\ UNCHANGED intakeVars

Completing(c) ==
    {s \in Slots : at[s] \in {"own", "scenarios", "store"} /\ arg[s].conv = c}

AfterOwnerFaulty(s, q, c, b) ==
    Go(s, "scenarios", arg[s]) /\ convs' = q

\* What is stored is given again.
AfterOwner(s, q, c, b) ==
    IF b = 0
    THEN Go(s, "scenarios", arg[s]) /\ convs' = q
    ELSE End(s) /\ convs' = [q EXCEPT ![c].given = b]

FindCompleted(s) ==
    LET c == arg[s].conv
        row == convs[c] IN
    /\ at[s] = "complete"
    /\ \/ /\ row.kind = "anonymous"
          /\ \/ /\ arg[s].user # 0 /\ row.owner = 0
                /\ Go(s, "own", [op |-> "complete", conv |-> c, user |-> arg[s].user, batch |-> row.batch])
                /\ UNCHANGED convs
             \/ ~(arg[s].user # 0 /\ row.owner = 0) /\ AfterOwner(s, convs, c, row.batch)
          /\ contested' = IF Completing(c) = {} THEN contested ELSE contested \cup {c}
       \/ row.kind # "anonymous" /\ End(s) /\ UNCHANGED <<convs, contested>>
    /\ UNCHANGED <<batches, broken>>

\* The update names the row only: the type and the owner are not looked at again.
Own(s) ==
    LET c == arg[s].conv IN
    /\ at[s] = "own"
    /\ AfterOwner(s, [convs EXCEPT ![c].owner = arg[s].user], c, arg[s].batch)
    /\ UNCHANGED <<batches, broken, contested>>

\* Five scenarios, or the parser throws.  Beside a profile that is not structured they
\* are given to the caller and not stored.
MakeScenarios(s) ==
    /\ at[s] = "scenarios"
    /\ \/ Go(s, "store", arg[s]) /\ UNCHANGED <<convs, batches>>
       \/ End(s) /\ UNCHANGED <<convs, batches>>
       \/ /\ End(s)
          /\ batches' = batches + 1
          /\ convs' = [convs EXCEPT ![arg[s].conv].given = batches']
    /\ UNCHANGED <<broken, contested>>

StoreScenarios(s) ==
    LET c == arg[s].conv IN
    /\ at[s] = "store"
    /\ batches' = batches + 1
    /\ convs' = [convs EXCEPT ![c].batch = batches', ![c].given = batches']
    /\ End(s)
    /\ UNCHANGED <<broken, contested>>

-----------------------------------------------------------------------------
(* The transcript: the row first, with its count, then the messages. *)

Transcript(s) ==
    \E c \in DOMAIN convs :
       /\ Begin(s, "transcript", "transcript", [op |-> "transcript", conv |-> c, count |-> convs[c].count])
       /\ UNCHANGED intakeVars

ShowTranscript(s) == at[s] = "transcript" /\ End(s) /\ UNCHANGED intakeVars

\* The model or a query fails: 500, and what is stored stays.
IntakeFails(s) ==
    /\ world.faults
    /\ at[s] \in {"open", "turn", "tutor", "message", "reply", "count",
                  "complete", "own", "scenarios", "store", "transcript"}
    /\ End(s)
    /\ CutShort({s})
    /\ UNCHANGED <<convs, batches, contested>>

IntakeRestart ==
    /\ CutShort(Slots)
    /\ UNCHANGED <<convs, batches, contested>>

TurnStep(s) == Turn(s) \/ SaveMessage(s) \/ CountMessages(s) \/ IntakeFails(s)

IntakeStep(s) ==
    \/ OnboardingChat(s) \/ OpenSession(s) \/ Tutor(s) \/ TutorTurn(s) \/ TurnStep(s)
    \/ Complete(s) \/ FindCompleted(s) \/ Own(s) \/ MakeScenarios(s) \/ StoreScenarios(s)
    \/ Transcript(s) \/ ShowTranscript(s)

-----------------------------------------------------------------------------

\* The turns of c that have stored the user's message, and the model's, and not
\* counted it yet; the first turn of a conversation has no message of the user.
Spoken(c) == {s \in Slots : at[s] \in {"reply", "count"} /\ arg[s].conv = c /\ ~arg[s].first}
Answered(c) == {s \in Slots : at[s] = "count" /\ arg[s].conv = c}

\* Unless a turn was cut short, the count of a conversation and what the turns
\* at work have yet to add are its messages, however many turns overlap; and no
\* transcript has fewer messages than the turn number beside it stands for.
TurnsCounted ==
    /\ \A c \in DOMAIN convs \ broken :
         convs[c].said = convs[c].count + Cardinality(Spoken(c)) + Cardinality(Answered(c))
    /\ \A s \in Slots : at[s] = "transcript" => arg[s].count <= convs[arg[s].conv].said

\* The cap is read before the model is asked and counted after it answered, so a
\* conversation outgrows it, by two messages for each turn at work at most.
TranscriptBounded ==
    "tutor" \notin world.ops =>
        \A c \in DOMAIN convs \ broken : convs[c].said <= 2 * MaxTurns - 2 + 2 * Cardinality(Slots)

\* Once a session has scenarios stored, these are the ones it keeps and every later
\* caller is given, unless two callers completed it at the same time.  Callers before,
\* whose profile was not structured, were given others.
CompleteStable ==
    [][\A c \in DOMAIN convs \ contested : convs[c].batch # 0 =>
          convs'[c].batch = convs[c].batch /\ convs'[c].given = convs[c].batch]_intakeVars

=============================================================================
