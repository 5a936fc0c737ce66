---------------------------- MODULE ScenarioChat ----------------------------
(***************************************************************************)
(* ScenarioChatService.chat: turns of a roleplay, for one user and one     *)
(* scenario.  A request loads the conversation row, waits for the model,   *)
(* stores the messages and then saves the row it loaded.                   *)
(*                                                                         *)
(* Repository.save(entity) is two statements: it selects the row again,    *)
(* and updates the columns in which the entity differs from it.  Nothing   *)
(* is locked, neither between the two nor across the call of the model.    *)
(***************************************************************************)
EXTENDS Integers, Sequences, FiniteSets, FiniteSetsExt

CONSTANTS
    Requests,       \* HTTP requests in flight
    Picks,          \* selections of vocabulary, in place of lists of ids
    NoPick,         \* the empty selection, stored when selecting has failed
    Null,           \* injectedVocabIds IS NULL
    MaxTurns,       \* MAX_TURNS
    MaxConvs,       \* bound on conversations
    MaxMessages     \* bound on messages and offers: no model call beyond it

ASSUME TurnsAssumption == MaxTurns \in Nat \ {0}
ASSUME ChatBoundsAssumption == MaxConvs \in Nat /\ MaxMessages \in Nat
ASSUME PicksAssumption == NoPick \in Picks /\ Null \notin Picks

VARIABLES
    convs,      \* rows of ai_conversations, in the order they were created
    said,       \* of each, how many messages are stored
    offers,     \* of each, how often its end called maybeTrigger
    step,       \* step of each request
    conv,       \* the conversation it works on, 0 before it has one
    row,        \* the entity it has loaded and changes in memory
    dirty,      \* the columns its save has found to differ
    turn,       \* the message of the user and the answer of the model
    disturbed   \* conversations that requests shared, or one left half saved

chatVars == <<convs, said, offers, step, conv, row, dirty, turn, disturbed>>

-----------------------------------------------------------------------------

Columns == {"count", "status", "vocab"}
Row == [count : Nat, status : {"CHATTING", "DONE"}, vocab : Picks \cup {Null}]
NewRow == [count |-> 0, status |-> "CHATTING", vocab |-> Null]

\* speaks: dto.message; text: the reply is not empty; end: is_end in the reply.
Turn == [speaks : BOOLEAN, text : BOOLEAN, end : BOOLEAN]
NoTurn == [speaks |-> FALSE, text |-> FALSE, end |-> FALSE]

Ids == DOMAIN convs
Active == {c \in Ids : convs[c].status = "CHATTING"}
Holders(c) == {r \in Requests : conv[r] = c}

ChatInit ==
    /\ convs = << >> /\ said = << >> /\ offers = << >>
    /\ step = [r \in Requests |-> "idle"]
    /\ conv = [r \in Requests |-> 0]
    /\ row = [r \in Requests |-> NewRow]
    /\ dirty = [r \in Requests |-> {}]
    /\ turn = [r \in Requests |-> NoTurn]
    /\ disturbed = {}

-----------------------------------------------------------------------------
(* Which conversation. *)

GoTo(r, s) == step' = [step EXCEPT ![r] = s]

AfterLoadFaulty(loaded) == "vocab"

\* The words to inject are selected once per conversation.
AfterLoad(loaded) == IF loaded.vocab = Null THEN "vocab" ELSE "model"

HoldFaulty(r, c) ==
    /\ GoTo(r, AfterLoad(convs[c]))
    /\ conv' = [conv EXCEPT ![r] = c]
    /\ row' = [row EXCEPT ![r] = convs[c]]
    /\ disturbed' = IF Holders(c) = {} THEN disturbed ELSE disturbed \cup {c}
    /\ UNCHANGED <<convs, said, offers, dirty, turn>>

\* Go on with c, unless it is DONE: then the answer is its transcript.
Hold(r, c) ==
    \/ /\ convs[c].status = "DONE"
       /\ GoTo(r, "idle")
       /\ UNCHANGED <<convs, said, offers, conv, row, dirty, turn, disturbed>>
    \/ /\ convs[c].status # "DONE"
       /\ GoTo(r, AfterLoad(convs[c]))
       /\ conv' = [conv EXCEPT ![r] = c]
       /\ row' = [row EXCEPT ![r] = convs[c]]
       /\ disturbed' = IF Holders(c) = {} THEN disturbed ELSE disturbed \cup {c}
       /\ UNCHANGED <<convs, said, offers, dirty, turn>>

Moves(r, s) ==
    /\ GoTo(r, s)
    /\ UNCHANGED <<convs, said, offers, conv, row, dirty, turn, disturbed>>

\* The conversation the request names, else the latest, else find or create one.
Load(r) ==
    /\ step[r] = "idle"
    /\ \/ \E c \in Ids : Hold(r, c)
       \/ convs = << >> /\ Moves(r, "find")

\* The latest conversation that is not DONE.
HoldActive(r) == \E c \in Active : (\A d \in Active : d <= c) /\ Hold(r, c)

FindActive(r) ==
    /\ step[r] = "find"
    /\ \/ HoldActive(r)
       \/ Active = {} /\ Moves(r, "insert")

\* A partial unique index admits one CHATTING conversation.
Create(r) ==
    /\ step[r] = "insert"
    /\ \/ Active # {} /\ Moves(r, "requery")
       \/ /\ Active = {} /\ Len(convs) < MaxConvs
          /\ convs' = Append(convs, NewRow)
          /\ said' = Append(said, 0)
          /\ offers' = Append(offers, 0)
          /\ GoTo(r, "vocab")
          /\ conv' = [conv EXCEPT ![r] = Len(convs')]
          /\ row' = [row EXCEPT ![r] = NewRow]
          /\ UNCHANGED <<dirty, turn, disturbed>>

\* After a unique violation: the winner's conversation, if it is not DONE yet.
Requery(r) ==
    /\ step[r] = "requery"
    /\ \/ HoldActive(r)
       \/ Active = {} /\ Moves(r, "idle")

-----------------------------------------------------------------------------
(* Saving the entity. *)

Differing(c, entity) == {f \in Columns : entity[f] # convs[c][f]}
Merged(c, entity, cols) == [f \in Columns |-> IF f \in cols THEN entity[f] ELSE convs[c][f]]

\* First statement of save: compare with the row as it is now.
Select(r, entity, s) ==
    /\ row' = [row EXCEPT ![r] = entity]
    /\ dirty' = [dirty EXCEPT ![r] = Differing(conv[r], entity)]
    /\ GoTo(r, s)
    /\ UNCHANGED <<convs, said, offers, conv, disturbed>>

\* The update would make a second CHATTING conversation.
Conflict(r) ==
    /\ "status" \in dirty[r] /\ row[r].status = "CHATTING"
    /\ Active \ {conv[r]} # {}

\* Second statement.
Write(r, s) ==
    /\ ~Conflict(r)
    /\ convs' = [convs EXCEPT ![conv[r]] = Merged(conv[r], row[r], dirty[r])]
    /\ dirty' = [dirty EXCEPT ![r] = {}]
    /\ GoTo(r, s)
    /\ UNCHANGED <<said, offers, conv, row, turn, disturbed>>

-----------------------------------------------------------------------------
(* A turn. *)

\* resolveInjectedVocabulary, with the row saved as a whole.
SelectVocabulary(r) ==
    /\ step[r] = "vocab"
    /\ \E p \in Picks : Select(r, [row[r] EXCEPT !.vocab = p], "vocab write")
    /\ UNCHANGED turn
WriteVocabulary(r) == step[r] = "vocab write" /\ Write(r, "model")

\* Whatever fails there, an empty selection is saved instead, or not even that.
SaveNoVocabulary(r) ==
    /\ step[r] \in {"vocab", "vocab write"}
    /\ Select(r, [row[r] EXCEPT !.vocab = NoPick], "empty write")
    /\ UNCHANGED turn
WriteNoVocabulary(r) ==
    /\ step[r] = "empty write"
    /\ Write(r, "model") \/ Moves(r, "model")

\* What has been asked of the model so far.
Spent == MapThenSumSet(LAMBDA c : said[c] + offers[c], Ids)

\* What there is to store decides the next step.
AfterModel(t) == IF t.speaks THEN "user" ELSE IF t.text THEN "reply" ELSE "update"

AskModel(r) ==
    /\ step[r] = "model"
    /\ Spent <= MaxMessages
    /\ \E t \in Turn :
         /\ turn' = [turn EXCEPT ![r] = t]
         /\ GoTo(r, AfterModel(t))
    /\ UNCHANGED <<convs, said, offers, conv, row, dirty, disturbed>>

SaveUserMessage(r) ==
    /\ step[r] = "user"
    /\ said' = [said EXCEPT ![conv[r]] = @ + 1]
    /\ GoTo(r, IF turn[r].text THEN "reply" ELSE "update")
    /\ UNCHANGED <<convs, offers, conv, row, dirty, turn, disturbed>>

SaveReply(r) ==
    /\ step[r] = "reply"
    /\ said' = [said EXCEPT ![conv[r]] = @ + 1]
    /\ GoTo(r, "update")
    /\ UNCHANGED <<convs, offers, conv, row, dirty, turn, disturbed>>

DeltaFaulty(t) == 2

Delta(t) == (IF t.speaks THEN 1 ELSE 0) + (IF t.text THEN 1 ELSE 0)

StatusFaulty(t, count) == IF t.end \/ count \div 2 > MaxTurns THEN "DONE" ELSE "CHATTING"

\* The model says it is the end, or the turns are used up.
Status(t, count) == IF t.end \/ count \div 2 >= MaxTurns THEN "DONE" ELSE "CHATTING"

SelectConversation(r) ==
    /\ step[r] = "update"
    /\ LET count == row[r].count + Delta(turn[r]) IN
       Select(r, [row[r] EXCEPT !.count = count, !.status = Status(turn[r], count)], "write")
    /\ turn' = [turn EXCEPT ![r] = NoTurn]
WriteConversation(r) == step[r] = "write" /\ Write(r, "after")

Leave(r) ==
    /\ GoTo(r, "idle")
    /\ conv' = [conv EXCEPT ![r] = 0]
    /\ row' = [row EXCEPT ![r] = NewRow]
    /\ dirty' = [dirty EXCEPT ![r] = {}]
    /\ turn' = [turn EXCEPT ![r] = NoTurn]

\* Fire and forget: offer personalization at the end of the conversation.
Finish(r) ==
    /\ step[r] = "after"
    /\ offers' = IF row[r].status = "DONE" THEN [offers EXCEPT ![conv[r]] = @ + 1] ELSE offers
    /\ Leave(r)
    /\ UNCHANGED <<convs, said, disturbed>>

HalfSaved(r) == step[r] \in {"reply", "update", "write"}

\* The model, the database or the process fails: what has been stored stays.
Abort(r) ==
    /\ step[r] # "idle"
    /\ Leave(r)
    /\ disturbed' = IF HalfSaved(r) THEN disturbed \cup {conv[r]} ELSE disturbed
    /\ UNCHANGED <<convs, said, offers>>

Serve(r) ==
    \/ Load(r) \/ FindActive(r) \/ Create(r) \/ Requery(r)
    \/ SelectVocabulary(r) \/ WriteVocabulary(r)
    \/ SaveNoVocabulary(r) \/ WriteNoVocabulary(r)
    \/ AskModel(r) \/ SaveUserMessage(r) \/ SaveReply(r)
    \/ SelectConversation(r) \/ WriteConversation(r) \/ Finish(r)

ChatNext == \E r \in Requests : Serve(r) \/ Abort(r)

ChatSpec == ChatInit /\ [][ChatNext]_chatVars

\* The same with nothing failing.
UnfailingSpec == ChatInit /\ [][\E r \in Requests : Serve(r)]_chatVars

-----------------------------------------------------------------------------

Seeking == {"find", "insert", "requery"}
Working == {"vocab", "vocab write", "empty write", "model", "user", "reply", "update", "write",
            "after"}

ChatTypeOK ==
    /\ convs \in Seq(Row)
    /\ said \in Seq(Nat) /\ Len(said) = Len(convs)
    /\ offers \in Seq(Nat) /\ Len(offers) = Len(convs)
    /\ step \in [Requests -> {"idle"} \cup Seeking \cup Working]
    /\ conv \in [Requests -> Nat]
    /\ \A r \in Requests : IF step[r] \in Working THEN conv[r] \in Ids ELSE conv[r] = 0
    /\ row \in [Requests -> Row]
    /\ dirty \in [Requests -> SUBSET Columns]
    /\ turn \in [Requests -> Turn]
    /\ disturbed \subseteq Ids

\* messageCount never runs ahead of the messages there are, whatever requests
\* overlap, overwrite each other's row or die half way.
CountBacked == \A c \in Ids : convs[c].count <= said[c]

Saving(c) == \E r \in Holders(c) : step[r] \in {"reply", "update", "write"}

\* Where no two requests ever shared a conversation and none died half way, the
\* count is exact, the turn cap closes the conversation, and its transcript
\* fits the history that is sent to the model (MAX_HISTORY).
ExactWhenSerial ==
    \A c \in Ids \ disturbed : ~Saving(c) =>
      /\ convs[c].count = said[c]
      /\ convs[c].status = "CHATTING" => said[c] \div 2 < MaxTurns
      /\ said[c] <= 2 * MaxTurns + 2

\* There, too, a DONE conversation is never touched again, and personalization
\* is offered for its end once.
FinalWhenSerial ==
    [][\A c \in Ids : convs[c].status = "DONE" /\ c \notin disturbed' =>
         convs'[c] = convs[c] /\ said'[c] = said[c] /\ offers'[c] <= 1]_chatVars

\* There, too, the words injected into a conversation stay the same.
InjectedOnce ==
    [][\A c \in Ids : convs[c].vocab # Null /\ c \notin disturbed' =>
         convs'[c].vocab = convs[c].vocab]_chatVars

\* Messages of a turn that is being saved belong to no turn yet.
Told(c) == IF c \in disturbed \/ ~Saving(c) THEN said[c] ELSE convs[c].count

Roleplay == INSTANCE Dialogue WITH rows <- convs, messages <- [c \in Ids |-> Told(c)],
                                   spoiled <- disturbed

\* Where no two requests shared a conversation and none died half way, the turns
\* are as good as atomic; and where they did, what is left is what Dialogue says.
ServesDialogue == Roleplay!Spec

\* "Enforces 12-turn cap", "Status is DONE when max_turns reached": when nothing
\* fails, a transcript of MaxTurns turns no request works on is that of a DONE row.
DoneAtCap ==
    \A c \in Ids : Holders(c) = {} /\ said[c] \div 2 >= MaxTurns => convs[c].status = "DONE"

=============================================================================
