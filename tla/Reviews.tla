------------------------------ MODULE Reviews -------------------------------
(***************************************************************************)
(* The vocabulary of one user: cards made by translating words, reviewed   *)
(* in Leitner boxes through sessions kept in memory, and the translation   *)
(* of a sentence that is cached on its message.  Rows are written by       *)
(* TypeORM's save(entity): a SELECT, then the columns that differ.         *)
(***************************************************************************)
EXTENDS Handlers, Integers, Sequences, FiniteSetsExt

CONSTANTS
    Words,      \* that can be on a card
    MaxBox,     \* MAX_BOX
    MaxCards,   \* bound on the rows of vocabulary
    Tongues     \* languages a sentence is translated to

ASSUME ReviewsAssumption == MaxBox \in Nat \ {0} /\ \A w \in Worlds : w.words \in Seq(Words)

VARIABLES
    cards,      \* rows of vocabulary, a card's id is its place
    sessions,   \* ReviewSessionStore.sessions
    disturbed,  \* cards that two writers had in hand at the same time
    message,    \* translatedContent and translatedLang of a message
    crowd       \* translations of it that began since none was at work, 3 from then on

reviewVars == <<cards, sessions, disturbed, message, crowd>>

\* real: the reviews the card has really had.
Card(w) == [word |-> w, box |-> 1, due |-> TRUE, count |-> 0, right |-> 0, real |-> 0, live |-> TRUE]
Live(w) == {c \in DOMAIN cards : cards[c].live /\ cards[c].word = w}
Due == {c \in DOMAIN cards : cards[c].live /\ cards[c].due}

\* rated: vocabId -> correct; saved: how often each card was; lost: claims that no
\* handler will save or release.
Session(C) == [cards |-> C, rated |-> << >>, saved |-> [c \in C |-> 0], lost |-> {},
               live |-> TRUE, old |-> FALSE]

Blank == [text |-> << >>, lang |-> << >>]

ReviewsInit ==
    /\ cards = [i \in DOMAIN world.words |-> Card(world.words[i])]
    /\ sessions = << >>
    /\ disturbed = {}
    /\ message = Blank /\ crowd = 0

-----------------------------------------------------------------------------
(* Cards. *)

\* translateWord and translateChunk: the upsert leaves box and counts alone.
TranslateWord ==
    \E w \in Words :
       /\ Instant("translate word")
       /\ \/ Live(w) # {} /\ UNCHANGED cards
          \/ Live(w) = {} /\ Len(cards) < MaxCards /\ cards' = Append(cards, Card(w))
       /\ UNCHANGED <<sessions, disturbed, message, crowd>>

RemoveWord ==
    \E c \in DOMAIN cards :
       /\ cards[c].live
       /\ Instant("remove word")
       /\ cards' = [cards EXCEPT ![c].live = FALSE]
       /\ UNCHANGED <<sessions, disturbed, message, crowd>>

Rating(c) == {s \in Slots : at[s] \in {"select card", "write card"} /\ arg[s].card = c}

\* touchReviewed counts in the database.
TouchReviewed ==
    \E c \in DOMAIN cards :
       /\ cards[c].live
       /\ Instant("touch")
       /\ cards' = [cards EXCEPT ![c].count = @ + 1, ![c].real = @ + 1]
       /\ disturbed' = IF Rating(c) = {} THEN disturbed ELSE disturbed \cup {c}
       /\ UNCHANGED <<sessions, message, crowd>>

\* Days pass, and a card is due again.
FallDue ==
    \E c \in DOMAIN cards :
       /\ cards[c].live /\ ~cards[c].due
       /\ Instant("due")
       /\ cards' = [cards EXCEPT ![c].due = TRUE]
       /\ UNCHANGED <<sessions, disturbed, message, crowd>>

-----------------------------------------------------------------------------
(* Sessions. *)

StartReview ==
    /\ Instant("start review")
    /\ sessions' = Append(sessions, Session(Due))
    /\ UNCHANGED <<cards, disturbed, message, crowd>>

\* More than an hour old: neither get nor the sweep lets it live.
Usable(i) == sessions[i].live /\ ~sessions[i].old

ClaimRating(i, c, correct) ==
    sessions' = [sessions EXCEPT ![i].rated = [d \in DOMAIN @ \cup {c} |-> IF d = c THEN correct ELSE @[d]]]
Release(i, c) ==
    sessions' = [sessions EXCEPT ![i].rated = [d \in DOMAIN @ \ {c} |-> @[d]]]

RateFaulty(s) ==
    \E i \in DOMAIN sessions, correct \in BOOLEAN : \E c \in sessions[i].cards :
       /\ Usable(i)
       /\ Begin(s, "rate", "card", [op |-> "rate", session |-> i, card |-> c, correct |-> correct])
       /\ ClaimRating(i, c, correct)
       /\ UNCHANGED <<cards, disturbed, message, crowd>>

\* The claim is taken before the first await.
Rate(s) ==
    \E i \in DOMAIN sessions, correct \in BOOLEAN :
       \E c \in sessions[i].cards \ DOMAIN sessions[i].rated :
          /\ Usable(i)
          /\ Begin(s, "rate", "card", [op |-> "rate", session |-> i, card |-> c, correct |-> correct])
          /\ ClaimRating(i, c, correct)
          /\ UNCHANGED <<cards, disturbed, message, crowd>>

LeitnerFaulty(row, correct) ==
    [row EXCEPT !.box = IF ~correct THEN 1 ELSE IF @ < MaxBox THEN @ + 1 ELSE @,
                !.due = FALSE, !.count = IF correct THEN @ + 1 ELSE @, !.right = IF correct THEN @ + 1 ELSE @]

\* applyLeitner, and the counts of the entity.
Leitner(row, correct) ==
    [row EXCEPT !.box = IF ~correct THEN 1 ELSE IF @ < MaxBox THEN @ + 1 ELSE @,
                !.due = FALSE, !.count = @ + 1, !.right = IF correct THEN @ + 1 ELSE @]

\* No card: the claim is released, 404.
FindCard(s) ==
    LET c == arg[s].card
        a == arg[s] IN
    /\ at[s] = "card"
    /\ \/ /\ cards[c].live
          /\ Go(s, "select card", [op |-> "rate", session |-> a.session, card |-> c, correct |-> a.correct,
                                   was |-> cards[c], row |-> Leitner(cards[c], a.correct)])
          /\ disturbed' = IF Rating(c) = {} THEN disturbed ELSE disturbed \cup {c}
          /\ UNCHANGED sessions
       \/ ~cards[c].live /\ Release(a.session, c) /\ End(s) /\ UNCHANGED disturbed
    /\ UNCHANGED <<cards, message, crowd>>

\* save: the row as the database has it now.
SelectCard(s) ==
    /\ at[s] = "select card"
    /\ Go(s, "write card", [arg[s] EXCEPT !.was = cards[arg[s].card]])
    /\ UNCHANGED reviewVars

Saved(s) ==
    sessions' = [sessions EXCEPT ![arg[s].session].saved[arg[s].card] = @ + 1]

\* Columns that differ are updated; a row that was gone is inserted again, unless
\* the word has another card by now; an update of a row just gone changes nothing.
WriteCard(s) ==
    LET c == arg[s].card
        new == arg[s].row
        was == arg[s].was
        db == cards[c] IN
    /\ at[s] = "write card"
    /\ \/ /\ was.live /\ db.live
          /\ cards' = [cards EXCEPT ![c] = [db EXCEPT
                 !.box = IF was.box = new.box THEN db.box ELSE new.box,
                 !.count = IF was.count = new.count THEN db.count ELSE new.count,
                 !.right = IF was.right = new.right THEN db.right ELSE new.right,
                 !.due = FALSE, !.real = @ + 1]]
          /\ Saved(s)
       \/ /\ ~was.live /\ Live(db.word) = {}
          /\ cards' = [cards EXCEPT ![c] = [new EXCEPT !.real = db.real + 1]]
          /\ Saved(s)
       \/ /\ ~was.live /\ Live(db.word) # {}
          /\ Release(arg[s].session, c) /\ UNCHANGED cards
       \/ /\ was.live /\ ~db.live
          /\ sessions' = [sessions EXCEPT ![arg[s].session].lost = @ \cup {c}]
          /\ UNCHANGED cards
    /\ End(s)
    /\ UNCHANGED <<disturbed, message, crowd>>

\* A query fails.  The claim is given back by the save, and not by the search.
RatingFails(s) ==
    /\ world.faults
    /\ \/ /\ at[s] = "card"
          /\ sessions' = [sessions EXCEPT ![arg[s].session].lost = @ \cup {arg[s].card}]
       \/ at[s] \in {"select card", "write card"} /\ Release(arg[s].session, arg[s].card)
    /\ End(s)
    /\ UNCHANGED <<cards, disturbed, message, crowd>>

\* The tally is taken before the boxes are counted, the session deleted after it.
CompleteReview(s) ==
    \E i \in DOMAIN sessions :
       /\ Usable(i)
       /\ Begin(s, "complete review", "boxes", [op |-> "tally", session |-> i, rated |-> sessions[i].rated])
       /\ UNCHANGED reviewVars

CloseReview(s) ==
    /\ at[s] = "boxes"
    /\ sessions' = [sessions EXCEPT ![arg[s].session].live = FALSE]
    /\ End(s)
    /\ UNCHANGED <<cards, disturbed, message, crowd>>

\* An hour passes over a session; it is swept, or deleted by a get that finds it.
Age ==
    \E i \in DOMAIN sessions :
       /\ Usable(i) /\ Instant("age")
       /\ sessions' = [sessions EXCEPT ![i].old = TRUE]
       /\ UNCHANGED <<cards, disturbed, message, crowd>>

Sweep ==
    /\ \E i \in DOMAIN sessions : sessions[i].live /\ sessions[i].old
    /\ sessions' = [i \in DOMAIN sessions |-> [sessions[i] EXCEPT !.live = @ /\ ~sessions[i].old]]
    /\ UNCHANGED <<handlerVars, cards, disturbed, message, crowd>>

-----------------------------------------------------------------------------
(* A sentence. *)

Translating == {"ask sentence", "select message", "write message"}

\* Cached in the language asked for, or it is translated.
Sentence(s) ==
    \E l \in Tongues :
       /\ message.lang # <<l>>
       /\ Begin(s, "translate sentence", "ask sentence", [op |-> "sentence", lang |-> l])
       /\ crowd' = IF crowd = 3 THEN 3 ELSE IF \A r \in Slots : at[r] \notin Translating THEN 1 ELSE crowd + 1
       /\ UNCHANGED <<cards, sessions, disturbed, message>>

\* A model may put the same sentence in two ways.
AskSentence(s) ==
    /\ at[s] = "ask sentence"
    /\ \E v \in 1 .. 2 :
         Go(s, "select message", [op |-> "sentence", new |-> [text |-> <<arg[s].lang, v>>, lang |-> <<arg[s].lang>>],
                                  was |-> Blank])
    /\ UNCHANGED reviewVars

SelectMessage(s) ==
    /\ at[s] = "select message"
    /\ Go(s, "write message", [arg[s] EXCEPT !.was = message])
    /\ UNCHANGED reviewVars

WriteMessageFaulty(s) ==
    /\ at[s] = "write message"
    /\ message' = [text |-> arg[s].new.text,
                   lang |-> IF message.lang = << >> THEN arg[s].new.lang ELSE message.lang]
    /\ End(s)
    /\ UNCHANGED <<cards, sessions, disturbed, crowd>>

WriteMessage(s) ==
    LET new == arg[s].new IN
    /\ at[s] = "write message"
    /\ message' = [f \in DOMAIN message |-> IF arg[s].was[f] = new[f] THEN message[f] ELSE new[f]]
    /\ End(s)
    /\ UNCHANGED <<cards, sessions, disturbed, crowd>>

SentenceFails(s) ==
    /\ world.faults /\ at[s] \in Translating \cup {"boxes"}
    /\ End(s)
    /\ UNCHANGED reviewVars

\* Sessions live in memory only.
ReviewsRestart ==
    /\ sessions' = << >>
    /\ UNCHANGED <<cards, disturbed, message, crowd>>

ReviewStep(s) ==
    \/ Rate(s) \/ FindCard(s) \/ SelectCard(s) \/ WriteCard(s) \/ RatingFails(s)
    \/ CompleteReview(s) \/ CloseReview(s)
    \/ Sentence(s) \/ AskSentence(s) \/ SelectMessage(s) \/ WriteMessage(s) \/ SentenceFails(s)

ReviewsNext ==
    \/ \E s \in Slots : ReviewStep(s)
    \/ TranslateWord \/ RemoveWord \/ TouchReviewed \/ FallDue \/ StartReview \/ Age \/ Sweep
    \/ Restart /\ ReviewsRestart

ReviewsSpec == HandlersInit /\ ReviewsInit /\ [][ReviewsNext]_<<handlerVars, reviewVars>>

-----------------------------------------------------------------------------

InHand(i, c) == \E s \in Slots :
    at[s] \in {"card", "select card", "write card"} /\ arg[s].session = i /\ arg[s].card = c

\* In one session a card changes its box once at most, whatever overlaps, fails or
\* is tried again; and a rating that is neither saved nor at work is one whose
\* search failed or whose card was removed under it.
RatedOnce ==
    \A i \in DOMAIN sessions : \A c \in sessions[i].cards :
        /\ sessions[i].saved[c] <= 1
        /\ c \in DOMAIN sessions[i].rated <=>
             sessions[i].saved[c] = 1 \/ InHand(i, c) \/ c \in sessions[i].lost

\* A card's counts are the reviews it had, and its box follows from them, unless
\* two of them overlapped: then reviews are lost, and none is made up.
CountsAddUp ==
    \A c \in DOMAIN cards :
        /\ cards[c].count <= cards[c].real
        /\ c \notin disturbed =>
             /\ cards[c].count = cards[c].real /\ cards[c].right <= cards[c].count
             /\ cards[c].box \in 1 .. MaxBox /\ cards[c].box <= cards[c].right + 1

\* The sentence on a message is in the language it says, as long as no three
\* translations of it overlap one after the other.
SentenceMatches ==
    message.lang # << >> /\ crowd < 3 => message.text[1] = message.lang[1]

=============================================================================
