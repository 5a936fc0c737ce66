-------------------------- MODULE ScenarioChatProofs --------------------------
(***************************************************************************)
(* Proofs about ScenarioChat, for every set of requests, turn cap and      *)
(* bound.  Whatever overlaps, the counts stay backed by messages; and a    *)
(* conversation no two requests shared stays in step with its row.         *)
(***************************************************************************)
EXTENDS ScenarioChat, SequenceTheorems, TLAPS

\* Messages a request has stored and not yet counted in its entity.
Uncounted(r) ==
    IF step[r] = "reply" THEN (IF turn[r].speaks THEN 1 ELSE 0)
    ELSE IF step[r] = "update" THEN Delta(turn[r]) ELSE 0

ChoosingWords == {"vocab", "vocab write", "empty write"}

\* The entity of a request that has its conversation c for itself follows the row.
InStep(r, c) ==
    /\ said[c] = row[r].count + Uncounted(r)
    /\ step[r] # "after" => convs[c].status = "CHATTING"
    /\ step[r] # "write" => row[r].count = convs[c].count /\ row[r].status = convs[c].status
    /\ convs[c].vocab = Null \/ (step[r] \notin ChoosingWords /\ row[r].vocab = convs[c].vocab)
    /\ step[r] = "write" =>
         /\ dirty[r] = Differing(c, row[r])
         /\ row[r].status = "CHATTING" => row[r].count \div 2 < MaxTurns
         /\ row[r].count <= 2 * MaxTurns + 1
    /\ step[r] = "after" /\ row[r].status = "DONE" => offers[c] = 0

\* What a request at work may rely on.
AtWork(r) ==
    /\ row[r].count + Uncounted(r) <= said[conv[r]]
    /\ step[r] = "user" => turn[r].speaks
    /\ step[r] = "reply" => turn[r].text
    /\ conv[r] \notin disturbed => InStep(r, conv[r])

\* What holds of a conversation that was never disturbed.
Orderly(c) ==
    /\ (\A r \in Requests : conv[r] # c) => convs[c].count = said[c]
    /\ convs[c].status = "CHATTING" => convs[c].count \div 2 < MaxTurns /\ offers[c] = 0
    /\ convs[c].count <= 2 * MaxTurns + 1
    /\ offers[c] <= 1

Alone == \A r, q \in Requests :
    step[r] \in Working /\ conv[r] = conv[q] /\ conv[r] \notin disturbed => r = q

\* The inductive invariant.
ChatInv ==
    /\ ChatTypeOK
    /\ CountBacked
    /\ \A r \in Requests : step[r] \in Working => AtWork(r)
    /\ Alone
    /\ \A c \in Ids \ disturbed : Orderly(c)

-----------------------------------------------------------------------------
(* Types. *)

\* The tables, entry by entry.
LEMMA Tables ==
  ASSUME ChatTypeOK
  PROVE  /\ Len(convs) \in Nat /\ Ids = 1..Len(convs)
         /\ \A c \in Ids : convs[c] \in Row /\ said[c] \in Nat /\ offers[c] \in Nat
BY DEF ChatTypeOK, Ids

\* Replacing one entry of a table.
LEMMA Replaced ==
  ASSUME NEW S, NEW s \in Seq(S), NEW c \in 1..Len(s), NEW e \in S, NEW t,
         t = [s EXCEPT ![c] = e]
  PROVE  /\ t \in Seq(S) /\ Len(t) = Len(s) /\ DOMAIN t = DOMAIN s
         /\ t[c] = e /\ \A d \in 1..Len(s) : d # c => t[d] = s[d]
BY ExceptSeq

\* Adding one.
LEMMA Added ==
  ASSUME NEW S, NEW s \in Seq(S), NEW e \in S, NEW t, t = Append(s, e)
  PROVE  /\ t \in Seq(S) /\ Len(t) = Len(s) + 1 /\ DOMAIN t = DOMAIN s \cup {Len(s) + 1}
         /\ t[Len(s) + 1] = e /\ \A d \in 1..Len(s) : t[d] = s[d]
<1>1. Append(s, e) \in Seq(S) /\ Len(Append(s, e)) = Len(s) + 1
  BY AppendProperties
<1>2. DOMAIN Append(s, e) = 1..(Len(s) + 1) /\ DOMAIN s = 1..Len(s) /\ Len(s) \in Nat
  BY <1>1, LenProperties
<1> QED
  BY <1>1, <1>2, AppendProperties

\* What an update leaves in the row: of each column, the entity's or the row's.
LEMMA MergedFields ==
  ASSUME NEW e \in Row, NEW f \in Row, NEW D \in SUBSET Columns, NEW m,
         m = [x \in Columns |-> IF x \in D THEN e[x] ELSE f[x]]
  PROVE  /\ m \in Row
         /\ m.count = e.count \/ ("count" \notin D /\ m.count = f.count)
         /\ m.status = e.status \/ ("status" \notin D /\ m.status = f.status)
         /\ m.vocab = e.vocab \/ ("vocab" \notin D /\ m.vocab = f.vocab)
BY DEF Row, Columns

-----------------------------------------------------------------------------
(* Steps of a request at work. *)

\* Facts about a request at work and its conversation.
LEMMA AtIt ==
  ASSUME ChatInv, NEW r \in Requests, step[r] \in Working
  PROVE  /\ conv[r] \in Ids /\ conv[r] \in Nat \ {0} /\ row[r] \in Row /\ turn[r] \in Turn
         /\ dirty[r] \in SUBSET Columns
         /\ convs[conv[r]] \in Row /\ said[conv[r]] \in Nat /\ offers[conv[r]] \in Nat
         /\ convs[conv[r]].count <= said[conv[r]]
         /\ AtWork(r)
         /\ conv[r] \notin disturbed => Orderly(conv[r])
BY Tables DEF ChatInv, ChatTypeOK, CountBacked

\* It disturbs nobody else: what is left to show is about itself.
LEMMA Framed ==
  ASSUME ChatInv, ChatTypeOK', NEW r \in Requests, step[r] \in Working,
         NEW c, c = conv[r],
         Ids' = Ids, disturbed \subseteq disturbed', conv'[r] \in {c, 0},
         \A q \in Requests \ {r} :
            /\ step'[q] = step[q] /\ conv'[q] = conv[q] /\ row'[q] = row[q]
            /\ dirty'[q] = dirty[q] /\ turn'[q] = turn[q],
         \A d \in Ids \ {c} :
            convs'[d] = convs[d] /\ said'[d] = said[d] /\ offers'[d] = offers[d],
         said'[c] >= said[c],
         convs'[c].count <= said'[c],
         step'[r] \in Working => AtWork(r)',
         c \notin disturbed' => Orderly(c)'
  PROVE  ChatInv'
<1>1. c \in Ids /\ c # 0 /\ 0 \notin Ids
  BY Tables, AtIt DEF ChatInv
<1>2. CountBacked'
  BY DEF ChatInv, CountBacked
<1>3. ASSUME NEW q \in Requests, step'[q] \in Working PROVE AtWork(q)'
  <2>1. CASE q = r
    BY <1>3, <2>1
  <2>2. CASE q # r
    <3>1. step[q] \in Working /\ AtWork(q) /\ conv[q] \in Ids /\ said[conv[q]] \in Nat
          /\ row[q] \in Row /\ turn[q] \in Turn
      BY <1>3, <2>2, AtIt DEF ChatInv
    <3>2. said'[conv[q]] \in Nat /\ said'[conv[q]] >= said[conv[q]]
      <4>1. said' \in Seq(Nat) /\ Len(said') = Len(convs') /\ Ids' = 1..Len(convs')
        BY DEF ChatTypeOK, Ids
      <4>2. conv[q] \in 1..Len(said')
        BY <3>1, <4>1
      <4> QED
        BY <3>1, <4>1, <4>2
    <3>3. Uncounted(q)' = Uncounted(q)
      BY <2>2 DEF Uncounted, Delta
    <3>4. row[q].count \in Nat /\ Uncounted(q) \in Nat
      BY <3>1 DEF Row, Turn, Uncounted, Delta
    <3>5. (row[q].count + Uncounted(q) <= said[conv[q]])'
      BY <2>2, <3>1, <3>2, <3>3, <3>4 DEF AtWork
    <3>6. ASSUME conv'[q] \notin disturbed' PROVE InStep(q, conv[q])'
      <4>1. conv[q] \notin disturbed /\ conv[q] # c
        BY <2>2, <3>1, <3>6 DEF ChatInv, Alone
      <4>2. InStep(q, conv[q])
        BY <3>1, <4>1 DEF AtWork
      <4>3. Differing(conv[q], row[q])' = Differing(conv[q], row[q])
        BY <2>2, <3>1, <4>1 DEF Differing
      <4> QED
        BY <2>2, <3>1, <3>3, <4>1, <4>2, <4>3 DEF InStep
    <3> QED
      BY <2>2, <3>1, <3>5, <3>6 DEF AtWork
  <2> QED
    BY <2>1, <2>2
<1>4. Alone'
  <2> SUFFICES ASSUME NEW q \in Requests, NEW p \in Requests, step'[q] \in Working,
                      conv'[q] = conv'[p], conv'[q] \notin disturbed'
               PROVE  q = p
    BY DEF Alone
  <2>1. conv'[q] # 0
    BY <1>1 DEF ChatTypeOK
  <2>2. conv[q] = conv'[q] /\ conv[p] = conv'[p]
    BY <2>1
  <2>3. step[q] \in Working
    BY <2>1, <2>2 DEF ChatInv, ChatTypeOK
  <2> QED
    BY <2>2, <2>3 DEF ChatInv, Alone
<1>5. ASSUME NEW d \in (Ids \ disturbed)' PROVE Orderly(d)'
  <2>1. CASE d = c
    BY <1>5, <2>1
  <2>2. CASE d # c
    <3>1. Orderly(d)
      BY <1>5 DEF ChatInv
    <3>2. (\A q \in Requests : conv'[q] # d) => \A q \in Requests : conv[q] # d
      BY <2>2
    <3> QED
      BY <1>5, <2>2, <3>1, <3>2 DEF Orderly
  <2> QED
    BY <2>1, <2>2
<1> QED
  BY <1>2, <1>3, <1>4, <1>5 DEF ChatInv

\* Only r's own entries change, and neither a table nor who shares what.
Private(r) ==
    /\ UNCHANGED <<convs, said, offers, conv, disturbed>>
    /\ \A q \in Requests \ {r} :
         step'[q] = step[q] /\ row'[q] = row[q] /\ dirty'[q] = dirty[q] /\ turn'[q] = turn[q]

\* How the entity follows its row up to the save at the end.
LEMMA Following ==
  ASSUME ChatInv, NEW r \in Requests, step[r] \in Working \ {"write", "after"},
         conv[r] \notin disturbed
  PROVE  /\ said[conv[r]] = row[r].count + Uncounted(r)
         /\ convs[conv[r]].status = "CHATTING" /\ convs[conv[r]].count \div 2 < MaxTurns
         /\ row[r].count = convs[conv[r]].count /\ row[r].status = "CHATTING"
         /\ \/ convs[conv[r]].vocab = Null
            \/ step[r] \notin ChoosingWords /\ row[r].vocab = convs[conv[r]].vocab
<1>1. InStep(r, conv[r]) /\ Orderly(conv[r])
  BY AtIt DEF AtWork
<1> QED
  BY <1>1 DEF InStep, Orderly

\* Such steps need only be right for r itself.
LEMMA PrivateStep ==
  ASSUME ChatInv, NEW r \in Requests, step[r] \in Working, Private(r),
         step' \in [Requests -> {"idle"} \cup Seeking \cup Working], step'[r] \in Working,
         row' \in [Requests -> Row], dirty' \in [Requests -> SUBSET Columns],
         turn' \in [Requests -> Turn], AtWork(r)'
  PROVE  ChatInv'
<1>0. PICK c : c = conv[r]
  OBVIOUS
<1>1. ChatTypeOK'
  <2>1. \A q \in Requests : step'[q] \in Working <=> step[q] \in Working
    BY DEF Private
  <2>2. Ids' = Ids /\ ChatTypeOK
    BY DEF Private, Ids, ChatInv
  <2> QED
    BY <2>1, <2>2 DEF Private, ChatTypeOK
<1>2. conv[r] \notin disturbed => Orderly(conv[r])
  BY AtIt
<1>3. c \notin disturbed' => Orderly(c)'
  BY <1>0, <1>2 DEF Private, Orderly
<1>4. /\ Ids' = Ids /\ conv'[r] \in {c, 0} /\ said'[c] >= said[c] /\ convs'[c].count <= said'[c]
      /\ disturbed \subseteq disturbed'
  BY <1>0, AtIt DEF Private, Ids
<1>5. \A q \in Requests \ {r} :
            /\ step'[q] = step[q] /\ conv'[q] = conv[q] /\ row'[q] = row[q]
            /\ dirty'[q] = dirty[q] /\ turn'[q] = turn[q]
  BY DEF Private
<1>6. \A d \in Ids \ {c} :
            convs'[d] = convs[d] /\ said'[d] = said[d] /\ offers'[d] = offers[d]
  BY DEF Private
<1> QED
  BY <1>0, <1>1, <1>3, <1>4, <1>5, <1>6, Framed

LEMMA AskModelKeeps ==
  ASSUME ChatInv, NEW r \in Requests, AskModel(r)
  PROVE  ChatInv'
<1>1. step[r] = "model" /\ step[r] \in Working
  BY DEF AskModel, Working
<1>2. PICK t \in Turn : turn' = [turn EXCEPT ![r] = t] /\ step' = [step EXCEPT ![r] = AfterModel(t)]
  BY DEF AskModel, GoTo
<1>3. ChatTypeOK
  BY DEF ChatInv
<1>4. /\ turn' \in [Requests -> Turn] /\ turn'[r] = t
      /\ step' \in [Requests -> {"idle"} \cup Seeking \cup Working]
      /\ step'[r] = AfterModel(t) /\ step'[r] \in Working
      /\ row' = row /\ dirty' = dirty
  BY <1>2, <1>3 DEF ChatTypeOK, AfterModel, Working, AskModel
<1>5. Private(r)
  BY <1>2, <1>3 DEF Private, ChatTypeOK, AskModel
<1>6. Uncounted(r)' = 0 /\ Uncounted(r) = 0
  BY <1>1, <1>4 DEF Uncounted, AfterModel, Delta, Turn
<1>7. AtWork(r)'
  <2>1. /\ conv' = conv /\ said' = said /\ convs' = convs /\ offers' = offers
        /\ disturbed' = disturbed /\ row[r].count \in Nat
    BY <1>1, <1>5, AtIt DEF Private, Row
  <2>2. /\ step'[r] \in {"user", "reply", "update"}
        /\ step'[r] = "user" => t.speaks
        /\ step'[r] = "reply" => t.text
    BY <1>4 DEF AfterModel
  <2>3. (row[r].count + Uncounted(r) <= said[conv[r]])'
    BY <1>1, <1>4, <1>6, <2>1, AtIt DEF AtWork
  <2>4. conv[r] \notin disturbed => InStep(r, conv[r])'
    <3> SUFFICES ASSUME conv[r] \notin disturbed PROVE InStep(r, conv[r])'
      OBVIOUS
    <3> QED
      BY <1>1, <1>4, <1>6, <2>1, <2>2, Following DEF InStep, ChoosingWords
  <2> QED
    BY <1>4, <2>1, <2>2, <2>3, <2>4 DEF AtWork
<1> QED
  BY <1>1, <1>3, <1>4, <1>5, <1>7, PrivateStep DEF ChatTypeOK

\* The first statement of a save.
LEMMA SelectKeeps ==
  ASSUME ChatInv, NEW r \in Requests, step[r] \in Working,
         NEW entity \in Row, NEW s \in Working, Select(r, entity, s),
         turn' \in [Requests -> Turn], \A q \in Requests \ {r} : turn'[q] = turn[q],
         AtWork(r)'
  PROVE  ChatInv'
<1>1. ChatTypeOK
  BY DEF ChatInv
<1>2. /\ step' \in [Requests -> {"idle"} \cup Seeking \cup Working] /\ step'[r] \in Working
      /\ row' \in [Requests -> Row] /\ dirty' \in [Requests -> SUBSET Columns]
  BY <1>1 DEF Select, GoTo, ChatTypeOK, Differing
<1>3. Private(r)
  BY <1>1 DEF Private, Select, GoTo, ChatTypeOK
<1> QED
  BY <1>2, <1>3, PrivateStep

\* What it leaves with the request.
LEMMA Selected ==
  ASSUME ChatInv, NEW r \in Requests, NEW entity \in Row, NEW s \in Working, Select(r, entity, s)
  PROVE  /\ row'[r] = entity /\ dirty'[r] = Differing(conv[r], entity) /\ step'[r] = s
         /\ UNCHANGED <<convs, said, offers, conv, disturbed>>
BY DEF ChatInv, ChatTypeOK, Select, GoTo

LEMMA ChoosingKeeps ==
  ASSUME ChatInv, NEW r \in Requests, SelectVocabulary(r) \/ SaveNoVocabulary(r)
  PROVE  ChatInv'
<1>1. PICK p \in Picks, s \in ChoosingWords :
         Select(r, [row[r] EXCEPT !.vocab = p], s) /\ turn' = turn
  BY PicksAssumption DEF SelectVocabulary, SaveNoVocabulary, ChoosingWords
<1>2. step[r] \in ChoosingWords /\ step[r] \in Working /\ s \in Working
  BY DEF SelectVocabulary, SaveNoVocabulary, ChoosingWords, Working
<1> DEFINE entity == [row[r] EXCEPT !.vocab = p]
<1>3. /\ entity \in Row /\ entity.count = row[r].count /\ entity.status = row[r].status
      /\ turn \in [Requests -> Turn] /\ Select(r, entity, s)
  BY <1>1, <1>2, AtIt DEF Row, ChatInv, ChatTypeOK
<1> HIDE DEF entity
<1>4. /\ row'[r] = entity /\ step'[r] = s
      /\ UNCHANGED <<convs, said, offers, conv, disturbed>>
  BY <1>1, <1>2, <1>3, Selected
<1>5. Uncounted(r)' = 0 /\ Uncounted(r) = 0
  BY <1>2, <1>4 DEF Uncounted, ChoosingWords
<1>6. AtWork(r)'
  <2>1. /\ turn' = turn /\ row[r].count \in Nat /\ row'[r].count = row[r].count
        /\ row'[r].status = row[r].status /\ step'[r] \in ChoosingWords
    BY <1>1, <1>2, <1>3, <1>4, AtIt DEF Row
  <2>2. (row[r].count + Uncounted(r) <= said[conv[r]])'
    BY <1>2, <1>4, <1>5, <2>1, AtIt DEF AtWork
  <2>3. conv[r] \notin disturbed => InStep(r, conv[r])'
    <3> SUFFICES ASSUME conv[r] \notin disturbed PROVE InStep(r, conv[r])'
      OBVIOUS
    <3>1. step[r] \in Working \ {"write", "after"}
      BY <1>2 DEF ChoosingWords
    <3>2. /\ said[conv[r]] = row[r].count /\ convs[conv[r]].status = "CHATTING"
          /\ row[r].count = convs[conv[r]].count /\ row[r].status = "CHATTING"
          /\ convs[conv[r]].vocab = Null
      BY <1>2, <1>5, <2>1, <3>1, Following
    <3>3. convs' = convs /\ said' = said /\ offers' = offers /\ conv' = conv
      BY <1>4
    <3>4. said'[conv'[r]] = row'[r].count + Uncounted(r)'
      BY <1>5, <2>1, <3>2, <3>3
    <3>5. row'[r].count = convs'[conv'[r]].count
      BY <1>5, <2>1, <3>2, <3>3
    <3>6. row'[r].status = convs'[conv'[r]].status /\ convs'[conv'[r]].status = "CHATTING"
      BY <1>5, <2>1, <3>2, <3>3
    <3>7. convs'[conv'[r]].vocab = Null
      BY <1>5, <2>1, <3>2, <3>3
    <3>8. step'[r] # "write" /\ step'[r] # "after"
      BY <1>5, <2>1, <3>2, <3>3 DEF ChoosingWords
    <3> QED
      BY <3>4, <3>5, <3>6, <3>7, <3>8 DEF InStep
  <2> QED
    BY <1>4, <2>1, <2>2, <2>3 DEF AtWork, ChoosingWords
<1> QED
  BY <1>1, <1>2, <1>3, <1>6, SelectKeeps

\* A message is stored and counted later.
LEMMA SaveMessageKeeps ==
  ASSUME ChatInv, NEW r \in Requests, SaveUserMessage(r) \/ SaveReply(r)
  PROVE  ChatInv'
<1>1. PICK c : c = conv[r]
  OBVIOUS
<1>2. /\ step[r] \in {"user", "reply"} /\ step[r] \in Working
      /\ said' = [said EXCEPT ![c] = said[c] + 1]
      /\ UNCHANGED <<convs, offers, conv, row, dirty, turn, disturbed>>
  BY <1>1 DEF SaveUserMessage, SaveReply, Working
<1>3. ChatTypeOK /\ c \in 1..Len(said) /\ said \in Seq(Nat) /\ said[c] + 1 \in Nat
  BY <1>1, <1>2, AtIt, Tables DEF ChatInv, ChatTypeOK
<1>4. /\ said' \in Seq(Nat) /\ Len(said') = Len(said)
      /\ \A d \in 1..Len(said) : d # c => said'[d] = said[d]
  BY <1>2, <1>3, Replaced
<1>a. said'[c] = said[c] + 1
  BY <1>2, <1>3, Replaced
<1>5. /\ step' \in [Requests -> {"idle"} \cup Seeking \cup Working]
      /\ step'[r] \in {"reply", "update"} /\ step'[r] \in Working
      /\ \A q \in Requests \ {r} : step'[q] = step[q]
      /\ step[r] = "user" => step'[r] = IF turn[r].text THEN "reply" ELSE "update"
      /\ step[r] = "reply" => step'[r] = "update"
  BY <1>2, <1>3 DEF SaveUserMessage, SaveReply, GoTo, ChatTypeOK, Working
<1>6. ChatTypeOK'
  BY <1>2, <1>3, <1>4, <1>5 DEF ChatTypeOK, Ids
<1>7. Uncounted(r)' = Uncounted(r) + 1
  <2>1. turn' = turn /\ turn[r] \in Turn /\ AtWork(r)
    BY <1>2, AtIt
  <2>2. CASE step[r] = "user"
    BY <1>5, <2>1, <2>2 DEF Uncounted, Delta, Turn, AtWork
  <2>3. CASE step[r] = "reply"
    BY <1>5, <2>1, <2>3 DEF Uncounted, Delta, Turn, AtWork
  <2> QED
    BY <1>2, <2>2, <2>3
<1>8. row[r].count \in Nat /\ Uncounted(r) \in Nat /\ said[c] \in Nat
  BY <1>1, <1>2, AtIt DEF Row, Uncounted, Delta, Turn
<1>9. AtWork(r)'
  <2>1. (row[r].count + Uncounted(r) <= said[conv[r]])'
    BY <1>1, <1>2, <1>a, <1>7, <1>8, AtIt DEF AtWork
  <2>2. step'[r] = "reply" => turn'[r].text
    BY <1>2, <1>5
  <2>3. conv[r] \notin disturbed => InStep(r, conv[r])'
    <3> SUFFICES ASSUME c \notin disturbed PROVE InStep(r, conv[r])'
      BY <1>1
    <3>1. /\ said[c] = row[r].count + Uncounted(r)
          /\ convs[c].status = "CHATTING"
          /\ row[r].count = convs[c].count /\ row[r].status = convs[c].status
          /\ convs[c].vocab = Null \/ row[r].vocab = convs[c].vocab
      BY <1>1, <1>2, Following DEF ChoosingWords
    <3>2. conv' = conv /\ convs' = convs /\ row' = row
      BY <1>2
    <3>3. said'[c] = row[r].count + Uncounted(r)'
      BY <1>a, <1>7, <1>8, <3>1
    <3> QED
      BY <1>1, <1>5, <3>1, <3>2, <3>3 DEF InStep, ChoosingWords
  <2> QED
    BY <1>2, <1>5, <2>1, <2>2, <2>3 DEF AtWork
<1>10. c \notin disturbed' => Orderly(c)'
  BY <1>1, <1>2, AtIt DEF Orderly
<1>11. /\ Ids' = Ids /\ disturbed \subseteq disturbed' /\ conv'[r] \in {c, 0}
       /\ said'[c] >= said[c] /\ convs'[c].count <= said'[c]
  <2>1. convs[c].count \in Nat /\ convs[c].count <= said[c]
    BY <1>1, <1>2, AtIt DEF Row
  <2>2. said'[c] >= said[c] /\ convs'[c].count <= said'[c]
    BY <1>2, <1>a, <1>8, <2>1
  <2> QED
    BY <1>1, <1>2, <2>2 DEF Ids
<1>12. /\ \A q \in Requests \ {r} :
            /\ step'[q] = step[q] /\ conv'[q] = conv[q] /\ row'[q] = row[q]
            /\ dirty'[q] = dirty[q] /\ turn'[q] = turn[q]
       /\ \A d \in Ids \ {c} :
            convs'[d] = convs[d] /\ said'[d] = said[d] /\ offers'[d] = offers[d]
  BY <1>2, <1>3, <1>4, <1>5 DEF ChatTypeOK, Ids
<1> QED
  BY <1>1, <1>2, <1>6, <1>9, <1>10, <1>11, <1>12, Framed

\* The turn cap, in whole turns.
LEMMA Cap ==
  ASSUME NEW n \in Nat, NEW k \in Nat, n \div 2 < MaxTurns, k <= 2
  PROVE  n + k <= 2 * MaxTurns + 1
BY TurnsAssumption

LEMMA SelectConversationKeeps ==
  ASSUME ChatInv, NEW r \in Requests, SelectConversation(r)
  PROVE  ChatInv'
<1>0. PICK count, st, entity :
         /\ count = row[r].count + Delta(turn[r]) /\ st = Status(turn[r], count)
         /\ entity = [row[r] EXCEPT !.count = count, !.status = st]
  OBVIOUS
<1>1. /\ step[r] = "update" /\ step[r] \in Working
      /\ Select(r, entity, "write") /\ turn' = [turn EXCEPT ![r] = NoTurn]
  BY <1>0 DEF SelectConversation, Working
<1>2. /\ row[r] \in Row /\ turn[r] \in Turn /\ ChatTypeOK
      /\ Delta(turn[r]) \in Nat /\ Delta(turn[r]) <= 2
  BY <1>1, AtIt DEF Delta, Turn, ChatInv
<1>3. /\ entity \in Row /\ entity.count = count /\ entity.vocab = row[r].vocab
      /\ entity.status = Status(turn[r], count) /\ count \in Nat /\ row[r].count \in Nat
  <2>1. row[r].count \in Nat /\ count \in Nat
    BY <1>0, <1>2 DEF Row
  <2>2. st \in {"CHATTING", "DONE"}
    BY <1>0 DEF Status
  <2>3. entity \in Row /\ entity.count = count /\ entity.status = st /\ entity.vocab = row[r].vocab
    <3>1. PICK e \in Row : e = row[r]
      BY <1>2
    <3>2. entity = [e EXCEPT !.count = count, !.status = st]
      BY <1>0, <3>1
    <3> QED
      BY <2>1, <2>2, <3>1, <3>2 DEF Row
  <2> QED
    BY <1>0, <2>1, <2>3
<1>4. /\ row'[r] = entity /\ dirty'[r] = Differing(conv[r], entity) /\ step'[r] = "write"
      /\ UNCHANGED <<convs, said, offers, conv, disturbed>> /\ "write" \in Working
  BY <1>1, <1>3, Selected DEF Working
<1>5. Uncounted(r)' = 0 /\ Uncounted(r) = Delta(turn[r])
  BY <1>1, <1>4 DEF Uncounted
<1>6. turn' \in [Requests -> Turn] /\ \A q \in Requests \ {r} : turn'[q] = turn[q]
  BY <1>1, <1>2 DEF ChatTypeOK, Turn, NoTurn
<1>7. AtWork(r)'
  <2>1. conv' = conv /\ said' = said /\ convs' = convs /\ disturbed' = disturbed
    BY <1>4
  <2>2. (row[r].count + Uncounted(r) <= said[conv[r]])'
    BY <1>1, <1>0, <1>3, <1>4, <1>5, <2>1, AtIt DEF AtWork
  <2>3. conv[r] \notin disturbed => InStep(r, conv[r])'
    <3> SUFFICES ASSUME conv[r] \notin disturbed PROVE InStep(r, conv[r])'
      OBVIOUS
    <3>1. /\ said[conv[r]] = count /\ convs[conv[r]].status = "CHATTING"
          /\ row[r].count \div 2 < MaxTurns
          /\ convs[conv[r]].vocab = Null \/ row[r].vocab = convs[conv[r]].vocab
      BY <1>0, <1>1, <1>5, Following DEF ChoosingWords
    <3>2. said'[conv'[r]] = row'[r].count + Uncounted(r)'
      BY <1>3, <1>4, <1>5, <2>1, <3>1
    <3>3. convs'[conv'[r]].vocab = Null \/ row'[r].vocab = convs'[conv'[r]].vocab
      BY <1>3, <1>4, <2>1, <3>1
    <3>4. dirty'[r] = Differing(conv[r], row[r])'
      BY <1>4, <2>1 DEF Differing
    <3>5. row'[r].count <= 2 * MaxTurns + 1
      BY <1>0, <1>2, <1>3, <1>4, <3>1, Cap
    <3>6. row'[r].status = "CHATTING" => row'[r].count \div 2 < MaxTurns
      BY <1>3, <1>4, TurnsAssumption DEF Status
    <3> QED
      BY <1>4, <2>1, <3>1, <3>2, <3>3, <3>4, <3>5, <3>6 DEF InStep, ChoosingWords
  <2> QED
    BY <1>4, <2>1, <2>2, <2>3 DEF AtWork
<1> QED
  BY <1>1, <1>3, <1>4, <1>6, <1>7, SelectKeeps

\* The second statement of a save: what it changes.
LEMMA Wrote ==
  ASSUME ChatInv, NEW r \in Requests, step[r] \in Working, NEW s \in Working, Write(r, s)
  PROVE  /\ ChatTypeOK' /\ Ids' = Ids
         /\ UNCHANGED <<said, offers, conv, row, turn, disturbed>>
         /\ step'[r] = s
         /\ \A q \in Requests \ {r} : step'[q] = step[q] /\ dirty'[q] = dirty[q]
         /\ \A d \in Ids \ {conv[r]} : convs'[d] = convs[d]
         /\ \/ convs'[conv[r]].count = row[r].count
            \/ "count" \notin dirty[r] /\ convs'[conv[r]].count = convs[conv[r]].count
         /\ \/ convs'[conv[r]].status = row[r].status
            \/ "status" \notin dirty[r] /\ convs'[conv[r]].status = convs[conv[r]].status
         /\ \/ convs'[conv[r]].vocab = row[r].vocab
            \/ "vocab" \notin dirty[r] /\ convs'[conv[r]].vocab = convs[conv[r]].vocab
<1>1. /\ conv[r] \in 1..Len(convs) /\ convs \in Seq(Row) /\ row[r] \in Row /\ convs[conv[r]] \in Row
      /\ dirty[r] \in SUBSET Columns /\ ChatTypeOK /\ Ids = 1..Len(convs)
  BY AtIt, Tables DEF ChatInv, ChatTypeOK
<1>2. PICK m : m = Merged(conv[r], row[r], dirty[r])
  OBVIOUS
<1>3. /\ m \in Row
      /\ m.count = row[r].count \/ ("count" \notin dirty[r] /\ m.count = convs[conv[r]].count)
      /\ m.status = row[r].status \/ ("status" \notin dirty[r] /\ m.status = convs[conv[r]].status)
      /\ m.vocab = row[r].vocab \/ ("vocab" \notin dirty[r] /\ m.vocab = convs[conv[r]].vocab)
  <2>1. PICK e \in Row, f \in Row, D \in SUBSET Columns :
           e = row[r] /\ f = convs[conv[r]] /\ D = dirty[r]
    BY <1>1
  <2>2. m = [x \in Columns |-> IF x \in D THEN e[x] ELSE f[x]]
    BY <1>2, <2>1 DEF Merged
  <2> QED
    BY <2>1, <2>2, MergedFields
<1>4. convs' = [convs EXCEPT ![conv[r]] = m]
  BY <1>2 DEF Write
<1>5. /\ convs' \in Seq(Row) /\ Len(convs') = Len(convs) /\ DOMAIN convs' = DOMAIN convs
      /\ convs'[conv[r]] = m /\ \A d \in 1..Len(convs) : d # conv[r] => convs'[d] = convs[d]
  BY <1>1, <1>3, <1>4, Replaced
<1>6. UNCHANGED <<said, offers, conv, row, turn, disturbed>> /\ Ids' = Ids
  BY <1>5 DEF Write, Ids
<1>7. /\ step' = [step EXCEPT ![r] = s] /\ dirty' = [dirty EXCEPT ![r] = {}]
  BY DEF Write, GoTo
<1>8. /\ step' \in [Requests -> {"idle"} \cup Seeking \cup Working] /\ step'[r] = s
      /\ dirty' \in [Requests -> SUBSET Columns]
      /\ \A q \in Requests \ {r} : step'[q] = step[q] /\ dirty'[q] = dirty[q]
  BY <1>1, <1>7 DEF ChatTypeOK
<1>9. ChatTypeOK'
  BY <1>1, <1>5, <1>6, <1>8 DEF ChatTypeOK
<1> QED
  BY <1>1, <1>3, <1>5, <1>6, <1>8, <1>9

LEMMA WriteKeeps ==
  ASSUME ChatInv, NEW r \in Requests, step[r] \in Working,
         NEW s \in Working, Write(r, s), AtWork(r)',
         conv[r] \notin disturbed => Orderly(conv[r])'
  PROVE  ChatInv'
<1>1. /\ row[r].count \in Nat /\ Uncounted(r) \in Nat /\ said[conv[r]] \in Nat
      /\ convs[conv[r]].count <= said[conv[r]] /\ row[r].count + Uncounted(r) <= said[conv[r]]
  BY AtIt DEF AtWork, Row, Uncounted, Delta, Turn
<1>2. convs'[conv[r]].count <= said[conv[r]]
  <2>1. convs'[conv[r]].count \in {row[r].count, convs[conv[r]].count}
    BY Wrote
  <2> QED
    BY <1>1, <2>1
<1>3. /\ ChatTypeOK' /\ Ids' = Ids /\ said' = said /\ offers' = offers /\ conv' = conv
      /\ row' = row /\ turn' = turn /\ disturbed' = disturbed
      /\ \A q \in Requests \ {r} : step'[q] = step[q] /\ dirty'[q] = dirty[q]
      /\ \A d \in Ids \ {conv[r]} : convs'[d] = convs[d]
  BY Wrote
<1>4. PICK c : c = conv[r]
  OBVIOUS
<1>5. /\ said'[c] >= said[c] /\ convs'[c].count <= said'[c] /\ conv'[r] \in {c, 0}
      /\ c \notin disturbed' => Orderly(c)'
      /\ \A d \in Ids \ {c} : convs'[d] = convs[d]
  BY <1>1, <1>2, <1>3, <1>4
<1> QED
  BY <1>3, <1>4, <1>5, Framed

LEMMA WriteVocabularyKeeps ==
  ASSUME ChatInv, NEW r \in Requests, step[r] \in ChoosingWords,
         NEW s \in Working, s = "model", Write(r, s)
  PROVE  ChatInv'
<1>1. step[r] \in Working /\ step[r] \in ChoosingWords
  BY DEF Working, ChoosingWords
<1>2. /\ said' = said /\ offers' = offers /\ conv' = conv /\ row' = row /\ turn' = turn
      /\ disturbed' = disturbed /\ step'[r] = "model"
      /\ \/ convs'[conv[r]].count = row[r].count
         \/ "count" \notin dirty[r] /\ convs'[conv[r]].count = convs[conv[r]].count
      /\ \/ convs'[conv[r]].status = row[r].status
         \/ "status" \notin dirty[r] /\ convs'[conv[r]].status = convs[conv[r]].status
      /\ \/ convs'[conv[r]].vocab = row[r].vocab
         \/ "vocab" \notin dirty[r] /\ convs'[conv[r]].vocab = convs[conv[r]].vocab
  BY <1>1, Wrote
<1>b. said' = said /\ conv' = conv /\ row' = row
  BY <1>2
<1>3. Uncounted(r)' = 0 /\ Uncounted(r) = 0
  BY <1>1, <1>2 DEF Uncounted, ChoosingWords
<1>a. row[r].count \in Nat
  BY <1>1, AtIt DEF Row
<1>4. row[r].count <= said[conv[r]]
  BY <1>1, <1>3, <1>a, AtIt DEF AtWork
<1>5. ASSUME conv[r] \notin disturbed
      PROVE  /\ said[conv[r]] = row[r].count
             /\ convs'[conv[r]].count = convs[conv[r]].count /\ row[r].count = convs[conv[r]].count
             /\ convs'[conv[r]].status = "CHATTING" /\ row[r].status = "CHATTING"
             /\ convs'[conv[r]].vocab = Null \/ row[r].vocab = convs'[conv[r]].vocab
             /\ Orderly(conv[r])
  <2>1. step[r] \in Working \ {"write", "after"}
    BY <1>1 DEF ChoosingWords
  <2>2. /\ said[conv[r]] = row[r].count /\ convs[conv[r]].status = "CHATTING"
        /\ row[r].count = convs[conv[r]].count /\ row[r].status = "CHATTING"
        /\ convs[conv[r]].vocab = Null
    BY <1>1, <1>3, <1>a, <1>5, <2>1, Following
  <2> QED
    BY <1>1, <1>2, <1>5, <2>2, AtIt
<1>6. AtWork(r)'
  <2>1. (row[r].count + Uncounted(r) <= said[conv[r]])'
    BY <1>b, <1>3, <1>a, <1>4
  <2>2. conv[r] \notin disturbed => InStep(r, conv[r])'
    <3> SUFFICES ASSUME conv[r] \notin disturbed PROVE InStep(r, conv[r])'
      OBVIOUS
    <3>1. said'[conv[r]] = row'[r].count + Uncounted(r)'
      BY <1>b, <1>3, <1>a, <1>5
    <3>2. conv' = conv /\ row' = row
      BY <1>2
    <3> QED
      BY <1>2, <1>5, <3>1, <3>2 DEF InStep, ChoosingWords
  <2> QED
    BY <1>2, <2>1, <2>2 DEF AtWork
<1>7. conv[r] \notin disturbed => Orderly(conv[r])'
  <2> SUFFICES ASSUME conv[r] \notin disturbed PROVE Orderly(conv[r])'
    OBVIOUS
  <2>1. /\ Orderly(conv[r]) /\ convs'[conv[r]].count = convs[conv[r]].count
        /\ convs[conv[r]].count = said[conv[r]]
    BY <1>5
  <2>2. convs[conv[r]].status = "CHATTING"
    BY <1>1, AtIt, Following DEF ChoosingWords
  <2> QED
    BY <1>2, <2>1, <2>2 DEF Orderly
<1> QED
  BY <1>1, <1>6, <1>7, WriteKeeps

\* The save of an empty selection fails: the row keeps its NULL.
LEMMA KeepNoVocabularyKeeps ==
  ASSUME ChatInv, NEW r \in Requests, step[r] \in ChoosingWords,
         NEW s \in Working, s = "model", Moves(r, s)
  PROVE  ChatInv'
<1>1. step[r] \in Working /\ ChatTypeOK
  BY DEF Working, ChoosingWords, ChatInv
<1>2. /\ said' = said /\ offers' = offers /\ conv' = conv /\ row' = row /\ turn' = turn
      /\ disturbed' = disturbed /\ dirty' = dirty /\ convs' = convs
      /\ step' = [step EXCEPT ![r] = s]
  BY DEF Moves, GoTo
<1>3. /\ step' \in [Requests -> {"idle"} \cup Seeking \cup Working] /\ step'[r] = "model"
      /\ \A q \in Requests \ {r} : step'[q] = step[q]
  BY <1>1, <1>2 DEF ChatTypeOK
<1>4. Private(r)
  BY <1>2, <1>3 DEF Private
<1>5. Uncounted(r)' = 0 /\ Uncounted(r) = 0
  BY <1>3 DEF Uncounted, ChoosingWords
<1>6. row[r].count \in Nat
  BY <1>1, AtIt DEF Row
<1>7. AtWork(r)'
  <2>1. (row[r].count + Uncounted(r) <= said[conv[r]])'
    BY <1>1, <1>2, <1>5, <1>6, AtIt DEF AtWork
  <2>2. conv[r] \notin disturbed => InStep(r, conv[r])'
    <3> SUFFICES ASSUME conv[r] \notin disturbed PROVE InStep(r, conv[r])'
      OBVIOUS
    <3>1. step[r] \in Working \ {"write", "after"}
      BY <1>1 DEF ChoosingWords
    <3>2. /\ said[conv[r]] = row[r].count /\ convs[conv[r]].status = "CHATTING"
          /\ row[r].count = convs[conv[r]].count /\ row[r].status = "CHATTING"
          /\ convs[conv[r]].vocab = Null
      BY <1>1, <1>5, <1>6, <3>1, Following
    <3>3. said'[conv'[r]] = row'[r].count + Uncounted(r)'
      BY <1>2, <1>5, <1>6, <3>2
    <3> QED
      BY <1>2, <1>3, <3>2, <3>3 DEF InStep, ChoosingWords
  <2> QED
    BY <1>2, <1>3, <2>1, <2>2 DEF AtWork
<1> QED
  BY <1>1, <1>2, <1>3, <1>4, <1>7, PrivateStep DEF ChatTypeOK

LEMMA WriteConversationKeeps ==
  ASSUME ChatInv, NEW r \in Requests, WriteConversation(r)
  PROVE  ChatInv'
<1>1. PICK s \in Working : s = "after" /\ Write(r, s)
  BY DEF WriteConversation, Working
<1>2. step[r] = "write" /\ step[r] \in Working
  BY DEF WriteConversation, Working
<1>3. /\ said' = said /\ offers' = offers /\ conv' = conv /\ row' = row /\ turn' = turn
      /\ disturbed' = disturbed /\ step'[r] = "after"
  BY <1>1, <1>2, Wrote
<1>4. Uncounted(r)' = 0 /\ Uncounted(r) = 0
  BY <1>2, <1>3 DEF Uncounted
<1>5. row[r].count \in Nat
  BY <1>2, AtIt DEF Row
<1>6. ASSUME conv[r] \notin disturbed
      PROVE  /\ said[conv[r]] = row[r].count /\ offers[conv[r]] = 0
             /\ row[r].count <= 2 * MaxTurns + 1
             /\ row[r].status = "CHATTING" => row[r].count \div 2 < MaxTurns
             /\ convs'[conv[r]].count = row[r].count
             /\ convs'[conv[r]].status = row[r].status
             /\ convs'[conv[r]].vocab = row[r].vocab
  <2>1. InStep(r, conv[r]) /\ Orderly(conv[r])
    BY <1>2, <1>6, AtIt DEF AtWork
  <2>2. dirty[r] = Differing(conv[r], row[r])
    BY <1>2, <2>1 DEF InStep
  <2>3. /\ said[conv[r]] = row[r].count + Uncounted(r) /\ offers[conv[r]] = 0
        /\ row[r].count <= 2 * MaxTurns + 1
        /\ row[r].status = "CHATTING" => row[r].count \div 2 < MaxTurns
    BY <1>2, <2>1 DEF InStep, Orderly
  <2>4. convs'[conv[r]].count = row[r].count
    <3>1. "count" \notin dirty[r] => row[r].count = convs[conv[r]].count
      BY <2>2 DEF Differing, Columns
    <3> QED
      BY <1>1, <1>2, <3>1, Wrote
  <2>5. convs'[conv[r]].status = row[r].status
    <3>1. "status" \notin dirty[r] => row[r].status = convs[conv[r]].status
      BY <2>2 DEF Differing, Columns
    <3> QED
      BY <1>1, <1>2, <3>1, Wrote
  <2>6. convs'[conv[r]].vocab = row[r].vocab
    <3>1. "vocab" \notin dirty[r] => row[r].vocab = convs[conv[r]].vocab
      BY <2>2 DEF Differing, Columns
    <3> QED
      BY <1>1, <1>2, <3>1, Wrote
  <2> QED
    BY <1>4, <1>5, <2>3, <2>4, <2>5, <2>6
<1>7. AtWork(r)'
  <2>1. (row[r].count + Uncounted(r) <= said[conv[r]])'
    BY <1>2, <1>3, <1>4, <1>5, AtIt DEF AtWork
  <2>2. conv[r] \notin disturbed => InStep(r, conv[r])'
    <3> SUFFICES ASSUME conv[r] \notin disturbed PROVE InStep(r, conv[r])'
      OBVIOUS
    <3>1. said'[conv'[r]] = row'[r].count + Uncounted(r)'
      BY <1>3, <1>4, <1>5, <1>6
    <3> QED
      BY <1>3, <1>6, <3>1 DEF InStep, ChoosingWords
  <2> QED
    BY <1>3, <2>1, <2>2 DEF AtWork
<1>8. conv[r] \notin disturbed => Orderly(conv[r])'
  BY <1>3, <1>6 DEF Orderly
<1> QED
  BY <1>1, <1>2, <1>7, <1>8, WriteKeeps

-----------------------------------------------------------------------------
(* The end of a request. *)

LEMMA IdleIsNotWork == "idle" \notin Working /\ Seeking \cap Working = {}
BY DEF Working, Seeking

\* What leaving changes.
LEMMA Left ==
  ASSUME ChatTypeOK, NEW r \in Requests, Leave(r)
  PROVE  /\ step' \in [Requests -> {"idle"} \cup Seeking \cup Working] /\ step'[r] = "idle"
         /\ conv' \in [Requests -> Nat] /\ conv'[r] = 0 /\ row' \in [Requests -> Row]
         /\ dirty' \in [Requests -> SUBSET Columns] /\ turn' \in [Requests -> Turn]
         /\ \A q \in Requests \ {r} :
              /\ step'[q] = step[q] /\ conv'[q] = conv[q] /\ row'[q] = row[q]
              /\ dirty'[q] = dirty[q] /\ turn'[q] = turn[q]
<1>1. NewRow \in Row /\ NoTurn \in Turn
  BY DEF NewRow, Row, NoTurn, Turn
<1> HIDE DEF NewRow, NoTurn
<1> QED
  BY <1>1 DEF Leave, GoTo, ChatTypeOK

LEMMA LeftTyped ==
  ASSUME ChatTypeOK, NEW r \in Requests, Leave(r), convs' = convs, said' = said,
         offers' \in Seq(Nat), Len(offers') = Len(convs), disturbed' \subseteq Ids
  PROVE  ChatTypeOK' /\ Ids' = Ids
<1>1. /\ step' \in [Requests -> {"idle"} \cup Seeking \cup Working] /\ step'[r] = "idle"
      /\ conv' \in [Requests -> Nat] /\ conv'[r] = 0 /\ row' \in [Requests -> Row]
      /\ dirty' \in [Requests -> SUBSET Columns] /\ turn' \in [Requests -> Turn]
      /\ \A q \in Requests \ {r} : step'[q] = step[q] /\ conv'[q] = conv[q]
  BY Left
<1>2. Ids' = Ids
  BY DEF Ids
<1>3. ASSUME NEW q \in Requests
      PROVE  IF step'[q] \in Working THEN conv'[q] \in Ids' ELSE conv'[q] = 0
  BY <1>1, <1>2, IdleIsNotWork DEF ChatTypeOK
<1> QED
  BY <1>1, <1>2, <1>3 DEF ChatTypeOK

LEMMA FinishKeeps ==
  ASSUME ChatInv, NEW r \in Requests, Finish(r)
  PROVE  ChatInv'
<1>0. PICK c : c = conv[r]
  OBVIOUS
<1>1. /\ step[r] = "after" /\ step[r] \in Working /\ ChatTypeOK /\ Leave(r)
      /\ convs' = convs /\ said' = said /\ disturbed' = disturbed /\ c \in Ids
  BY <1>0, AtIt DEF Finish, Working, ChatInv
<1>2. /\ offers' \in Seq(Nat) /\ Len(offers') = Len(offers)
      /\ offers'[c] = (IF row[r].status = "DONE" THEN offers[c] + 1 ELSE offers[c])
      /\ \A d \in Ids \ {c} : offers'[d] = offers[d]
  <2>1. /\ offers \in Seq(Nat) /\ c \in 1..Len(offers) /\ offers[c] + 1 \in Nat
        /\ Ids = 1..Len(offers)
    BY <1>0, <1>1, AtIt, Tables DEF ChatTypeOK
  <2>2. CASE row[r].status = "DONE"
    <3>1. offers' = [offers EXCEPT ![c] = offers[c] + 1]
      BY <1>0, <2>2 DEF Finish
    <3> QED
      BY <2>1, <2>2, <3>1, Replaced
  <2>3. CASE row[r].status # "DONE"
    BY <2>1, <2>3 DEF Finish
  <2> QED
    BY <2>2, <2>3
<1>3. ChatTypeOK'
  BY <1>1, <1>2, LeftTyped DEF ChatTypeOK
<1>4. c \notin disturbed' => Orderly(c)'
  <2> SUFFICES ASSUME c \notin disturbed PROVE Orderly(c)'
    BY <1>1
  <2>1. /\ Orderly(c) /\ said[c] = row[r].count + 0 /\ row[r].count = convs[c].count
        /\ row[r].status = convs[c].status /\ (row[r].status = "DONE" => offers[c] = 0)
    <3>1. Orderly(c) /\ InStep(r, c)
      BY <1>0, <1>1, AtIt DEF AtWork
    <3>2. Uncounted(r) = 0
      BY <1>1 DEF Uncounted
    <3> QED
      BY <1>1, <3>1, <3>2 DEF InStep
  <2>2. convs[c].count \in Nat /\ offers[c] \in Nat /\ convs[c].status \in {"CHATTING", "DONE"}
    BY <1>0, <1>1, AtIt DEF Row
  <2> QED
    BY <1>1, <1>2, <2>1, <2>2 DEF Orderly
<1>5. /\ Ids' = Ids /\ said'[c] >= said[c] /\ convs'[c].count <= said'[c] /\ conv'[r] \in {c, 0}
      /\ step'[r] \notin Working
  <2>1. said[c] >= said[c] /\ convs[c].count <= said[c]
    BY <1>0, <1>1, AtIt
  <2> QED
    BY <1>1, <2>1, Left, IdleIsNotWork DEF Ids
<1> QED
  BY <1>0, <1>1, <1>2, <1>3, <1>4, <1>5, Left, Framed

\* Outside a conversation a request cannot disturb one.
LEMMA Aside ==
  ASSUME ChatInv, NEW r \in Requests, step[r] \notin Working, step'[r] \notin Working, ChatTypeOK',
         convs' = convs, said' = said, offers' = offers, disturbed' = disturbed,
         \A q \in Requests \ {r} :
            /\ step'[q] = step[q] /\ conv'[q] = conv[q] /\ row'[q] = row[q]
            /\ dirty'[q] = dirty[q] /\ turn'[q] = turn[q]
  PROVE  ChatInv'
<1>1. Ids' = Ids /\ conv[r] = 0 /\ conv'[r] = 0
  BY DEF Ids, ChatInv, ChatTypeOK
<1>2. \A q \in Requests : conv'[q] = conv[q]
  BY <1>1
<1>3. CountBacked'
  BY <1>1 DEF ChatInv, CountBacked
<1>4. ASSUME NEW q \in Requests, step'[q] \in Working PROVE AtWork(q)'
  <2>1. q # r /\ step[q] \in Working /\ AtWork(q)
    BY <1>4 DEF ChatInv
  <2>2. Uncounted(q)' = Uncounted(q) /\ Differing(conv[q], row[q])' = Differing(conv[q], row[q])
    BY <2>1 DEF Uncounted, Delta, Differing
  <2>3. InStep(q, conv[q]) => InStep(q, conv[q])'
    BY <2>1, <2>2 DEF InStep
  <2> QED
    BY <2>1, <2>2, <2>3 DEF AtWork
<1>5. Alone'
  <2> SUFFICES ASSUME NEW q \in Requests, NEW p \in Requests, step'[q] \in Working,
                      conv'[q] = conv'[p], conv'[q] \notin disturbed'
               PROVE  q = p
    BY DEF Alone
  <2>1. step[q] \in Working /\ conv[q] = conv[p] /\ conv[q] \notin disturbed
    BY <1>2
  <2> QED
    BY <2>1 DEF ChatInv, Alone
<1>6. \A c \in (Ids \ disturbed)' : Orderly(c)'
  BY <1>1, <1>2 DEF ChatInv, Orderly
<1> QED
  BY <1>3, <1>4, <1>5, <1>6 DEF ChatInv

LEMMA AbortKeeps ==
  ASSUME ChatInv, NEW r \in Requests, Abort(r)
  PROVE  ChatInv'
<1>1. /\ ChatTypeOK /\ Leave(r) /\ convs' = convs /\ said' = said /\ offers' = offers
      /\ offers \in Seq(Nat) /\ Len(offers) = Len(convs) /\ disturbed \subseteq Ids
      /\ disturbed' = IF HalfSaved(r) THEN disturbed \cup {conv[r]} ELSE disturbed
  BY DEF Abort, ChatInv, ChatTypeOK
<1>2. HalfSaved(r) => step[r] \in Working /\ conv[r] \in Ids
  BY <1>1 DEF HalfSaved, Working, ChatTypeOK
<1>3. disturbed \subseteq disturbed' /\ disturbed' \subseteq Ids
  BY <1>1, <1>2
<1>4. ChatTypeOK' /\ Ids' = Ids
  BY <1>1, <1>3, LeftTyped
<1>5. step'[r] \notin Working /\ conv'[r] = 0
  BY <1>1, Left, IdleIsNotWork
<1>6. \A q \in Requests \ {r} :
         /\ step'[q] = step[q] /\ conv'[q] = conv[q] /\ row'[q] = row[q]
         /\ dirty'[q] = dirty[q] /\ turn'[q] = turn[q]
  BY <1>1, Left
<1>7. CASE step[r] \notin Working
  BY <1>1, <1>2, <1>4, <1>5, <1>6, <1>7, Aside
<1>8. CASE step[r] \in Working
  <2>1. PICK c : c = conv[r]
    OBVIOUS
  <2>2. said'[c] >= said[c] /\ convs'[c].count <= said'[c]
    BY <1>1, <1>8, <2>1, AtIt
  <2>3. c \notin disturbed' => Orderly(c)'
    <3> SUFFICES ASSUME c \notin disturbed' PROVE Orderly(c)'
      OBVIOUS
    <3>1. ~HalfSaved(r) /\ c \notin disturbed
      BY <1>1, <1>3, <2>1
    <3>2. Orderly(c) /\ InStep(r, c) /\ row[r].count \in Nat
      BY <1>8, <2>1, <3>1, AtIt DEF AtWork, Row
    <3>3. Uncounted(r) = 0
      BY <3>1 DEF Uncounted, HalfSaved
    <3>4. said[c] = row[r].count + Uncounted(r) /\ row[r].count = convs[c].count
      BY <3>1, <3>2 DEF InStep, HalfSaved
    <3>5. convs[c].count = said[c]
      BY <3>2, <3>3, <3>4
    <3> QED
      BY <1>1, <3>2, <3>5 DEF Orderly
  <2> QED
    BY <1>1, <1>3, <1>4, <1>5, <1>6, <1>8, <2>1, <2>2, <2>3, Framed
<1> QED
  BY <1>7, <1>8

-----------------------------------------------------------------------------
(* The start of a request. *)

\* Taking up a conversation, one that was there or a new one.
LEMMA Begins ==
  ASSUME ChatInv, ChatTypeOK', NEW r \in Requests, step[r] \notin Working, NEW c \in Ids',
         conv'[r] = c, row'[r] = convs'[c], convs'[c].status = "CHATTING",
         step'[r] = AfterLoad(convs'[c]), disturbed \subseteq disturbed', Ids \subseteq Ids',
         \A q \in Requests \ {r} : conv[q] = c => c \in disturbed',
         \A q \in Requests \ {r} :
            /\ step'[q] = step[q] /\ conv'[q] = conv[q] /\ row'[q] = row[q]
            /\ dirty'[q] = dirty[q] /\ turn'[q] = turn[q],
         \A d \in Ids :
            convs'[d] = convs[d] /\ said'[d] = said[d] /\ offers'[d] = offers[d],
         \A d \in Ids' \ Ids : d = c /\ convs'[d] = NewRow /\ said'[d] = 0 /\ offers'[d] = 0
  PROVE  ChatInv'
<1>1. conv[r] = 0 /\ 0 \notin Ids /\ ChatTypeOK /\ 0 \notin Ids'
  <2>1. conv[r] = 0 /\ 0 \notin Ids /\ ChatTypeOK
    BY Tables DEF ChatInv, ChatTypeOK
  <2>2. Ids' = 1..Len(convs') /\ Len(convs') \in Nat
    BY DEF ChatTypeOK, Ids
  <2> QED
    BY <2>1, <2>2
<1>2. CountBacked'
  <2>1. NewRow.count = 0 /\ 0 <= 0
    BY DEF NewRow
  <2> QED
    BY <2>1 DEF ChatInv, CountBacked
<1>3. c \notin disturbed' => Orderly(c)' /\ convs'[c].count = said'[c]
  <2> SUFFICES ASSUME c \notin disturbed' PROVE Orderly(c)' /\ convs'[c].count = said'[c]
    OBVIOUS
  <2>1. CASE c \in Ids
    <3>1. \A q \in Requests : conv[q] # c
      BY <1>1, <2>1
    <3>2. Orderly(c)
      BY <2>1 DEF ChatInv
    <3> QED
      BY <2>1, <3>1, <3>2 DEF Orderly
  <2>2. CASE c \notin Ids
    <3>1. convs'[c].count = 0 /\ said'[c] = 0 /\ offers'[c] = 0
      BY <2>2 DEF NewRow
    <3>2. 0 \div 2 < MaxTurns /\ 0 <= 2 * MaxTurns + 1 /\ 0 <= 1
      BY TurnsAssumption
    <3> QED
      BY <3>1, <3>2 DEF Orderly
  <2> QED
    BY <2>1, <2>2
<1>4. step'[r] \in {"vocab", "model"} /\ (step'[r] = "vocab" <=> convs'[c].vocab = Null)
  BY DEF AfterLoad
<1>5. ASSUME NEW q \in Requests, step'[q] \in Working PROVE AtWork(q)'
  <2>1. CASE q = r
    <3>1. Uncounted(r)' = 0
      BY <1>4 DEF Uncounted
    <3>2. row'[r].count \in Nat
      BY DEF ChatTypeOK, Row
    <3>3. (row[r].count + Uncounted(r) <= said[conv[r]])'
      BY <1>2, <3>1, <3>2 DEF CountBacked
    <3>4. conv'[r] \notin disturbed' => InStep(r, conv[r])'
      <4> SUFFICES ASSUME c \notin disturbed' PROVE InStep(r, conv[r])'
        OBVIOUS
      <4>1. said'[c] = row'[r].count + Uncounted(r)'
        BY <1>3, <3>1, <3>2
      <4> QED
        BY <1>4, <4>1 DEF InStep, ChoosingWords
    <3> QED
      BY <1>4, <2>1, <3>3, <3>4 DEF AtWork
  <2>2. CASE q # r
    <3>1. step[q] \in Working /\ conv[q] \in Ids /\ AtWork(q)
      BY <1>1, <1>5, <2>2 DEF ChatInv, ChatTypeOK
    <3>2. /\ Uncounted(q)' = Uncounted(q)
          /\ Differing(conv[q], row[q])' = Differing(conv[q], row[q])
      BY <2>2, <3>1 DEF Uncounted, Delta, Differing
    <3>3. InStep(q, conv[q]) => InStep(q, conv[q])'
      BY <2>2, <3>1, <3>2 DEF InStep
    <3> QED
      BY <2>2, <3>1, <3>2, <3>3 DEF AtWork
  <2> QED
    BY <2>1, <2>2
<1>6. Alone'
  <2> SUFFICES ASSUME NEW q \in Requests, NEW p \in Requests, step'[q] \in Working,
                      conv'[q] = conv'[p], conv'[q] \notin disturbed'
               PROVE  q = p
    BY DEF Alone
  <2>1. CASE q = r \/ p = r
    BY <2>1
  <2>2. CASE q # r /\ p # r
    <3>1. step[q] \in Working /\ conv[q] = conv[p] /\ conv[q] \notin disturbed
      BY <2>2
    <3> QED
      BY <3>1 DEF ChatInv, Alone
  <2> QED
    BY <2>1, <2>2
<1>7. ASSUME NEW d \in (Ids \ disturbed)' PROVE Orderly(d)'
  <2>1. CASE d = c
    BY <1>3, <1>7, <2>1
  <2>2. CASE d # c
    <3>1. d \in Ids /\ Orderly(d)
      BY <1>7, <2>2 DEF ChatInv
    <3>2. (\A q \in Requests : conv'[q] # d) => \A q \in Requests : conv[q] # d
      BY <1>1, <3>1
    <3> QED
      BY <3>1, <3>2 DEF Orderly
  <2> QED
    BY <2>1, <2>2
<1> QED
  BY <1>2, <1>5, <1>6, <1>7 DEF ChatInv

\* Still looking, or gone again.
LEMMA MovesKeeps ==
  ASSUME ChatInv, NEW r \in Requests, step[r] \in {"idle"} \cup Seeking,
         NEW s \in {"idle"} \cup Seeking, Moves(r, s)
  PROVE  ChatInv'
<1>1. ChatTypeOK /\ step[r] \notin Working /\ s \notin Working
  BY IdleIsNotWork DEF ChatInv
<1>2. /\ step' = [step EXCEPT ![r] = s] /\ convs' = convs /\ said' = said /\ offers' = offers
      /\ conv' = conv /\ row' = row /\ dirty' = dirty /\ turn' = turn /\ disturbed' = disturbed
  BY DEF Moves, GoTo
<1>3. /\ step' \in [Requests -> {"idle"} \cup Seeking \cup Working] /\ step'[r] = s
      /\ \A q \in Requests \ {r} : step'[q] = step[q]
  BY <1>1, <1>2 DEF ChatTypeOK
<1>4. Ids' = Ids /\ \A q \in Requests : step'[q] \in Working <=> step[q] \in Working
  BY <1>1, <1>2, <1>3 DEF Ids
<1>5. ChatTypeOK'
  BY <1>1, <1>2, <1>3, <1>4 DEF ChatTypeOK
<1> QED
  BY <1>1, <1>2, <1>3, <1>5, Aside

LEMMA HoldKeeps ==
  ASSUME ChatInv, NEW r \in Requests, step[r] \in {"idle"} \cup Seeking, NEW c \in Ids, Hold(r, c)
  PROVE  ChatInv'
<1>1. /\ ChatTypeOK /\ step[r] \notin Working /\ convs[c] \in Row /\ c \in Nat
      /\ AfterLoad(convs[c]) \in Working
  <2>1. ChatTypeOK /\ step[r] \notin Working
    BY IdleIsNotWork DEF ChatInv
  <2>2. convs[c] \in Row /\ c \in Nat
    BY <2>1, Tables
  <2>3. AfterLoad(convs[c]) \in Working
    BY DEF AfterLoad, Working
  <2> QED
    BY <2>1, <2>2, <2>3
<1>2. CASE convs[c].status = "DONE"
  <2>1. Moves(r, "idle")
    BY <1>2 DEF Hold, Moves
  <2> QED
    BY <2>1, MovesKeeps
<1>3. CASE convs[c].status # "DONE"
  <2>1. /\ step' = [step EXCEPT ![r] = AfterLoad(convs[c])]
        /\ conv' = [conv EXCEPT ![r] = c] /\ row' = [row EXCEPT ![r] = convs[c]]
        /\ disturbed' = (IF Holders(c) = {} THEN disturbed ELSE disturbed \cup {c})
        /\ convs' = convs /\ said' = said /\ offers' = offers /\ dirty' = dirty /\ turn' = turn
    BY <1>3 DEF Hold, GoTo
  <2>2. /\ step'[r] = AfterLoad(convs[c]) /\ conv'[r] = c /\ row'[r] = convs[c]
        /\ \A q \in Requests \ {r} :
             /\ step'[q] = step[q] /\ conv'[q] = conv[q] /\ row'[q] = row[q]
             /\ dirty'[q] = dirty[q] /\ turn'[q] = turn[q]
    BY <1>1, <2>1 DEF ChatTypeOK
  <2>3. convs[c].status = "CHATTING"
    BY <1>1, <1>3 DEF Row
  <2>4. Ids' = Ids /\ disturbed \subseteq disturbed' /\ disturbed' \subseteq Ids
    BY <1>1, <2>1 DEF Ids, ChatTypeOK
  <2>5. \A q \in Requests \ {r} : conv[q] = c => c \in disturbed'
    BY <2>1 DEF Holders
  <2>6. ChatTypeOK'
    <3>1. /\ step' \in [Requests -> {"idle"} \cup Seeking \cup Working]
          /\ conv' \in [Requests -> Nat] /\ row' \in [Requests -> Row]
      BY <1>1, <2>1 DEF ChatTypeOK
    <3>2. ASSUME NEW q \in Requests
          PROVE  IF step'[q] \in Working THEN conv'[q] \in Ids' ELSE conv'[q] = 0
      <4>1. CASE q = r
        BY <1>1, <2>2, <2>4, <4>1
      <4>2. CASE q # r
        BY <1>1, <2>2, <2>4, <4>2 DEF ChatTypeOK
      <4> QED
        BY <4>1, <4>2
    <3> QED
      BY <1>1, <2>1, <2>4, <3>1, <3>2 DEF ChatTypeOK
  <2> QED
    BY <1>1, <2>1, <2>2, <2>3, <2>4, <2>5, <2>6, Begins
<1> QED
  BY <1>2, <1>3

LEMMA CreateKeeps ==
  ASSUME ChatInv, NEW r \in Requests, Create(r)
  PROVE  ChatInv'
<1>1. /\ ChatTypeOK /\ step[r] = "insert" /\ step[r] \in {"idle"} \cup Seeking
      /\ step[r] \notin Working /\ Ids = 1..Len(convs) /\ Len(convs) \in Nat
      /\ NewRow \in Row /\ NewRow.status = "CHATTING" /\ AfterLoad(NewRow) = "vocab"
      /\ "requery" \in Seeking /\ "vocab" \in Working
  BY IdleIsNotWork, Tables DEF ChatInv, Create, Seeking, NewRow, Row, AfterLoad, Working
<1>2. CASE Moves(r, "requery")
  BY <1>1, <1>2, MovesKeeps
<1>3. CASE ~Moves(r, "requery")
  <2> HIDE DEF NewRow
  <2>1. /\ convs' = Append(convs, NewRow) /\ said' = Append(said, 0) /\ offers' = Append(offers, 0)
        /\ step' = [step EXCEPT ![r] = "vocab"]
        /\ conv' = [conv EXCEPT ![r] = Len(convs')] /\ row' = [row EXCEPT ![r] = NewRow]
        /\ dirty' = dirty /\ turn' = turn /\ disturbed' = disturbed
    BY <1>3 DEF Create, GoTo
  <2>2. PICK c : c = Len(convs) + 1
    OBVIOUS
  <2>3. /\ convs \in Seq(Row) /\ said \in Seq(Nat) /\ offers \in Seq(Nat) /\ 0 \in Nat
        /\ Len(said) = Len(convs) /\ Len(offers) = Len(convs)
    BY <1>1 DEF ChatTypeOK
  <2>4. /\ convs' \in Seq(Row) /\ Len(convs') = c /\ convs'[c] = NewRow
        /\ \A d \in Ids : convs'[d] = convs[d]
    BY <1>1, <2>1, <2>2, <2>3, Added
  <2>5. /\ said' \in Seq(Nat) /\ Len(said') = c /\ said'[c] = 0
        /\ \A d \in Ids : said'[d] = said[d]
    BY <1>1, <2>1, <2>2, <2>3, Added
  <2>6. /\ offers' \in Seq(Nat) /\ Len(offers') = c /\ offers'[c] = 0
        /\ \A d \in Ids : offers'[d] = offers[d]
    BY <1>1, <2>1, <2>2, <2>3, Added
  <2>7. c \in Nat /\ c \in Ids' /\ Ids' = Ids \cup {c} /\ c \notin Ids
    BY <1>1, <2>2, <2>4 DEF Ids
  <2>8. /\ step'[r] = "vocab" /\ conv'[r] = c /\ row'[r] = NewRow
        /\ \A q \in Requests \ {r} :
             /\ step'[q] = step[q] /\ conv'[q] = conv[q] /\ row'[q] = row[q]
             /\ dirty'[q] = dirty[q] /\ turn'[q] = turn[q]
    BY <1>1, <2>1, <2>4 DEF ChatTypeOK
  <2>9. \A q \in Requests \ {r} : conv[q] # c
    <3>1. c # 0
      BY <1>1, <2>2
    <3> QED
      BY <1>1, <2>7, <3>1 DEF ChatTypeOK
  <2>10. ChatTypeOK'
    <3>1. /\ step' \in [Requests -> {"idle"} \cup Seeking \cup Working]
          /\ conv' \in [Requests -> Nat] /\ row' \in [Requests -> Row]
      BY <1>1, <2>1, <2>4, <2>7 DEF ChatTypeOK
    <3>2. ASSUME NEW q \in Requests
          PROVE  IF step'[q] \in Working THEN conv'[q] \in Ids' ELSE conv'[q] = 0
      BY <1>1, <2>7, <2>8 DEF ChatTypeOK
    <3> QED
      BY <1>1, <2>1, <2>4, <2>5, <2>6, <2>7, <3>1, <3>2 DEF ChatTypeOK
  <2>11. /\ row'[r] = convs'[c] /\ convs'[c].status = "CHATTING"
         /\ step'[r] = AfterLoad(convs'[c]) /\ disturbed \subseteq disturbed' /\ Ids \subseteq Ids'
         /\ \A d \in Ids :
              convs'[d] = convs[d] /\ said'[d] = said[d] /\ offers'[d] = offers[d]
         /\ \A d \in Ids' \ Ids :
              d = c /\ convs'[d] = NewRow /\ said'[d] = 0 /\ offers'[d] = 0
    BY <1>1, <2>1, <2>4, <2>5, <2>6, <2>7, <2>8
  <2> QED
    BY <1>1, <2>7, <2>8, <2>9, <2>10, <2>11, Begins
<1> QED
  BY <1>2, <1>3

-----------------------------------------------------------------------------
(* The theorems. *)

LEMMA ChatInitHolds == ChatInit => ChatInv
<1> SUFFICES ASSUME ChatInit PROVE ChatInv
  OBVIOUS
<1>1. Ids = {} /\ convs \in Seq(Row) /\ said \in Seq(Nat) /\ offers \in Seq(Nat)
      /\ Len(convs) = 0 /\ Len(said) = 0 /\ Len(offers) = 0
  BY DEF ChatInit, Ids
<1>2. \A r \in Requests : step[r] = "idle" /\ step[r] \notin Working /\ conv[r] = 0
  BY IdleIsNotWork DEF ChatInit
<1>3. NewRow \in Row /\ NoTurn \in Turn
  BY DEF NewRow, Row, NoTurn, Turn
<1> HIDE DEF NewRow, NoTurn
<1>4. ChatTypeOK
  BY <1>1, <1>2, <1>3 DEF ChatInit, ChatTypeOK
<1> QED
  BY <1>1, <1>2, <1>4 DEF ChatInv, CountBacked, Alone

LEMMA ChatNextKeeps == ChatInv /\ [ChatNext]_chatVars => ChatInv'
<1> SUFFICES ASSUME ChatInv, [ChatNext]_chatVars PROVE ChatInv'
  OBVIOUS
<1>1. ASSUME NEW r \in Requests, Load(r) \/ FindActive(r) \/ Requery(r) PROVE ChatInv'
  <2>1. /\ step[r] \in {"idle"} \cup Seeking
        /\ {"find", "insert", "requery"} \subseteq Seeking
    BY <1>1 DEF Load, FindActive, Requery, Seeking
  <2> QED
    BY <1>1, <2>1, HoldKeeps, MovesKeeps DEF Load, FindActive, Requery, HoldActive, Active
<1>2. ASSUME NEW r \in Requests,
             WriteVocabulary(r) \/ SelectVocabulary(r) \/ SaveNoVocabulary(r) \/ WriteNoVocabulary(r)
      PROVE  ChatInv'
  <2>1. "model" \in Working
    BY DEF Working
  <2> QED
    BY <1>2, <2>1, ChoosingKeeps, WriteVocabularyKeeps, KeepNoVocabularyKeeps
       DEF WriteVocabulary, WriteNoVocabulary, ChoosingWords
<1>3. ASSUME UNCHANGED chatVars PROVE ChatInv'
  <2>1. Ids' = Ids
    BY <1>3 DEF chatVars, Ids
  <2>2. ChatTypeOK' /\ CountBacked' /\ Alone'
    BY <1>3, <2>1 DEF chatVars, ChatInv, ChatTypeOK, CountBacked, Alone
  <2>3. ASSUME NEW r \in Requests, step'[r] \in Working PROVE AtWork(r)'
    <3>1. step[r] \in Working /\ AtWork(r)
      BY <1>3, <2>3 DEF chatVars, ChatInv
    <3>2. InStep(r, conv[r])' = InStep(r, conv[r]) /\ Uncounted(r)' = Uncounted(r)
      BY <1>3 DEF chatVars, InStep, Uncounted, Delta, Differing
    <3> QED
      BY <1>3, <3>1, <3>2 DEF chatVars, AtWork
  <2>4. ASSUME NEW c \in (Ids \ disturbed)' PROVE Orderly(c)'
    BY <1>3, <2>1, <2>4 DEF chatVars, ChatInv, Orderly
  <2> QED
    BY <2>2, <2>3, <2>4 DEF ChatInv
<1> QED
  BY <1>1, <1>2, <1>3, CreateKeeps, AskModelKeeps, SaveMessageKeeps, SelectConversationKeeps,
     WriteConversationKeeps, FinishKeeps, AbortKeeps DEF ChatNext, Serve

\* The inductive invariant, in every reachable state.
THEOREM ChatInvariance == ChatSpec => []ChatInv
BY ChatInitHolds, ChatNextKeeps, PTL DEF ChatSpec

\* Type correctness of the turns of a roleplay (ScenarioChatService.chat).
THEOREM ChatTypes == ChatSpec => []ChatTypeOK
BY ChatInvariance, PTL DEF ChatInv

\* messageCount never exceeds the messages stored, whatever overlaps, overwrites
\* the other's row or dies half way.
THEOREM CountsAreBacked == ChatSpec => []CountBacked
BY ChatInvariance, PTL DEF ChatInv

\* The count of a conversation that was never shared nor left half saved is
\* exact between turns, and the turn cap closes it.
LEMMA ExactNow == ChatInv => ExactWhenSerial
<1> SUFFICES ASSUME ChatInv, NEW c \in Ids \ disturbed, ~Saving(c)
             PROVE  /\ convs[c].count = said[c]
                    /\ convs[c].status = "CHATTING" => said[c] \div 2 < MaxTurns
                    /\ said[c] <= 2 * MaxTurns + 2
  BY DEF ExactWhenSerial
<1>1. Orderly(c) /\ convs[c].count \in Nat /\ c # 0
  BY Tables DEF ChatInv, Row
<1>2. convs[c].count = said[c]
  <2>1. CASE \A r \in Requests : conv[r] # c
    BY <1>1, <2>1 DEF Orderly
  <2>2. ASSUME NEW r \in Requests, conv[r] = c PROVE convs[c].count = said[c]
    <3>1. step[r] \in Working /\ step[r] \notin {"reply", "update", "write"}
      BY <1>1, <2>2 DEF Saving, Holders, ChatInv, ChatTypeOK
    <3>2. InStep(r, c) /\ row[r].count \in Nat
      BY <2>2, <3>1, AtIt DEF AtWork, Row
    <3>3. Uncounted(r) = 0
      BY <3>1 DEF Uncounted
    <3>4. said[c] = row[r].count + Uncounted(r) /\ row[r].count = convs[c].count
      BY <3>1, <3>2 DEF InStep
    <3> QED
      BY <3>2, <3>3, <3>4
  <2> QED
    BY <2>1, <2>2
<1>3. 2 * MaxTurns + 1 <= 2 * MaxTurns + 2
  BY TurnsAssumption
<1> QED
  BY <1>1, <1>2, <1>3, TurnsAssumption DEF Orderly

\* So it is throughout, and the transcript fits the history sent to the model.
THEOREM SerialChatsAreExact == ChatSpec => []ExactWhenSerial
BY ExactNow, ChatInvariance, PTL

\* Which rows a step may touch.
LEMMA Touches ==
  ASSUME ChatInv, NEW r \in Requests, Serve(r) \/ Abort(r), NEW c \in Ids
  PROVE  /\ c \in Ids' /\ disturbed \subseteq disturbed'
         /\ \/ convs'[c] = convs[c] /\ said'[c] = said[c]
            \/ /\ c = conv[r] /\ step[r] \in Working \ {"after"}
               /\ convs'[c].vocab = convs[c].vocab \/ convs'[c].vocab = row[r].vocab
<1>1. ChatTypeOK /\ Ids = 1..Len(convs) /\ Len(convs) \in Nat
  BY Tables DEF ChatInv
<1>2. CASE convs' = convs /\ said' = said /\ disturbed \subseteq disturbed'
  BY <1>2 DEF Ids
<1>3. CASE Create(r) /\ convs' # convs
  <2>1. convs' = Append(convs, NewRow) /\ said' = Append(said, 0) /\ disturbed' = disturbed
    BY <1>3 DEF Create, Moves
  <2>2. NewRow \in Row /\ convs \in Seq(Row) /\ said \in Seq(Nat) /\ Len(said) = Len(convs)
    BY <1>1 DEF ChatTypeOK, NewRow, Row
  <2> HIDE DEF NewRow
  <2> QED
    BY <1>1, <2>1, <2>2, Added DEF Ids
<1>4. CASE SaveUserMessage(r) \/ SaveReply(r)
  <2>1. /\ step[r] \in Working \ {"after"} /\ convs' = convs /\ disturbed' = disturbed
        /\ said' = [said EXCEPT ![conv[r]] = said[conv[r]] + 1]
    BY <1>4 DEF SaveUserMessage, SaveReply, Working
  <2>2. said \in Seq(Nat) /\ conv[r] \in 1..Len(said) /\ said[conv[r]] + 1 \in Nat
        /\ Ids = 1..Len(said)
    BY <1>1, <2>1, AtIt DEF ChatTypeOK
  <2>3. c # conv[r] => said'[c] = said[c]
    BY <2>1, <2>2, Replaced
  <2> QED
    BY <2>1, <2>3 DEF Ids
<1>5. ASSUME NEW s \in Working, Write(r, s), step[r] \in Working \ {"after"}
      PROVE  /\ c \in Ids' /\ disturbed \subseteq disturbed'
             /\ \/ convs'[c] = convs[c] /\ said'[c] = said[c]
                \/ /\ c = conv[r]
                   /\ convs'[c].vocab = convs[c].vocab \/ convs'[c].vocab = row[r].vocab
  BY <1>5, Wrote
<1>6. ASSUME NEW d \in Ids, Hold(r, d)
      PROVE  convs' = convs /\ said' = said /\ disturbed \subseteq disturbed'
  BY <1>6 DEF Hold
<1>7. CASE WriteVocabulary(r) \/ WriteNoVocabulary(r) \/ WriteConversation(r)
  <2>1. {"model", "after"} \subseteq Working /\ step[r] \in Working \ {"after"}
    BY <1>7 DEF WriteVocabulary, WriteNoVocabulary, WriteConversation, Working
  <2>2. CASE \E s \in Working : Write(r, s)
    BY <1>5, <2>1, <2>2
  <2>3. CASE Moves(r, "model")
    BY <1>2, <2>3 DEF Moves
  <2> QED
    BY <1>7, <2>1, <2>2, <2>3 DEF WriteVocabulary, WriteNoVocabulary, WriteConversation
<1>8. CASE Load(r) \/ FindActive(r) \/ Requery(r)
  <2>1. convs' = convs /\ said' = said /\ disturbed \subseteq disturbed'
    BY <1>6, <1>8 DEF Load, FindActive, Requery, HoldActive, Active, Moves
  <2> QED
    BY <1>2, <2>1
<1>9. CASE \/ SelectVocabulary(r) \/ SaveNoVocabulary(r) \/ AskModel(r)
           \/ SelectConversation(r) \/ Finish(r) \/ Abort(r)
  BY <1>2, <1>9
     DEF SelectVocabulary, SaveNoVocabulary, AskModel, SelectConversation, Finish, Abort, Select
<1>10. CASE Create(r) /\ convs' = convs
  <2>1. convs # Append(convs, NewRow)
    <3>1. NewRow \in Row /\ convs \in Seq(Row)
      BY <1>1 DEF ChatTypeOK, NewRow, Row
    <3> HIDE DEF NewRow
    <3>2. Len(Append(convs, NewRow)) = Len(convs) + 1
      BY <3>1, AppendProperties
    <3> QED
      BY <1>1, <3>2
  <2> QED
    BY <1>2, <1>10, <2>1 DEF Create, Moves
<1> QED
  BY <1>3, <1>4, <1>7, <1>8, <1>9, <1>10 DEF Serve

\* A conversation that only one request works on and is still CHATTING.
LEMMA OwnConversation ==
  ASSUME ChatInv, NEW r \in Requests, step[r] \in Working \ {"after"}, conv[r] \notin disturbed
  PROVE  /\ convs[conv[r]].status = "CHATTING"
         /\ convs[conv[r]].vocab = Null \/ row[r].vocab = convs[conv[r]].vocab
BY AtIt DEF AtWork, InStep

\* A DONE conversation that was never shared nor left half saved stays as it
\* is, and its end is offered to personalization at most once.
THEOREM SerialChatsAreFinal == ChatSpec => FinalWhenSerial
<1>1. ChatInv /\ ChatInv' /\ [ChatNext]_chatVars =>
        [\A c \in Ids : convs[c].status = "DONE" /\ c \notin disturbed' =>
           convs'[c] = convs[c] /\ said'[c] = said[c] /\ offers'[c] <= 1]_chatVars
  <2> SUFFICES ASSUME ChatInv, ChatInv', NEW r \in Requests, Serve(r) \/ Abort(r),
                      NEW c \in Ids, convs[c].status = "DONE", c \notin disturbed'
               PROVE  convs'[c] = convs[c] /\ said'[c] = said[c] /\ offers'[c] <= 1
    BY DEF ChatNext
  <2>1. c \in Ids' \ disturbed' /\ c \notin disturbed
    BY Touches
  <2>2. offers'[c] <= 1
    BY <2>1 DEF ChatInv, Orderly
  <2>3. convs'[c] = convs[c] /\ said'[c] = said[c]
    BY <2>1, Touches, OwnConversation
  <2> QED
    BY <2>2, <2>3
<1> QED
  BY <1>1, ChatInvariance, PTL DEF ChatSpec, FinalWhenSerial

\* The words injected into such a conversation stay the same.
THEOREM SerialWordsStay == ChatSpec => InjectedOnce
<1>1. ChatInv /\ [ChatNext]_chatVars =>
        [\A c \in Ids : convs[c].vocab # Null /\ c \notin disturbed' =>
           convs'[c].vocab = convs[c].vocab]_chatVars
  <2> SUFFICES ASSUME ChatInv, NEW r \in Requests, Serve(r) \/ Abort(r),
                      NEW c \in Ids, convs[c].vocab # Null, c \notin disturbed'
               PROVE  convs'[c].vocab = convs[c].vocab
    BY DEF ChatNext
  <2>1. c \notin disturbed
    BY Touches
  <2> QED
    BY <2>1, Touches, OwnConversation
<1> QED
  BY <1>1, ChatInvariance, PTL DEF ChatSpec, InjectedOnce

-----------------------------------------------------------------------------
(* ScenarioChat implements Dialogue. *)

\* By the time the model is asked, words are chosen; and a save counts what one
\* turn can have stored.
Paced == \A r \in Requests :
    /\ step[r] \in Working \ {"vocab"} => row[r].vocab # Null
    /\ step[r] = "write" /\ conv[r] \notin disturbed =>
         row[r].count - convs[conv[r]].count \in 0..2

\* What a reader of the database sees of c, apart from a turn being saved.
Seen(c) == IF c \in disturbed THEN said[c] ELSE convs[c].count

\* A request changes nothing that another has in memory.
LEMMA Others ==
  ASSUME ChatTypeOK, NEW r \in Requests, Serve(r) \/ Abort(r), NEW q \in Requests \ {r}
  PROVE  step'[q] = step[q] /\ conv'[q] = conv[q] /\ row'[q] = row[q]
<1> USE DEF ChatTypeOK, GoTo
<1>1. CASE \/ Load(r) \/ FindActive(r) \/ Create(r) \/ Requery(r)
  <2>1. ASSUME NEW c \in Ids, Hold(r, c) PROVE step'[q] = step[q] /\ conv'[q] = conv[q] /\ row'[q] = row[q]
    BY <2>1 DEF Hold
  <2>2. ASSUME NEW s, Moves(r, s) PROVE step'[q] = step[q] /\ conv'[q] = conv[q] /\ row'[q] = row[q]
    BY <2>2 DEF Moves
  <2>3. CASE Create(r)
    BY <2>2, <2>3 DEF Create
  <2> QED
    BY <1>1, <2>1, <2>2, <2>3 DEF Load, FindActive, Requery, HoldActive, Active
<1>2. CASE SelectVocabulary(r) \/ SaveNoVocabulary(r) \/ SelectConversation(r)
  BY <1>2 DEF SelectVocabulary, SaveNoVocabulary, SelectConversation, Select
<1>3. CASE WriteVocabulary(r) \/ WriteNoVocabulary(r) \/ WriteConversation(r)
  BY <1>3 DEF WriteVocabulary, WriteNoVocabulary, WriteConversation, Write, Moves
<1>4. CASE AskModel(r) \/ SaveUserMessage(r) \/ SaveReply(r)
  BY <1>4 DEF AskModel, SaveUserMessage, SaveReply
<1>5. CASE Finish(r) \/ Abort(r)
  BY <1>5, Left DEF Finish, Abort
<1> QED
  BY <1>1, <1>2, <1>3, <1>4, <1>5 DEF Serve

\* What one request adds to a turn.
LEMMA PacedStep ==
  ASSUME ChatInv, Paced, NEW r \in Requests, Serve(r) \/ Abort(r)
  PROVE  /\ step'[r] \in Working \ {"vocab"} => row'[r].vocab # Null
         /\ step'[r] = "write" /\ conv'[r] \notin disturbed' =>
              row'[r].count - convs'[conv'[r]].count \in 0..2
<1>1. ChatTypeOK /\ "idle" \notin Working /\ Seeking \cap Working = {}
  BY IdleIsNotWork DEF ChatInv
<1>2. CASE \/ Load(r) \/ FindActive(r) \/ Create(r) \/ Requery(r)
  <2>1. ASSUME NEW c \in Ids, Hold(r, c)
        PROVE  step'[r] \in {"idle", "vocab"} \/ (step'[r] = "model" /\ row'[r].vocab # Null)
    BY <1>1, <2>1 DEF Hold, GoTo, AfterLoad, ChatTypeOK
  <2>2. ASSUME NEW s \in {"idle"} \cup Seeking, Moves(r, s) PROVE step'[r] \in {"idle"} \cup Seeking
    BY <1>1, <2>2 DEF Moves, GoTo, ChatTypeOK
  <2>3. CASE Create(r)
    BY <1>1, <2>3 DEF Create, Moves, GoTo, ChatTypeOK, Seeking, Working
  <2> QED
    BY <1>1, <1>2, <2>1, <2>2, <2>3
       DEF Load, FindActive, Requery, HoldActive, Active, Seeking, Working
<1>3. CASE SelectVocabulary(r) \/ SaveNoVocabulary(r)
  <2>1. PICK p \in Picks, s \in {"vocab write", "empty write"} :
          Select(r, [row[r] EXCEPT !.vocab = p], s)
    BY <1>3, PicksAssumption DEF SelectVocabulary, SaveNoVocabulary
  <2>2. step'[r] = s /\ row'[r].vocab = p
    BY <1>1, <2>1 DEF Select, GoTo, ChatTypeOK, Row
  <2> QED
    BY <2>2, PicksAssumption
<1>4. CASE \/ WriteVocabulary(r) \/ WriteNoVocabulary(r) \/ WriteConversation(r)
           \/ AskModel(r) \/ SaveUserMessage(r) \/ SaveReply(r)
  <2>1. step[r] \in Working \ {"vocab"} /\ row'[r] = row[r] /\ step'[r] # "write"
    BY <1>1, <1>4 DEF WriteVocabulary, WriteNoVocabulary, WriteConversation, Write, Moves, GoTo,
       AskModel, AfterModel, SaveUserMessage, SaveReply, Working, ChatTypeOK
  <2> QED
    BY <2>1 DEF Paced
<1>5. CASE SelectConversation(r)
  <2>1. step[r] = "update" /\ step[r] \in Working \ {"vocab"} /\ Delta(turn[r]) \in 0..2
    <3>1. step[r] = "update" /\ step[r] \in Working \ {"vocab"}
      BY <1>5 DEF SelectConversation, Working
    <3>2. turn[r] \in Turn
      BY <1>1 DEF ChatTypeOK
    <3> QED
      BY <3>1, <3>2 DEF Delta, Turn
  <2>2. row[r] \in Row /\ row[r].count \in Nat
    BY <1>1 DEF ChatTypeOK, Row
  <2>3. row'[r].vocab = row[r].vocab /\ row'[r].count = row[r].count + Delta(turn[r])
    BY <1>1, <1>5, <2>2 DEF SelectConversation, Select, ChatTypeOK, Row
  <2>4. conv'[r] = conv[r] /\ convs' = convs /\ disturbed' = disturbed
    BY <1>5 DEF SelectConversation, Select
  <2>5. conv[r] \notin disturbed => row[r].count = convs[conv[r]].count
    BY <2>1, AtIt DEF AtWork, InStep
  <2> QED
    BY <2>1, <2>2, <2>3, <2>4, <2>5 DEF Paced
<1>6. CASE Finish(r) \/ Abort(r)
  <2>1. step'[r] = "idle"
    BY <1>1, <1>6, Left DEF Finish, Abort
  <2> QED
    BY <1>1, <2>1
<1> QED
  BY <1>2, <1>3, <1>4, <1>5, <1>6 DEF Serve

\* And what it leaves to the others.
LEMMA PacedKept == ChatInv /\ Paced /\ [ChatNext]_chatVars => Paced'
<1>1. ASSUME ChatInv, Paced, NEW r \in Requests, Serve(r) \/ Abort(r), NEW q \in Requests \ {r}
      PROVE  /\ step'[q] \in Working \ {"vocab"} => row'[q].vocab # Null
             /\ step'[q] = "write" /\ conv'[q] \notin disturbed' =>
                  row'[q].count - convs'[conv'[q]].count \in 0..2
  <2>1. step'[q] = step[q] /\ conv'[q] = conv[q] /\ row'[q] = row[q]
    BY <1>1, Others DEF ChatInv
  <2> SUFFICES ASSUME step[q] = "write", conv[q] \notin disturbed'
               PROVE  row[q].count - convs'[conv[q]].count \in 0..2
    BY <1>1, <2>1 DEF Paced
  <2>2. step[q] \in Working /\ conv[q] \in Ids
    BY <1>1, AtIt DEF Working
  <2>3. conv[q] \notin disturbed
    BY <1>1, <2>2, Touches
  <2>4. conv[q] # conv[r]
    BY <1>1, <2>2, <2>3 DEF ChatInv, Alone
  <2>5. convs'[conv[q]] = convs[conv[q]]
    BY <1>1, <2>2, <2>4, Touches
  <2> QED
    BY <1>1, <2>3, <2>5 DEF Paced
<1>2. ASSUME Paced, UNCHANGED chatVars PROVE Paced'
  BY <1>2 DEF Paced, chatVars
<1>3. ASSUME ChatInv, Paced, NEW r \in Requests, Serve(r) \/ Abort(r) PROVE Paced'
  BY <1>1, <1>3, PacedStep DEF Paced
<1> QED
  BY <1>2, <1>3 DEF ChatNext

\* Nobody works before the first request.
LEMMA PacedInit == ChatInit => Paced
BY IdleIsNotWork DEF ChatInit, Paced

\* The table of messages that Dialogue is given.
Heard == [c \in Ids |-> Told(c)]

\* A turn that is being saved is not seen, and any other is counted.
LEMMA ToldIsSeen == ChatInv => \A c \in Ids : Told(c) = Seen(c)
<1> SUFFICES ASSUME ChatInv, NEW c \in Ids, c \notin disturbed, ~Saving(c)
             PROVE  said[c] = convs[c].count
  BY DEF Told, Seen
<1>1. ChatInv => ExactWhenSerial
  BY ExactNow
<1> QED
  BY <1>1 DEF ExactWhenSerial

\* The same of the table, before a step and after it.
LEMMA HeardIsSeen == ChatInv => Heard = [c \in Ids |-> Seen(c)]
BY ToldIsSeen DEF Heard

LEMMA HeardNext == ChatInv' => (Heard = [c \in Ids |-> Seen(c)])'
BY HeardIsSeen, PTL

\* Putting an entry where it is.
LEMMA SameEntry ==
  ASSUME NEW S, NEW s \in Seq(S), NEW c \in DOMAIN s
  PROVE  s = [s EXCEPT ![c] = s[c]]
BY LenProperties

\* The entries of the three tables.
LEMMA SameEntries ==
  ASSUME ChatInv, NEW c \in Ids
  PROVE  /\ convs = [convs EXCEPT ![c] = convs[c]]
         /\ said = [said EXCEPT ![c] = said[c]]
         /\ offers = [offers EXCEPT ![c] = offers[c]]
<1>1. /\ convs \in Seq(Row) /\ said \in Seq(Nat) /\ offers \in Seq(Nat)
      /\ c \in DOMAIN convs /\ c \in DOMAIN said /\ c \in DOMAIN offers
  BY DEF ChatInv, ChatTypeOK, Ids
<1> QED
  BY <1>1, SameEntry

\* What is seen of c, by number.
LEMMA SeenTypes ==
  ASSUME ChatInv, NEW c \in Ids
  PROVE  /\ convs[c] \in Row /\ said[c] \in Nat /\ offers[c] \in Nat
         /\ convs[c].count \in Nat /\ convs[c].count <= said[c]
         /\ Seen(c) \in Nat /\ Heard[c] = Seen(c)
BY Tables, ToldIsSeen DEF ChatInv, CountBacked, Seen, Row, Heard

\* A step that leaves every row, every count and every disturbance alone is none
\* to Dialogue; messages stored for an undisturbed turn are not seen yet.
LEMMA Unheard ==
  ASSUME ChatInv, ChatInv', convs' = convs, offers' = offers, disturbed' = disturbed,
         \A c \in Ids \cap disturbed : said'[c] = said[c]
  PROVE  UNCHANGED Roleplay!vars
<1>1. Ids' = Ids
  BY DEF Ids
<1>2. Heard' = Heard
  BY <1>1, HeardIsSeen, HeardNext DEF Seen
<1> QED
  BY <1>2 DEF Roleplay!vars, Heard

\* At most the entry of c changes.
LEMMA HeardOf ==
  ASSUME ChatInv, ChatInv', Ids' = Ids, NEW c \in Ids,
         \A d \in Ids \ {c} :
           convs'[d] = convs[d] /\ said'[d] = said[d] /\ (d \in disturbed' <=> d \in disturbed)
  PROVE  Heard' = [Heard EXCEPT ![c] = Seen(c)']
<1>1. Heard' = [d \in Ids |-> Seen(d)']
  BY HeardNext
<1>2. Heard = [d \in Ids |-> Seen(d)]
  BY HeardIsSeen
<1>3. \A d \in Ids \ {c} : Seen(d)' = Seen(d)
  BY DEF Seen
<1> QED
  BY <1>1, <1>2, <1>3

\* What happens to a disturbed conversation is within what Dialogue leaves open.
LEMMA Suffers ==
  ASSUME ChatInv, ChatInv', Ids' = Ids, disturbed' = disturbed, NEW c \in Ids \cap disturbed,
         convs' = [convs EXCEPT ![c] = convs'[c]],
         said' = [said EXCEPT ![c] = said'[c]], said'[c] >= said[c],
         offers' = [offers EXCEPT ![c] = offers'[c]], offers'[c] >= offers[c],
         convs'[c].status = "CHATTING" => c \in Active \/ Active = {}
  PROVE  Roleplay!Next
<1>1. Heard' = [Heard EXCEPT ![c] = Heard'[c]] /\ Heard'[c] = said'[c] /\ Heard[c] = said[c]
  <2>1. Seen(c)' = said'[c] /\ Seen(c) = said[c]
    BY DEF Seen
  <2>2. Heard' = [Heard EXCEPT ![c] = said'[c]]
    <3>1. \A d \in Ids \ {c} :
            convs'[d] = convs[d] /\ said'[d] = said[d] /\ (d \in disturbed' <=> d \in disturbed)
      BY DEF ChatInv, ChatTypeOK, Ids
    <3> QED
      BY <2>1, <3>1, HeardOf
  <2>3. c \in DOMAIN Heard
    BY DEF Heard
  <2> QED
    BY <2>1, <2>2, <2>3, SeenTypes
<1>2. convs'[c].count <= said'[c]
  BY DEF ChatInv, CountBacked
<1>3. Roleplay!Open = Active /\ c \in DOMAIN convs'
  BY DEF Roleplay!Open, Active, Ids
<1>4. Roleplay!Suffer(c)
  BY <1>1, <1>2, <1>3 DEF Roleplay!Suffer, Heard
<1> QED
  BY <1>3, <1>4 DEF Roleplay!Next

\* Requests that share a conversation, and those that die half way, spoil it, and
\* no more of it comes to light than one turn.
LEMMA Spoils ==
  ASSUME ChatInv, ChatInv', Paced, convs' = convs, said' = said, offers' = offers,
         NEW c \in Ids \ disturbed, disturbed' = disturbed \cup {c}
  PROVE  Roleplay!Next
<1>1. said[c] - convs[c].count \in 0..2
  <2>1. CASE ~Saving(c)
    BY <2>1, SeenTypes, ExactNow DEF ExactWhenSerial
  <2>2. CASE Saving(c)
    <3>1. PICK r \in Requests : conv[r] = c /\ step[r] \in {"reply", "update", "write"}
      BY <2>2 DEF Saving, Holders
    <3>2. /\ step[r] \in Working /\ InStep(r, c) /\ row[r].count \in Nat /\ turn[r] \in Turn
          /\ convs[c].count \in Nat
      BY <3>1, AtIt, SeenTypes DEF AtWork, Working, Row
    <3>3. Uncounted(r) \in 0..2 /\ (step[r] = "write" => Uncounted(r) = 0)
      BY <3>2 DEF Uncounted, Delta, Turn
    <3>4. row[r].count = convs[c].count \/ (step[r] = "write" /\ row[r].count - convs[c].count \in 0..2)
      BY <3>1, <3>2 DEF InStep, Paced
    <3> QED
      BY <3>2, <3>3, <3>4 DEF InStep
  <2> QED
    BY <2>1, <2>2
<1>2. Ids' = Ids /\ c \in DOMAIN convs'
  BY DEF Ids
<1>3. Heard' = [Heard EXCEPT ![c] = said[c]]
  <2>1. Seen(c)' = said[c]
    BY DEF Seen
  <2> QED
    BY <1>2, <2>1, HeardOf
<1>4. Heard[c] = convs[c].count
  BY SeenTypes DEF Seen
<1>5. PICK n \in 0..2 : said[c] = Heard[c] + n
  BY <1>1, <1>4, SeenTypes
<1>6. Roleplay!Spoil(c, n)
  BY <1>3, <1>5 DEF Roleplay!Spoil, Heard
<1> QED
  BY <1>2, <1>6 DEF Roleplay!Next

\* Going on with a conversation is nothing to see, unless another does.
LEMMA HoldServes ==
  ASSUME ChatInv, ChatInv', Paced, NEW r \in Requests, NEW c \in Ids, Hold(r, c)
  PROVE  [Roleplay!Next]_(Roleplay!vars)
<1>1. convs' = convs /\ said' = said /\ offers' = offers
  BY DEF Hold
<1>2. disturbed' = disturbed \/ (c \notin disturbed /\ disturbed' = disturbed \cup {c})
  BY DEF Hold
<1> QED
  BY <1>1, <1>2, Unheard, Spoils

\* A death is nothing to see, unless half of a turn has been saved.
LEMMA AbortServes ==
  ASSUME ChatInv, ChatInv', Paced, NEW r \in Requests, Abort(r)
  PROVE  [Roleplay!Next]_(Roleplay!vars)
<1>1. convs' = convs /\ said' = said /\ offers' = offers
  BY DEF Abort
<1>2. HalfSaved(r) => conv[r] \in Ids
  BY AtIt DEF HalfSaved, Working
<1>3. \/ disturbed' = disturbed
      \/ conv[r] \in Ids \ disturbed /\ disturbed' = disturbed \cup {conv[r]}
  BY <1>2 DEF Abort
<1> QED
  BY <1>1, <1>3, Unheard, Spoils

\* A message is not seen before its turn is saved, or the conversation spoiled.
LEMMA SaveServes ==
  ASSUME ChatInv, ChatInv', NEW r \in Requests, SaveUserMessage(r) \/ SaveReply(r)
  PROVE  [Roleplay!Next]_(Roleplay!vars)
<1>1. PICK c : c = conv[r]
  OBVIOUS
<1>2. step[r] \in Working /\ c \in Ids
  BY <1>1, AtIt DEF SaveUserMessage, SaveReply, Working
<1>3. /\ convs' = convs /\ offers' = offers /\ disturbed' = disturbed
      /\ said' = [said EXCEPT ![c] = said[c] + 1]
  BY <1>1 DEF SaveUserMessage, SaveReply
<1>4. DOMAIN said = Ids /\ DOMAIN offers = Ids /\ Ids' = Ids
  BY <1>3 DEF ChatInv, ChatTypeOK, Ids
<1>5. CASE c \notin disturbed
  <2>1. \A d \in Ids \cap disturbed : said'[d] = said[d]
    BY <1>3, <1>4, <1>5
  <2> QED
    BY <1>3, <2>1, Unheard
<1>6. CASE c \in disturbed
  <2>1. said'[c] = said[c] + 1
    BY <1>2, <1>3, <1>4
  <2>2. said'[c] >= said[c] /\ offers'[c] >= offers[c]
    BY <1>2, <1>3, <2>1, SeenTypes
  <2>3. /\ convs' = [convs EXCEPT ![c] = convs'[c]] /\ offers' = [offers EXCEPT ![c] = offers'[c]]
        /\ said' = [said EXCEPT ![c] = said'[c]]
    BY <1>2, <1>3, <2>1, SameEntries
  <2>4. convs'[c].status = "CHATTING" => c \in Active
    BY <1>2, <1>3 DEF Active
  <2> QED
    BY <1>2, <1>3, <1>4, <1>6, <2>2, <2>3, <2>4, Suffers
<1> QED
  BY <1>5, <1>6

\* The end of an undisturbed conversation is offered once.
LEMMA FinishServes ==
  ASSUME ChatInv, ChatInv', NEW r \in Requests, Finish(r)
  PROVE  [Roleplay!Next]_(Roleplay!vars)
<1>1. PICK c : c = conv[r]
  OBVIOUS
<1>2. step[r] = "after" /\ step[r] \in Working /\ c \in Ids
  BY <1>1, AtIt DEF Finish, Working
<1>3. convs' = convs /\ said' = said /\ disturbed' = disturbed
  BY DEF Finish
<1>4. DOMAIN said = Ids /\ DOMAIN offers = Ids /\ Ids' = Ids
  BY <1>3 DEF ChatInv, ChatTypeOK, Ids
<1>5. CASE row[r].status # "DONE"
  <2>1. offers' = offers
    BY <1>5 DEF Finish
  <2> QED
    BY <1>3, <2>1, Unheard
<1>6. CASE row[r].status = "DONE"
  <2>1. offers' = [offers EXCEPT ![c] = offers[c] + 1] /\ offers'[c] = offers[c] + 1
    BY <1>1, <1>2, <1>4, <1>6 DEF Finish
  <2>2. CASE c \in disturbed
    <3>1. said'[c] >= said[c] /\ offers'[c] >= offers[c]
      BY <1>2, <1>3, <2>1, SeenTypes
    <3>2. /\ convs' = [convs EXCEPT ![c] = convs'[c]] /\ offers' = [offers EXCEPT ![c] = offers'[c]]
          /\ said' = [said EXCEPT ![c] = said'[c]]
      BY <1>2, <1>3, <2>1, SameEntries
    <3>3. convs'[c].status = "CHATTING" => c \in Active
      BY <1>2, <1>3 DEF Active
    <3> QED
      BY <1>2, <1>3, <1>4, <2>2, <3>1, <3>2, <3>3, Suffers
  <2>3. CASE c \notin disturbed
    <3>1. InStep(r, c)
      BY <1>1, <1>2, <2>3, AtIt DEF AtWork
    <3>2. convs[c].status = "DONE" /\ offers[c] = 0
      BY <1>2, <1>6, <3>1 DEF InStep
    <3>3. Heard' = Heard
      BY <1>3, <1>4, HeardIsSeen, HeardNext DEF Seen
    <3>4. c \in DOMAIN convs \ (Roleplay!Open \cup disturbed)
      BY <1>2, <2>3, <3>2 DEF Roleplay!Open, Ids
    <3>5. Roleplay!Offer(c)
      BY <1>3, <2>1, <3>2, <3>3, <3>4 DEF Roleplay!Offer, Heard
    <3> QED
      BY <1>2, <1>3, <3>5 DEF Roleplay!Next, Ids
  <2> QED
    BY <2>2, <2>3
<1> QED
  BY <1>5, <1>6

\* A longer sequence, as a function.
LEMMA AddedWith ==
  ASSUME NEW S, NEW s \in Seq(S), NEW e \in S, NEW c, c = Len(s) + 1
  PROVE  Append(s, e) = Roleplay!With(s, c, e)
<1>1. /\ Append(s, e) \in Seq(S) /\ DOMAIN Append(s, e) = DOMAIN s \cup {c}
      /\ Append(s, e)[c] = e /\ \A d \in 1..Len(s) : Append(s, e)[d] = s[d]
  BY Added
<1>2. DOMAIN s = 1..Len(s) /\ Len(s) \in Nat
  BY LenProperties
<1>3. Append(s, e) = [d \in DOMAIN Append(s, e) |-> Append(s, e)[d]]
  BY <1>1, LenProperties
<1>4. \A d \in DOMAIN s \cup {c} : Append(s, e)[d] = IF d = c THEN e ELSE s[d]
  BY <1>1, <1>2
<1> QED
  BY <1>1, <1>3, <1>4 DEF Roleplay!With

\* A conversation is started only where none is open.
LEMMA CreateServes ==
  ASSUME ChatInv, ChatInv', NEW r \in Requests, Create(r)
  PROVE  [Roleplay!Next]_(Roleplay!vars)
<1>1. CASE Moves(r, "requery")
  BY <1>1, Unheard DEF Moves
<1>2. CASE ~Moves(r, "requery")
  <2>1. /\ Active = {} /\ disturbed' = disturbed
        /\ convs' = Append(convs, NewRow) /\ offers' = Append(offers, 0)
    BY <1>2 DEF Create
  <2>2. PICK c : c = Len(convs) + 1
    OBVIOUS
  <2>3. /\ convs \in Seq(Row) /\ offers \in Seq(Nat) /\ Len(offers) = Len(convs)
        /\ NewRow \in Row /\ NewRow = Roleplay!Fresh /\ NewRow.count = 0
        /\ Ids = 1..Len(convs) /\ Len(convs) \in Nat /\ disturbed \subseteq Ids
    BY Tables DEF ChatInv, ChatTypeOK, NewRow, Row, Roleplay!Fresh
  <2> HIDE DEF NewRow
  <2>4. convs' = Roleplay!With(convs, c, Roleplay!Fresh) /\ offers' = Roleplay!With(offers, c, 0)
    <3>1. Append(convs, NewRow) = Roleplay!With(convs, c, NewRow)
      BY <2>2, <2>3, AddedWith
    <3>2. c = Len(offers) + 1 /\ 0 \in Nat
      BY <2>2, <2>3
    <3>3. Append(offers, 0) = Roleplay!With(offers, c, 0)
      BY <2>3, <3>2, AddedWith
    <3> QED
      BY <2>1, <2>3, <3>1, <3>3
  <2>5. /\ Ids' = Ids \cup {c} /\ convs'[c] = NewRow /\ c \notin Ids /\ c \notin disturbed
        /\ \A d \in Ids : convs'[d] = convs[d]
    BY <2>1, <2>2, <2>3, Added DEF Ids
  <2>6. \A d \in Ids : said'[d] = said[d]
    BY <1>2, <2>3, Added DEF Create, ChatInv, ChatTypeOK
  <2>7. Heard' = Roleplay!With(Heard, c, 0)
    <3>1. Heard' = [d \in Ids \cup {c} |-> Seen(d)']
      BY <2>5, HeardNext
    <3>2. Seen(c)' = 0 /\ \A d \in Ids : Seen(d)' = Seen(d)
      BY <2>1, <2>3, <2>5, <2>6 DEF Seen
    <3>3. DOMAIN Heard = Ids /\ \A d \in Ids : Heard[d] = Seen(d)
      BY SeenTypes DEF Heard
    <3> QED
      BY <2>5, <3>1, <3>2, <3>3 DEF Roleplay!With
  <2>8. c \notin DOMAIN convs /\ Roleplay!Open = {} /\ c \in DOMAIN convs'
    BY <2>1, <2>5 DEF Ids, Roleplay!Open, Active
  <2>9. Roleplay!Start(c)
    BY <2>1, <2>4, <2>7, <2>8 DEF Roleplay!Start, Heard
  <2> QED
    BY <2>8, <2>9 DEF Roleplay!Next
<1> QED
  BY <1>1, <1>2

\* The second statement of a save, of a conversation others may have changed.
LEMMA OverwriteServes ==
  ASSUME ChatInv, ChatInv', NEW r \in Requests, step[r] \in Working, conv[r] \in disturbed,
         NEW s \in Working, Write(r, s)
  PROVE  Roleplay!Next
<1>1. PICK c : c = conv[r]
  OBVIOUS
<1>2. c \in Ids \cap disturbed /\ convs[c] \in Row
  BY <1>1, AtIt
<1>3. /\ Ids' = Ids /\ said' = said /\ offers' = offers /\ disturbed' = disturbed
      /\ \/ convs'[c].status = row[r].status
         \/ "status" \notin dirty[r] /\ convs'[c].status = convs[c].status
  BY <1>1, Wrote
<1>4. DOMAIN said = Ids /\ DOMAIN offers = Ids /\ DOMAIN convs = Ids
  BY DEF ChatInv, ChatTypeOK, Ids
<1>5. /\ convs' = [convs EXCEPT ![c] = convs'[c]]
      /\ said' = [said EXCEPT ![c] = said'[c]] /\ offers' = [offers EXCEPT ![c] = offers'[c]]
  <2>1. convs' = [convs EXCEPT ![c] = Merged(c, row[r], dirty[r])]
    BY <1>1 DEF Write
  <2>2. convs'[c] = Merged(c, row[r], dirty[r])
    BY <1>2, <1>4, <2>1
  <2> QED
    BY <1>2, <1>3, <2>1, <2>2, SameEntries
<1>6. said'[c] >= said[c] /\ offers'[c] >= offers[c]
  BY <1>2, <1>3, SeenTypes
<1>7. convs'[c].status = "CHATTING" => c \in Active \/ Active = {}
  <2> SUFFICES ASSUME convs'[c].status = "CHATTING", c \notin Active PROVE Active = {}
    OBVIOUS
  <2>1. convs[c].status # "CHATTING"
    BY <1>2 DEF Active
  <2>2. row[r].status = "CHATTING" /\ convs'[c].status # convs[c].status
    BY <1>3, <2>1
  <2>3. "status" \in dirty[r]
    BY <1>1, <1>2, <1>4, <2>2 DEF Write, Merged, Columns
  <2>4. Active \ {c} = {}
    BY <1>1, <2>2, <2>3 DEF Write, Conflict
  <2> QED
    BY <2>4
<1> QED
  BY <1>2, <1>3, <1>5, <1>6, <1>7, Suffers

\* Words are put into an undisturbed conversation where there were none.
LEMMA WordsServe ==
  ASSUME ChatInv, ChatInv', Paced, NEW r \in Requests, conv[r] \notin disturbed,
         step[r] \in ChoosingWords \ {"vocab"}, NEW s \in Working, Write(r, s)
  PROVE  [Roleplay!Next]_(Roleplay!vars)
<1>1. PICK c : c = conv[r]
  OBVIOUS
<1>2. step[r] \in Working \ {"vocab", "write", "after"} /\ c \in Ids \ disturbed
  BY <1>1, AtIt DEF ChoosingWords, Working
<1>3. /\ convs[c] \in Row /\ row[r] \in Row
      /\ convs[c].status = "CHATTING" /\ convs[c].vocab = Null
      /\ row[r].count = convs[c].count /\ row[r].status = convs[c].status
      /\ row[r].vocab \in Picks
  BY <1>1, <1>2, AtIt, Following DEF Paced, Row
<1>4. /\ Ids' = Ids /\ UNCHANGED <<said, offers, disturbed>>
      /\ \A d \in Ids \ {c} : convs'[d] = convs[d]
  BY <1>1, <1>2, Wrote
<1>5. /\ convs'[c].count = convs[c].count /\ convs'[c].status = convs[c].status
      /\ convs'[c].vocab \in Picks \cup {Null}
  BY <1>1, <1>2, <1>3, Wrote
<1>6. convs'[c] \in Row /\ DOMAIN convs = Ids
  BY <1>2, <1>4, SeenTypes DEF ChatInv, ChatTypeOK, Ids
<1>7. convs' = [convs EXCEPT ![c] = convs'[c]]
  BY <1>1, <1>2, <1>6 DEF Write
<1>8. CASE convs'[c].vocab = Null
  <2>1. convs'[c] = convs[c]
    BY <1>3, <1>5, <1>6, <1>8 DEF Row
  <2>2. convs' = convs
    BY <1>2, <1>7, <2>1, SameEntries
  <2> QED
    BY <1>4, <2>2, Unheard
<1>9. CASE convs'[c].vocab # Null
  <2>1. PICK p \in Picks : p = convs'[c].vocab
    BY <1>5, <1>9
  <2>2. convs'[c] = [convs[c] EXCEPT !.vocab = p]
    BY <1>3, <1>5, <1>6, <2>1 DEF Row
  <2>3. convs' = [convs EXCEPT ![c].vocab = p]
    BY <1>7, <2>2
  <2>4. Heard' = Heard
    <3>1. \A d \in Ids : Seen(d)' = Seen(d)
      BY <1>4, <1>5 DEF Seen
    <3> QED
      BY <1>4, <3>1, HeardIsSeen, HeardNext
  <2>5. Roleplay!Underway(c) /\ p \in Roleplay!Words(c)
    BY <1>2, <1>3, <1>6 DEF Roleplay!Underway, Roleplay!Open, Roleplay!Words
  <2>6. Roleplay!Inject(c)
    BY <1>4, <2>3, <2>4, <2>5 DEF Roleplay!Inject, Heard
  <2> QED
    BY <1>2, <1>4, <2>6 DEF Roleplay!Next, Ids
<1> QED
  BY <1>8, <1>9

\* The last save of an undisturbed turn is that turn.
LEMMA TurnServes ==
  ASSUME ChatInv, ChatInv', Paced, NEW r \in Requests, conv[r] \notin disturbed, WriteConversation(r)
  PROVE  Roleplay!Next
<1>1. PICK c : c = conv[r]
  OBVIOUS
<1>2. step[r] = "write" /\ step[r] \in Working \ {"vocab"} /\ c \in Ids \ disturbed
  BY <1>1, AtIt DEF WriteConversation, Working
<1>3. Write(r, "after") /\ "after" \in Working
  BY DEF WriteConversation, Working
<1>4. /\ convs[c] \in Row /\ row[r] \in Row /\ convs[c].status = "CHATTING"
      /\ dirty[r] = Differing(c, row[r])
      /\ row[r].status = "CHATTING" => row[r].count \div 2 < MaxTurns
      /\ row[r].count - convs[c].count \in 0..2 /\ row[r].vocab \in Picks
      /\ convs[c].vocab = Null \/ row[r].vocab = convs[c].vocab
  BY <1>1, <1>2, AtIt DEF Paced, AtWork, InStep, Row
<1>5. Ids' = Ids /\ UNCHANGED <<said, offers, disturbed>> /\ \A d \in Ids \ {c} : convs'[d] = convs[d]
  BY <1>1, <1>2, <1>3, Wrote
<1>6. /\ convs'[c].count = row[r].count /\ convs'[c].status = row[r].status
      /\ convs'[c].vocab = row[r].vocab
  BY <1>1, <1>2, <1>3, <1>4, Wrote DEF Differing, Columns
<1>7. convs'[c] \in Row /\ DOMAIN convs = Ids
  BY <1>2, <1>5, SeenTypes DEF ChatInv, ChatTypeOK, Ids
<1>8. convs' = [convs EXCEPT ![c] = convs'[c]]
  BY <1>1, <1>2, <1>3, <1>7 DEF Write
<1> DEFINE end == row[r].status = "DONE"
           status == IF end \/ row[r].count \div 2 >= MaxTurns THEN "DONE" ELSE "CHATTING"
<1>9. PICK n \in 0..2 : row[r].count = convs[c].count + n
  BY <1>4 DEF Row
<1>10. convs'[c] = [count |-> row[r].count, status |-> status, vocab |-> row[r].vocab]
  <2>1. row[r].status = status
    BY <1>4, TurnsAssumption DEF Row
  <2> QED
    BY <1>6, <1>7, <2>1 DEF Row
<1>11. Heard' = [Heard EXCEPT ![c] = row[r].count]
  <2>1. Seen(c)' = row[r].count
    BY <1>2, <1>5, <1>6 DEF Seen
  <2> QED
    BY <1>2, <1>5, <2>1, HeardOf
<1>12. Roleplay!Underway(c) /\ row[r].vocab \in Roleplay!Words(c)
  BY <1>2, <1>4, <1>7 DEF Roleplay!Underway, Roleplay!Open, Roleplay!Words
<1>13. /\ convs' = [convs EXCEPT ![c] =
                      [count |-> convs[c].count + n,
                       status |-> IF end \/ (convs[c].count + n) \div 2 >= MaxTurns
                                  THEN "DONE" ELSE "CHATTING",
                       vocab |-> row[r].vocab]]
       /\ Heard' = [Heard EXCEPT ![c] = convs[c].count + n]
  BY <1>8, <1>9, <1>10, <1>11
<1>14. end \in BOOLEAN
  OBVIOUS
<1> HIDE DEF end, status
<1>15. Roleplay!Turn(c, n, end)
  BY <1>5, <1>12, <1>13 DEF Roleplay!Turn, Heard
<1> QED
  BY <1>2, <1>5, <1>14, <1>15 DEF Roleplay!Next, Ids

\* Every step of a request is one of Dialogue's or none.
LEMMA ChatServes ==
  ASSUME ChatInv, ChatInv', Paced, [ChatNext]_chatVars
  PROVE  [Roleplay!Next]_(Roleplay!vars)
<1>1. ASSUME NEW r \in Requests, Load(r) \/ FindActive(r) \/ Requery(r)
      PROVE  [Roleplay!Next]_(Roleplay!vars)
  BY <1>1, HoldServes, Unheard DEF Load, FindActive, Requery, HoldActive, Active, Moves
<1>2. ASSUME NEW r \in Requests,
             SelectVocabulary(r) \/ SaveNoVocabulary(r) \/ AskModel(r) \/ SelectConversation(r)
      PROVE  [Roleplay!Next]_(Roleplay!vars)
  BY <1>2, Unheard DEF SelectVocabulary, SaveNoVocabulary, AskModel, SelectConversation, Select
<1>3. ASSUME NEW r \in Requests, WriteVocabulary(r) \/ WriteNoVocabulary(r)
      PROVE  [Roleplay!Next]_(Roleplay!vars)
  <2>1. /\ step[r] \in ChoosingWords \ {"vocab"} /\ step[r] \in Working /\ "model" \in Working
        /\ Write(r, "model") \/ Moves(r, "model")
    BY <1>3 DEF WriteVocabulary, WriteNoVocabulary, ChoosingWords, Working
  <2>2. CASE Moves(r, "model")
    BY <2>2, Unheard DEF Moves
  <2>3. CASE Write(r, "model")
    BY <2>1, <2>3, WordsServe, OverwriteServes
  <2> QED
    BY <2>1, <2>2, <2>3
<1>4. ASSUME NEW r \in Requests, WriteConversation(r)
      PROVE  [Roleplay!Next]_(Roleplay!vars)
  <2>1. step[r] \in Working /\ "after" \in Working /\ Write(r, "after")
    BY <1>4 DEF WriteConversation, Working
  <2> QED
    BY <1>4, <2>1, TurnServes, OverwriteServes
<1>5. CASE UNCHANGED chatVars
  BY <1>5, Unheard DEF chatVars
<1> QED
  BY <1>1, <1>2, <1>3, <1>4, <1>5, CreateServes, SaveServes, FinishServes, AbortServes
     DEF ChatNext, Serve

\* Whatever requests overlap, overwrite each other or die, the conversations
\* behave as Dialogue says: those no two requests shared and none left half saved
\* as if their turns were atomic, each counted with its messages, words chosen
\* once, closed at the cap and offered once; the others without losing a message.
THEOREM ChatImplementsDialogue == ChatSpec => ServesDialogue
<1>1. ChatInit => Roleplay!Init
  <2> SUFFICES ASSUME ChatInit PROVE Roleplay!Init
    OBVIOUS
  <2>1. Ids = {} /\ Heard = << >>
    BY DEF ChatInit, Ids, Heard
  <2> QED
    BY <2>1 DEF ChatInit, Roleplay!Init, Heard
<1> QED
  BY <1>1, ChatInvariance, PacedInit, PacedKept, ChatServes, PTL
     DEF ChatSpec, ServesDialogue, Roleplay!Spec

=============================================================================
