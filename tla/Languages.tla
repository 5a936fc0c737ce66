----------------------------- MODULE Languages ------------------------------
(***************************************************************************)
(* The languages a user learns: LanguageService, the guard that finds the  *)
(* language of a request, its cache of language codes, and the mark        *)
(* lastLearned, which names the language of a request without a header.    *)
(***************************************************************************)
EXTENDS Handlers, Integers, Sequences, FiniteSetsExt

CONSTANTS
    Learners,       \* users
    Langs,          \* rows of languages
    Unlearnable,    \* those with isLearningAvailable = FALSE
    Ttl,            \* CACHE_TTL_MS
    MaxEntries,     \* MAX_ENTRIES
    MaxTime         \* bound on the clock

ASSUME LanguagesAssumption == {Ttl, MaxEntries, MaxTime} \subseteq Nat

VARIABLES
    rows,       \* user_languages; a row's id is its place, deleted ones stay
    mixed,      \* learners whose marks two handlers changed at the same time
    active,     \* languages.is_active
    cache,      \* LanguageContextCacheService.cache, with the place of each entry
    now,
    held        \* when each language last was active, and last was not

languageVars == <<rows, mixed, active, cache, now, held>>

Resolving == {"resolve", "lookup", "fill"}
Guarded == {"enrolled", "enrol", "mark"}

\* The requests that wait for a language they named, and those that were given it.
Asked == [s \in Slots |->
    IF at[s] \notin Resolving \cup Guarded \/ arg[s].op # "header" THEN {}
    ELSE {[key |-> arg[s].lang, since |-> arg[s].asked,
           told |-> IF at[s] \in Resolving THEN {} ELSE {TRUE}]}]

Stale == INSTANCE StaleRead WITH
    Readers <- Slots, Keys <- Langs, Values <- BOOLEAN, Window <- Ttl,
    reg <- active, clock <- now, held <- held, asked <- Asked

Row(u, l, m) == [user |-> u, lang |-> l, marked |-> m, live |-> TRUE]
Live(u) == {i \in DOMAIN rows : rows[i].live /\ rows[i].user = u}
Enrolled(u, l) == {i \in Live(u) : rows[i].lang = l}
Marked(u) == {i \in Live(u) : rows[i].marked}

LanguagesInit ==
    /\ rows = << >> /\ mixed = {}
    /\ active = [l \in Langs |-> TRUE]
    /\ cache = << >> /\ now = 0
    /\ held = [l \in Langs |-> [v \in BOOLEAN |-> IF active[l] = v THEN 0 ELSE Stale!Never]]

-----------------------------------------------------------------------------
(* Marks. *)

\* Within a transaction, READ COMMITTED: the rows its first update has cleared are kept
\* for the commit, and each later statement sees what others have committed by then.
\* The last two awaits are those of bootstrapUserLanguage.
InTransaction == {"mark set", "bootstrap find", "bootstrap set"}

Marking(u) == {s \in Slots :
    /\ at[s] \in {"clear", "insert", "update clear", "update save"} \cup InTransaction
    /\ arg[s].user = u}
\* A handler changes marks while another is at it.
Overlap(S, u) == mixed' = IF Marking(u) \ S = {} THEN mixed ELSE mixed \cup {u}

Remade(cleared, marked) == [i \in DOMAIN rows |->
    [rows[i] EXCEPT !.marked = i \in marked \/ (@ /\ i \notin cleared)]]

ClearFaulty(s) ==
    \/ at[s] = "clear" /\ Go(s, "insert", arg[s]) /\ UNCHANGED languageVars
    \/ at[s] = "update clear" /\ Go(s, "update save", arg[s]) /\ UNCHANGED languageVars

\* update({ userId, lastLearned: true }, { lastLearned: false })
Clear(s) ==
    /\ \/ at[s] = "clear" /\ Go(s, "insert", arg[s])
       \/ at[s] = "update clear" /\ Go(s, "update save", arg[s])
    /\ rows' = Remade(Marked(arg[s].user), {})
    /\ Overlap({s}, arg[s].user)
    /\ UNCHANGED <<active, cache, now, held>>

\* The table is unique on user and language.
Insert(s, r) ==
    \/ /\ Enrolled(r.user, r.lang) = {}
       /\ rows' = Append(rows, r)
    \/ Enrolled(r.user, r.lang) # {} /\ UNCHANGED rows

AddLanguage(s) ==
    \E u \in Learners, l \in Langs \ Unlearnable :
       /\ active[l] /\ Enrolled(u, l) = {}
       /\ Begin(s, "add language", "clear", [op |-> "add", user |-> u, lang |-> l])
       /\ UNCHANGED languageVars

\* The trigger of the table rejects a level the language does not have
\* (LanguageFails): the mark is gone then, and no language has it.
InsertMarked(s) ==
    /\ at[s] = "insert"
    /\ Insert(s, Row(arg[s].user, arg[s].lang, TRUE))
    /\ End(s)
    /\ Overlap({s}, arg[s].user)
    /\ UNCHANGED <<active, cache, now, held>>

\* lastLearned is TRUE, FALSE or left out; the row is loaded first.
UpdateLanguage(s) ==
    \E i \in DOMAIN rows, m \in {"set", "unset", "keep"} :
       /\ rows[i].live
       /\ Begin(s, "update language", IF m = "set" THEN "update clear" ELSE "update save",
                [op |-> "update", user |-> rows[i].user, row |-> i,
                 marked |-> IF m = "keep" THEN rows[i].marked ELSE m = "set"])
       /\ UNCHANGED languageVars

\* save(entity) updates the row, or inserts it again if it was deleted meanwhile.
SaveLanguage(s) ==
    LET i == arg[s].row IN
    /\ at[s] = "update save"
    /\ \/ /\ rows[i].live \/ Enrolled(rows[i].user, rows[i].lang) = {}
          /\ rows' = [rows EXCEPT ![i].marked = arg[s].marked, ![i].live = TRUE]
       \/ ~rows[i].live /\ Enrolled(rows[i].user, rows[i].lang) # {} /\ UNCHANGED rows
    /\ End(s)
    /\ Overlap({s}, arg[s].user)
    /\ UNCHANGED <<active, cache, now, held>>

RemoveLanguage ==
    \E i \in DOMAIN rows :
       /\ rows[i].live
       /\ Instant("remove language")
       /\ rows' = [rows EXCEPT ![i].live = FALSE]
       /\ UNCHANGED <<mixed, active, cache, now, held>>

-----------------------------------------------------------------------------
(* The guard. *)

\* The guard is passed: listDefault marks the language first, nothing else does.
Guarding(s) == IF arg[s].route = "listing" THEN Go(s, "mark", arg[s]) ELSE End(s)

\* The lists of scenarios and the lessons carry AutoEnrollLanguage.
HeaderRequest(s) ==
    \E u \in Learners, l \in Langs, route \in {"strict", "enrolling", "listing"} :
       /\ Begin(s, "header request", "resolve",
                [op |-> "header", user |-> u, lang |-> l, route |-> route,
                 asked |-> now, from |-> now])
       /\ UNCHANGED languageVars

\* Without the header a marked language is the request's, still active or not.
Fallback(s) ==
    \E u \in Learners : \E i \in Marked(u) :
       /\ Begin(s, "fallback request", "mark",
                [op |-> "fallback", user |-> u, lang |-> rows[i].lang])
       /\ UNCHANGED languageVars

CachedFaulty(l) == l \in DOMAIN cache

Cached(l) == l \in DOMAIN cache /\ cache[l].expires > now

Resolve(s) ==
    /\ at[s] = "resolve"
    /\ IF Cached(arg[s].lang)
       THEN Go(s, "enrolled", arg[s])
       ELSE Go(s, "lookup", [arg[s] EXCEPT !.from = now])
    /\ UNCHANGED languageVars

Lookup(s) ==
    /\ at[s] = "lookup"
    /\ IF active[arg[s].lang] THEN Go(s, "fill", arg[s]) ELSE End(s)
    /\ UNCHANGED languageVars

\* evictExpired, then the oldest entry goes if the cache is full.  A Map keeps its
\* keys in the order they came in; a key that is set again keeps its place.
Kept(t) == {l \in DOMAIN cache : cache[l].expires > t}
Room(S) ==
    IF Cardinality(S) >= MaxEntries THEN {l \in S : \E k \in S : cache[k].place < cache[l].place} ELSE S
Place(S, l) == IF l \in S THEN cache[l].place ELSE 1 + Max({0} \cup {cache[k].place : k \in S})
Put(S, l, e) ==
    [k \in S \cup {l} |-> IF k = l THEN [expires |-> e, place |-> Place(S, l)] ELSE cache[k]]

Fill(s) ==
    /\ at[s] = "fill"
    /\ cache' = Put(Room(Kept(arg[s].from)), arg[s].lang, arg[s].from + Ttl)
    /\ Go(s, "enrolled", arg[s])
    /\ UNCHANGED <<rows, mixed, active, now, held>>

\* assertOrAutoEnroll: 403, or enrol the user, on the routes that say so.
CheckEnrolled(s) ==
    /\ at[s] = "enrolled"
    /\ IF Enrolled(arg[s].user, arg[s].lang) # {} THEN Guarding(s)
       ELSE IF arg[s].route # "strict" /\ active[arg[s].lang] /\ arg[s].lang \notin Unlearnable
       THEN Go(s, "enrol", arg[s])
       ELSE End(s)
    /\ UNCHANGED languageVars

\* Whatever happens to the insert, the request goes on.
AutoEnrol(s) ==
    /\ at[s] = "enrol"
    /\ \/ Insert(s, Row(arg[s].user, arg[s].lang, FALSE))
       \/ world.faults /\ UNCHANGED rows
    /\ Guarding(s)
    /\ UNCHANGED <<mixed, active, cache, now, held>>

\* listDefault, behind the guard: no language of the user is marked,
ClearLearned(s) ==
    LET u == arg[s].user IN
    /\ at[s] = "mark"
    /\ Go(s, "mark set", [op |-> "list", user |-> u, lang |-> arg[s].lang, cleared |-> Live(u)])
    /\ UNCHANGED languageVars

\* but this one, if the user learns it.
MarkLastLearned(s) ==
    /\ at[s] = "mark set"
    /\ rows' = Remade(arg[s].cleared, Enrolled(arg[s].user, arg[s].lang))
    /\ End(s)
    /\ Overlap({s}, arg[s].user)
    /\ UNCHANGED <<active, cache, now, held>>

-----------------------------------------------------------------------------

\* An operator switches a language on or off in the database; nobody tells the cache.
SetActive(l) ==
    /\ Instant("switch")
    /\ active' = [active EXCEPT ![l] = ~@]
    /\ held' = [held EXCEPT ![l][~active[l]] = now]
    /\ UNCHANGED <<rows, mixed, cache, now>>

Tick ==
    /\ "switch" \in world.ops /\ now < MaxTime
    /\ now' = now + 1
    /\ held' = [l \in Langs |-> [held[l] EXCEPT ![active[l]] = now']]
    /\ UNCHANGED <<handlerVars, rows, mixed, active, cache>>

\* A query fails: the handler ends.  What it has changed so far stays, but for what a
\* transaction has.
LanguageFails(s) ==
    /\ world.faults
    /\ at[s] \in Resolving \cup {"enrolled", "mark", "mark set", "clear", "insert", "update clear", "update save"}
    /\ End(s)
    /\ UNCHANGED languageVars

LanguageRestart ==
    /\ cache' = << >>
    /\ UNCHANGED <<rows, mixed, active, now, held>>

LanguageStep(s) ==
    \/ AddLanguage(s) \/ Clear(s) \/ InsertMarked(s)
    \/ UpdateLanguage(s) \/ SaveLanguage(s)
    \/ HeaderRequest(s) \/ Fallback(s) \/ Resolve(s) \/ Lookup(s) \/ Fill(s)
    \/ CheckEnrolled(s) \/ AutoEnrol(s) \/ ClearLearned(s) \/ MarkLastLearned(s)
    \/ LanguageFails(s)

LanguagesNext ==
    \/ \E s \in Slots : LanguageStep(s)
    \/ RemoveLanguage \/ Tick
    \/ \E l \in Langs : SetActive(l)
    \/ Restart /\ LanguageRestart

LanguagesSpec ==
    HandlersInit /\ LanguagesInit /\ [][LanguagesNext]_<<handlerVars, languageVars>>

-----------------------------------------------------------------------------

\* However often languages are added, chosen, listed, removed and enrolled, and
\* whichever step fails, one language at most is the learner's last one, unless
\* two requests changed the marks at the same moment.
OneLastLearned == \A u \in Learners \ mixed : Cardinality(Marked(u)) <= 1

\* A request is served in a language only if it was active less than the time to
\* live before the request came, though nothing ever invalidates the cache.
LanguageIsFresh == Stale!Spec

=============================================================================
