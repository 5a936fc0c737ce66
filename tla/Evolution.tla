----------------------------- MODULE Evolution ------------------------------
(***************************************************************************)
(* A database under migration:run, migration:revert and the seed of the    *)
(* languages.  A run executes every pending file in one transaction, which *)
(* is the default of TypeORM and what the data source leaves in place, so  *)
(* a run that meets an impossible statement leaves no trace.               *)
(***************************************************************************)
EXTENDS Entities

\* The database as committed and how many files it has, the database as the open
\* transaction sees it, and that transaction's direction and last file.
VARIABLES db, applied, work, txn
vars == <<db, applied, work, txn>>

Idle == [dir |-> "none", at |-> 0]
English == <<"row", "en">>
Auth == <<"schema", "auth">>

\* What the files were meant to leave behind, from a database with these things.
Meant(start) ==
    FoldLeft(LAMBDA dbs, file : Append(dbs, Commit(FoldLeft(
                 LAMBDA d, s : IF Skipped(d, s) THEN d ELSE Effect(d, s), dbs[Len(dbs)], file.up))),
             <<start>>, Files)
Supabase == [Empty EXCEPT !.things = Auth :> Thing({}, {})]
\* Ideal[hosted][k + 1]: after the first k files, on Supabase or elsewhere.
Ideal == [hosted \in BOOLEAN |-> Meant(IF hosted THEN Supabase ELSE Empty)]

Seeded(d) == [d EXCEPT !.things = @ @@ (English :> Thing({<<"languages", "code">>}, {}))]

\* A database an earlier release left: it has the files of that release.  From
\* the 25th file on it has the language the files look up.
Init ==
    \E hosted \in BOOLEAN, k \in 0 .. Len(Files) :
        /\ applied = k
        /\ \/ k < 25 /\ db = Ideal[hosted][k + 1]
           \/ k > 0 /\ db = Seeded(Ideal[hosted][k + 1])
        /\ work = db /\ txn = Idle

RunFile ==
    LET i == IF txn = Idle THEN applied + 1 ELSE txn.at + 1 IN
    /\ txn.dir \in {"none", "up"} /\ work.sound /\ i \in DOMAIN Files
    /\ work' = ExecuteAll(work, Files[i].up) /\ txn' = [dir |-> "up", at |-> i]
    /\ UNCHANGED <<db, applied>>

RevertFile ==
    /\ txn = Idle /\ applied > 0
    /\ work' = ExecuteAll(db, Files[applied].down) /\ txn' = [dir |-> "down", at |-> applied]
    /\ UNCHANGED <<db, applied>>

CommitFiles ==
    /\ work.sound
    /\ txn.dir = "down" \/ txn = [dir |-> "up", at |-> Len(Files)]
    /\ db' = Commit(work) /\ work' = db' /\ txn' = Idle
    /\ applied' = IF txn.dir = "up" THEN txn.at ELSE txn.at - 1

\* A statement failed, or the command was killed.
RollBack == txn # Idle /\ work' = db /\ txn' = Idle /\ UNCHANGED <<db, applied>>

LanguageSeed == Touch("languages", {"code", "name", "native_name", "is_active"})
Seed ==
    /\ txn = Idle
    /\ LanguageSeed.needed \subseteq There(db)
    /\ {c \in db.required : c[1] = "languages"} \subseteq LanguageSeed.needed
    /\ English \notin There(db)
    /\ db' = Seeded(db) /\ work' = db' /\ UNCHANGED <<applied, txn>>

Next == RunFile \/ RevertFile \/ CommitFiles \/ RollBack \/ Seed
Spec == Init /\ [][Next]_vars

-----------------------------------------------------------------------------
\* A run stops at the seed of the scenarios, which names a column a later file
\* adds, so no database is built from nothing; it stops where the language 'en'
\* is looked up and missing, and where the value 'personal' of a type that was
\* there before is used by the transaction that adds it.  A revert stops at the
\* levels of the languages when the revert of a later file left a default that is
\* no value of the type.  Nothing else stops, from any release and however often
\* files were reverted, and what stops leaves the database as it was.
StopsHere ==
    \/ txn.dir = "up" /\ txn.at = 16
    \/ txn.dir = "up" /\ txn.at \in {25, 26} /\ English \notin There(db)
    \/ txn.dir = "up" /\ txn.at = 47 /\ <<"scenario_type">> \in There(db) /\ <<"scenario_type", "personal">> \notin db.values
    \/ txn.dir = "down" /\ txn.at = 35 /\ LevelDefault \in There(db)
StopsOnlyWhere == work.sound <=> ~StopsHere

Differ(d, e) ==
    (There(d) \cup There(e)) \ {n \in There(d) \cap There(e) : d.things[n] = e.things[n]}

\* What reverting does not bring back, or leaves behind, with k files applied.
Drift(k) ==
    {English}
    \cup (IF k < 25 THEN {<<"link", "scenarios", "language_id">>} ELSE {})
    \cup (IF k < 26 THEN {<<"link", "ai_conversations", "language_id">>} ELSE {})
    \cup (IF k \in 35 .. 43 THEN {LevelDefault} ELSE {})
    \cup (IF k \in 38 .. 52 THEN {<<"unique", "UQ_ai_conversations_user_scenario_active">>} ELSE {})
    \cup (IF k < 54 THEN {"policies"} \X (Guarded \cup {"vocabulary"}) ELSE {})
Orphans == {<<"scenario_type", "personal">>, <<"access_tier", "premium_plus">>, <<"ai_conversation_type_enum", "personalize_intake">>}

\* Whatever runs, reverts and seeds led to it, a database is the one its files are
\* meant to build but for the named leftovers of reverts, and exactly that one
\* when all of them are applied again.
SameSchema ==
    LET ideal == Ideal[(Auth \in There(db))][applied + 1] IN
    txn = Idle =>
        /\ Differ(db, ideal) \subseteq Drift(applied)
        /\ db.required = ideal.required
        /\ ideal.values \subseteq db.values /\ db.values \subseteq ideal.values \cup Orphans

\* A database with all the files has what the code takes it for: but for a column
\* and a value no file adds, and the drafts of exercises and scenarios, of which
\* no row is accepted.
ServesTheCode ==
    applied = Len(Files) /\ txn = Idle =>
        /\ Columned \ There(db) = {<<"users", "phone_number">>}
        /\ Spoken \ db.values = {<<"subscription_status_enum", "paused">>}
        /\ db.required \subseteq Demanded
        /\ \A k \in Keys : \E n \in There(db) : n[1] = "unique" /\ db.things[n].within = k
        /\ {row \in Rows : ~Accepts(db, row)} = {ExerciseDraft, ScenarioDraft}

=============================================================================
