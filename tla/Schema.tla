------------------------------- MODULE Schema -------------------------------
(***************************************************************************)
(* What PostgreSQL does with the statements of the migrations: a database  *)
(* is the things in it, each within others (a column within its table, an  *)
(* index within its columns) and pointing at others (a foreign key or a    *)
(* column of an enumerated type).  What a dropped thing holds goes with it *)
(* silently; what is pointed at cannot be dropped.                         *)
(***************************************************************************)
EXTENDS Integers, Sequences, FiniteSets, TLC, SequencesExt

Thing(within, to) == [within |-> within, to |-> to]
None == << >>

\* things by name, columns that are NOT NULL without a default, values of the
\* enumerated types, those of them that this transaction added, types it created.
Empty == [things |-> None, required |-> {}, values |-> {}, fresh |-> {}, born |-> {}, sound |-> TRUE]

There(db) == DOMAIN db.things

Statement ==
    [given |-> {}, unless |-> {}, needed |-> {}, barred |-> {}, drop |-> {}, cascade |-> FALSE,
     make |-> None, rename |-> {}, demand |-> {}, relax |-> {}, adds |-> {}, retires |-> {}, speaks |-> {}]

\* IF EXISTS and IF NOT EXISTS, and the conditions migrations test themselves.
Skipped(db, s) == ~(s.given \subseteq There(db)) \/ s.unless \cap There(db) # {}

Within(db, N) == N \cup {n \in There(db) : db.things[n].within \cap N # {}}

Gone(db, s) ==
    LET inside == Within(db, Within(db, s.drop \cap There(db))) IN
    IF s.cascade THEN inside \cup {n \in There(db) : db.things[n].to \cap inside # {}} ELSE inside

Possible(db, s) ==
    LET there == There(db) \cup DOMAIN s.make
        gone == Gone(db, s) IN
    /\ s.needed \cup s.demand \cup s.relax \subseteq there
    /\ s.barred \cap There(db) = {}
    /\ \A n \in DOMAIN s.make : s.make[n].within \cup s.make[n].to \subseteq there
    /\ \A n \in There(db) \ gone : db.things[n].to \cap gone = {}
    /\ s.speaks \subseteq db.values \ db.fresh
    /\ s.retires \subseteq db.values

Renamed(s, n) == IF \E p \in s.rename : p[1] = n THEN (CHOOSE p \in s.rename : p[1] = n)[2] ELSE n
Former(s, n) == IF \E p \in s.rename : p[2] = n THEN (CHOOSE p \in s.rename : p[2] = n)[1] ELSE n

\* A value added to a type of the same transaction may be used at once.
Effect(db, s) ==
    LET kept == There(db) \ Gone(db, s)
        New(N) == {Renamed(s, n) : n \in N}
        after == [n \in New(kept) |-> LET o == db.things[Former(s, n)] IN Thing(New(o.within), New(o.to))] @@ s.make
        of(V) == {v \in V : <<v[1]>> \in DOMAIN after} IN
    [db EXCEPT
       !.things = after,
       !.required = ((New(@) \cup s.demand) \cap DOMAIN after) \ s.relax,
       !.values = of((@ \ s.retires) \cup s.adds),
       !.fresh = of(@ \cup {v \in s.adds \ db.values : s.retires = {} /\ v[1] \notin db.born /\ <<v[1]>> \in There(db)}),
       !.born = @ \cup {n[1] : n \in DOMAIN s.make \ There(db)}]

Execute(db, s) ==
    IF ~db.sound \/ Skipped(db, s) THEN db
    ELSE IF Possible(db, s) THEN Effect(db, s) ELSE [db EXCEPT !.sound = FALSE]

ExecuteAll(db, statements) == FoldLeft(Execute, db, statements)

Commit(db) == [db EXCEPT !.fresh = {}, !.born = {}]

-----------------------------------------------------------------------------
(* The statements.  Tables, types and functions are named <<t>>, columns   *)
(* <<t, c>>, and the rest <<kind, name>> or <<"link", t, c>>.              *)

Cols(t, cs) == {<<t, c>> : c \in cs}
Links(t, links) ==
    [n \in {<<"link", t, c>> : c \in DOMAIN links} |-> Thing({<<t, n[3]>>}, {<<links[n[3]]>>})]
Columns(t, cs, links) == [n \in Cols(t, cs) |-> Thing({<<t>>}, {})] @@ Links(t, links)

Table(t, required, defaulted, links) ==
    [Statement EXCEPT !.barred = {<<t>>}, !.demand = Cols(t, required),
        !.make = (<<t>> :> Thing({}, {})) @@ Columns(t, required \cup defaulted, links)]
TableMissing(t, required, defaulted, links) ==
    [Table(t, required, defaulted, links) EXCEPT !.barred = {}, !.unless = {<<t>>}]

AddMissing(t, cs, links) == [Statement EXCEPT !.make = Columns(t, cs, links)]
AddColumns(t, cs, links) == [AddMissing(t, cs, links) EXCEPT !.barred = Cols(t, cs)]
DropAny(N) == [Statement EXCEPT !.drop = N]
DropCascade(N) == [DropAny(N) EXCEPT !.cascade = TRUE]
DropColumns(t, cs) == [DropAny(Cols(t, cs)) EXCEPT !.needed = Cols(t, cs)]
Rename(t, c, d) ==
    [Statement EXCEPT !.needed = {<<t, c>>}, !.barred = {<<t, d>>}, !.rename = { << <<t, c>>, <<t, d>> >> }]
NotNull(t, c) == [Statement EXCEPT !.demand = {<<t, c>>}]
Nullable(t, c) == [Statement EXCEPT !.relax = {<<t, c>>}]
\* A statement on the rows, by the columns it names.
Touch(t, cs) == [Statement EXCEPT !.needed = Cols(t, cs)]

Make(n, within, to) == [Statement EXCEPT !.make = n :> Thing(within, to), !.barred = {n}]
MakeMissing(n, within, to) == [Make(n, within, to) EXCEPT !.barred = {}]
Index(n, t, cs) == Make(<<"index", n>>, Cols(t, cs), {})
IndexMissing(n, t, cs) == MakeMissing(<<"index", n>>, Cols(t, cs), {})
Unique(n, t, cs) == Make(<<"unique", n>>, Cols(t, cs), {})
UniqueMissing(n, t, cs) == MakeMissing(<<"unique", n>>, Cols(t, cs), {})
DropIndexes(ns) == DropAny({"index", "unique"} \X ns)
Check(n, t, cs) == Make(<<"check", n>>, Cols(t, cs), {})
Link(t, c, target) == Make(<<"link", t, c>>, {<<t, c>>}, {<<target>>})
DropLink(t, c) == DropAny({<<"link", t, c>>})
Default(t, c) == MakeMissing(<<"default", c>>, {<<t, c>>}, {})
Policies(ts) == [Statement EXCEPT !.make = [n \in {"policies"} \X ts |-> Thing({<<n[2]>>}, {})]]

Enum(e, vs) == [Make(<<e>>, {}, {}) EXCEPT !.adds = {e} \X vs]
EnumMissing(e, vs) == [Enum(e, vs) EXCEPT !.barred = {}, !.unless = {<<e>>}]
AddValue(e, v) == [Statement EXCEPT !.needed = {<<e>>}, !.adds = {<<e, v>>}]
RenameValue(e, v, w) == [AddValue(e, w) EXCEPT !.retires = {<<e, v>>}]
Speaks(s, e, vs) == [s EXCEPT !.speaks = {e} \X vs]

=============================================================================
