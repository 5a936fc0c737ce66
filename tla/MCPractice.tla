----------------------------- MODULE MCPractice -----------------------------
(* Small worlds for Practice: each behaviour runs one of them. *)
EXTENDS Practice, TLC

CONSTANTS mon, tue, red, en

MCProfiles == {{}, {mon}, {mon, tue}}

World(o, n, f) == [
    ops |-> o, requests |-> n, faults |-> f,
    convs |-> << >>, plan |-> [u \in Callers |-> "none"], personal |-> [u \in Callers |-> << >>],
    words |-> << >>, catalog |-> << >>]

\* Intake conversations there are; rows from an earlier day.
Told(u) == [Conv(en) EXCEPT !.kind = "personalize", !.owner = u]
OldRows(n) == [i \in {0} \X (1 .. n) |-> [Scenario EXCEPT !.recent = FALSE, !.kept = TRUE]]
Subscriber(o, n, f, p, rs) == [World(o, n, f) EXCEPT
    !.convs = <<Told(1)>>, !.plan = [u \in Callers |-> p],
    !.personal = [u \in Callers |-> IF u = 1 THEN rs ELSE << >>]]

Intaking == {Subscriber({"personal chat", "plan"}, 3, TRUE, "monthly", << >>)}
Answering == {
    Subscriber({"personal complete", "practise", "day", "month"}, 4, TRUE, "monthly", << >>),
    Subscriber({"personal complete", "practise", "day"}, 5, FALSE, "lifetime", OldRows(3))}
Offering == {Subscriber({"offer", "plan"}, 4, TRUE, "monthly", OldRows(1))}

Cards(o, n, f, ws) == [World(o, n, f) EXCEPT !.words = ws]
Reviewing == {
    Cards({"start review", "rate", "complete review", "age"}, 5, TRUE, <<red>>),
    Cards({"start review", "rate", "remove word", "translate word"}, 5, FALSE, <<red>>),
    Cards({"start review", "rate", "touch", "due"}, 5, FALSE, <<red>>)}
Sentences == {Cards({"translate sentence"}, 4, TRUE, << >>)}

Shelf(o, n, f, rs) == [World(o, n, f) EXCEPT !.catalog = rs]
Kol == Entry("kol", "published", "premium", 0, en, TRUE)
System == Entry("system", "published", "free", 0, en, TRUE)
Guarding == {Shelf({"chat", "edit"}, 3, FALSE, <<System>>),
             Shelf({"chat", "subscription"}, 2, TRUE, <<Kol>>),
             Shelf({"chat", "personalize"}, 3, FALSE, << >>)}
Bundling == {Shelf({"create bundle", "attach", "redeem"}, 3, TRUE, <<Kol, Kol, System>>)}
Browsing == {Shelf({"draft", "edit", "personalize", "browse"}, 3, FALSE, <<Kol>>),
             Shelf({"create bundle", "redeem", "browse", "personalize"}, 4, FALSE, <<Kol>>)}

MCWorlds == Intaking \cup Answering \cup Offering \cup Reviewing \cup Sentences
              \cup Guarding \cup Bundling \cup Browsing

\* One generation for a user whose scenarios have reached the cap.
Pruning == {Subscriber({"personal complete"}, 1, FALSE, "lifetime", OldRows(3))}

Symmetry == Permutations(Slots)
=============================================================================
