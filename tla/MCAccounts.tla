----------------------------- MODULE MCAccounts -----------------------------
(* Small worlds for Accounts: each behaviour runs one of them. *)
EXTENDS Accounts, TLC

CONSTANTS g1, g2, a1, mail, other, en, fr

\* One verified e-mail with two providers, another account of Google's, and an
\* Apple user whose e-mail is not verified.
MCIdentities == {
    [id |-> g1, provider |-> "google", email |-> mail, verified |-> TRUE],
    [id |-> a1, provider |-> "apple", email |-> mail, verified |-> TRUE],
    [id |-> g2, provider |-> "google", email |-> other, verified |-> TRUE],
    [id |-> a1, provider |-> "apple", email |-> other, verified |-> FALSE]}

\* Nobody; accounts from the time of e-mail and password; a session somebody left.
Old(e) == [google |-> Null, apple |-> Null, email |-> e]
TwoUsers == <<Old(other), Old(mail)>>
Left == <<[Conv(en) EXCEPT !.count = 3, !.said = 3]>>

World(o, n, f, u, c) == [ops |-> o, requests |-> n, faults |-> f, users |-> u, convs |-> c]

SigningIn == {
    World({"firebase"}, 3, FALSE, << >>, << >>),
    World({"firebase"}, 3, FALSE, TwoUsers, << >>)}
Refreshing == {
    World({"firebase", "refresh", "logout"}, 4, TRUE, <<Old(mail)>>, << >>)}
Linking == {
    World({"firebase", "onboarding complete"}, 3, FALSE, TwoUsers, Left),
    World({"firebase", "header request"}, 2, TRUE, <<Old(mail)>>, Left)}
Learning == {
    World({"add language", "update language", "remove language"}, 4, TRUE, <<Old(mail)>>, << >>),
    World({"add language", "header request", "fallback request"}, 3, FALSE, <<Old(mail)>>, << >>)}
Asking == {
    World({"header request", "switch"}, 3, FALSE, <<Old(mail)>>, << >>)}
Talking == {
    World({"onboarding chat", "transcript"}, 4, TRUE, << >>, Left),
    World({"onboarding complete", "tutor"}, 3, TRUE, TwoUsers, Left)}

MCWorlds == SigningIn \cup Refreshing \cup Linking \cup Learning \cup Asking \cup Talking

Symmetry == Permutations(Slots)
=============================================================================
