------------------------------ MODULE Sessions ------------------------------
(***************************************************************************)
(* AuthService: sign-in with Google or Apple, and refresh tokens.  An      *)
(* account is found by the provider's id, else by the e-mail, else it is   *)
(* created; nothing is locked in between, and unique columns decide.       *)
(***************************************************************************)
EXTENDS Handlers, Sequences, FiniteSets

CONSTANTS
    Identities,     \* Firebase users: [id, provider, email, verified]
    Null,           \* a NULL column
    Conversations   \* the conversationId of a sign-in: 0 for none

VARIABLES
    users,      \* rows of users, an account's id is its place
    tokens,     \* rows of refresh_tokens
    doubled     \* tokens that two requests presented at the same time

sessionVars == <<users, tokens, doubled>>

Providers == {"google", "apple"}
Accounts == DOMAIN users

SessionsInit ==
    /\ users = world.users
    /\ tokens = << >>
    /\ doubled = {}

-----------------------------------------------------------------------------
(* Sign-in. *)

\* FirebaseTokenStrategy: Google or Apple, and the e-mail is verified.
Verified(i) == i.verified /\ i.provider \in Providers

\* A provider knows a user by an id, and by one verified e-mail for good.
ASSUME IdentitiesAssumption == \A i, j \in Identities :
    /\ i.id # Null
    /\ Verified(i) /\ Verified(j) /\ i.provider = j.provider /\ i.id = j.id => i.email = j.email

\* The accounts of a world: e-mails are unique, and whoever linked one had its e-mail.
ASSUME UsersAssumption == \A w \in Worlds :
    /\ w.users \in Seq({w.users[a] : a \in DOMAIN w.users})
    /\ \A a \in DOMAIN w.users : DOMAIN w.users[a] = Providers \cup {"email"}
    /\ \A a, b \in DOMAIN w.users : w.users[a].email = w.users[b].email => a = b
    /\ \A a \in DOMAIN w.users, i \in Identities :
         Verified(i) /\ w.users[a][i.provider] = i.id => w.users[a].email = i.email

Owning(i) == {a \in Accounts : users[a][i.provider] = i.id}
WithEmail(e) == {a \in Accounts : users[a].email = e}

SignIn(s) ==
    \E i \in {j \in Identities : Verified(j)}, c \in Conversations :
       /\ Begin(s, "firebase", "find provider", [op |-> "firebase", who |-> i, conv |-> c])
       /\ UNCHANGED sessionVars

\* The account is known: link the onboarding session, if one is named, then answer.
Known(s, a) ==
    Go(s, IF arg[s].conv = 0 THEN "issue" ELSE "session",
       [op |-> "firebase", who |-> arg[s].who, conv |-> arg[s].conv, user |-> a, parent |-> 0])

FindProvider(s) ==
    /\ at[s] = "find provider"
    /\ \/ \E a \in Owning(arg[s].who) : Known(s, a)
       \/ Owning(arg[s].who) = {} /\ Go(s, "find email", arg[s])
    /\ UNCHANGED sessionVars

FindEmail(s) ==
    /\ at[s] = "find email"
    /\ LET found == WithEmail(arg[s].who.email) IN
       \/ \E a \in found :
            Go(s, "link", [op |-> "firebase", who |-> arg[s].who, conv |-> arg[s].conv, user |-> a])
       \/ found = {} /\ Go(s, "create", arg[s])
    /\ UNCHANGED sessionVars

\* Both provider columns are unique: an update that would repeat a value fails.
Link(s) ==
    LET i == arg[s].who IN
    /\ at[s] = "link"
    /\ \/ /\ Owning(i) \subseteq {arg[s].user}
          /\ users' = [users EXCEPT ![arg[s].user][i.provider] = i.id]
          /\ Known(s, arg[s].user)
       \/ Owning(i) \ {arg[s].user} # {} /\ End(s) /\ UNCHANGED users
    /\ UNCHANGED <<tokens, doubled>>

NewAccount(i) == [p \in Providers \cup {"email"} |->
                    IF p = "email" THEN i.email ELSE IF p = i.provider THEN i.id ELSE Null]

CreateFaulty(s) ==
    /\ at[s] = "create"
    /\ users' = Append(users, NewAccount(arg[s].who))
    /\ Known(s, Len(users'))
    /\ UNCHANGED <<tokens, doubled>>

\* So is the e-mail: of two requests that found nothing, one fails.
Create(s) ==
    LET i == arg[s].who IN
    /\ at[s] = "create"
    /\ \/ /\ WithEmail(i.email) \cup Owning(i) = {}
          /\ users' = Append(users, NewAccount(i))
          /\ Known(s, Len(users'))
       \/ WithEmail(i.email) \cup Owning(i) # {} /\ End(s) /\ UNCHANGED users
    /\ UNCHANGED <<tokens, doubled>>

-----------------------------------------------------------------------------
(* Refresh tokens. *)

\* generateTokens: the row of the new refresh token.
Issue(s) ==
    /\ at[s] = "issue"
    /\ tokens' = Append(tokens, [user |-> arg[s].user, by |-> arg[s].who,
                                 parent |-> arg[s].parent, revoked |-> FALSE])
    /\ End(s)
    /\ UNCHANGED <<users, doubled>>

Refresh(s) ==
    \E t \in DOMAIN tokens :
       /\ Begin(s, "refresh", "find token", [op |-> "refresh", token |-> t])
       /\ UNCHANGED sessionVars

Presenting(t) == {s \in Slots : at[s] = "revoke" /\ arg[s].token = t}

FindTokenFaulty(s) ==
    /\ at[s] = "find token"
    /\ Go(s, "revoke", arg[s])
    /\ UNCHANGED sessionVars

\* Revoked, expired, or the secret does not match: 401.
FindToken(s) ==
    LET t == arg[s].token IN
    /\ at[s] = "find token"
    /\ \/ /\ ~tokens[t].revoked
          /\ Go(s, "revoke", arg[s])
          /\ doubled' = IF Presenting(t) = {} THEN doubled ELSE doubled \cup {t}
       \/ End(s) /\ UNCHANGED doubled
    /\ UNCHANGED <<users, tokens>>

\* The old token is revoked before the new one exists.
Revoke(s) ==
    LET t == arg[s].token IN
    /\ at[s] = "revoke"
    /\ tokens' = [tokens EXCEPT ![t].revoked = TRUE]
    /\ Go(s, "issue", [op |-> "refresh", who |-> tokens[t].by, user |-> tokens[t].user, parent |-> t])
    /\ UNCHANGED <<users, doubled>>

RevokeAll(a) == [t \in DOMAIN tokens |->
                   [tokens[t] EXCEPT !.revoked = @ \/ tokens[t].user = a]]

Logout ==
    \E a \in Accounts :
       /\ Instant("logout")
       /\ tokens' = RevokeAll(a)
       /\ UNCHANGED <<users, doubled>>

\* A query fails: 500.  Link and token failures inside the handler have no catch.
SignInFails(s) ==
    /\ world.faults
    /\ at[s] \in {"find provider", "find email", "link", "create", "issue", "find token", "revoke"}
    /\ End(s)
    /\ UNCHANGED sessionVars

SessionStep(s) ==
    \/ SignIn(s) \/ FindProvider(s) \/ FindEmail(s) \/ Link(s) \/ Create(s) \/ Issue(s)
    \/ Refresh(s) \/ FindToken(s) \/ Revoke(s) \/ SignInFails(s)

SessionsNext == (\E s \in Slots : SessionStep(s)) \/ Logout

SessionsSpec ==
    HandlersInit /\ SessionsInit /\ [][SessionsNext]_<<handlerVars, sessionVars>>

-----------------------------------------------------------------------------

\* Whoever signs in, first or again, with either provider and beside whatever
\* other sign-in, is given the one account that has the verified e-mail.
OneAccount ==
    /\ \A a, b \in Accounts : users[a].email = users[b].email => a = b
    /\ \A t \in DOMAIN tokens :
         tokens[t].by.verified /\ users[tokens[t].user].email = tokens[t].by.email

Successors(t) == {n \in DOMAIN tokens : tokens[n].parent = t}

\* A refresh token is worth one new token, and nothing after that, unless two
\* requests presented it at the same moment.
OneSuccessor ==
    \A t \in DOMAIN tokens :
       /\ Successors(t) # {} => tokens[t].revoked
       /\ t \notin doubled => Cardinality(Successors(t)) <= 1

=============================================================================
