------------------------------ MODULE Accounts ------------------------------
(***************************************************************************)
(* AuthService, LanguageService and the intake conversations at work on    *)
(* the same users.  They meet where a sign-in names the session that       *)
(* somebody went through before: the account takes the session over, and   *)
(* its language becomes the one last learned.                              *)
(***************************************************************************)
EXTENDS Sessions, Languages, Intake

accountVars == <<sessionVars, languageVars, intakeVars>>

AccountsInit == HandlersInit /\ SessionsInit /\ LanguagesInit /\ IntakeInit

-----------------------------------------------------------------------------
(* linkOnboardingSession. *)

Linked(s) == convs[arg[s].conv]

\* Only a session that is still anonymous; any other is left alone.
FindSession(s) ==
    /\ at[s] = "session"
    /\ Go(s, IF arg[s].conv \in DOMAIN convs /\ Linked(s).kind = "anonymous" THEN "claim" ELSE "issue", arg[s])
    /\ UNCHANGED accountVars

ClaimFaulty(s) ==
    /\ at[s] = "claim"
    /\ convs' = [convs EXCEPT ![arg[s].conv].kind = "authenticated", ![arg[s].conv].owner = arg[s].user]
    /\ Go(s, "bootstrap", arg[s])
    /\ UNCHANGED <<sessionVars, languageVars, batches, broken, contested>>

\* The update repeats the condition: of two sign-ins one takes the session.
Claim(s) ==
    /\ at[s] = "claim"
    /\ \/ /\ Linked(s).kind = "anonymous"
          /\ convs' = [convs EXCEPT ![arg[s].conv].kind = "authenticated",
                                    ![arg[s].conv].owner = arg[s].user]
          /\ Go(s, "bootstrap", arg[s])
       \/ Linked(s).kind # "anonymous" /\ Go(s, "issue", arg[s]) /\ UNCHANGED convs
    /\ UNCHANGED <<sessionVars, languageVars, batches, broken, contested>>

\* bootstrapUserLanguage, a transaction: the learner's marks are cleared,
Session(s, cleared, found) ==
    [op |-> "firebase", who |-> arg[s].who, conv |-> arg[s].conv, user |-> arg[s].user,
     parent |-> 0, cleared |-> cleared, found |-> found]

Bootstrap(s) ==
    /\ at[s] = "bootstrap"
    /\ Go(s, "bootstrap find", Session(s, Marked(arg[s].user), {}))
    /\ UNCHANGED accountVars

\* the row of the session's language is looked for,
BootstrapFind(s) ==
    /\ at[s] = "bootstrap find"
    /\ Go(s, "bootstrap set", Session(s, arg[s].cleared, Enrolled(arg[s].user, Linked(s).lang)))
    /\ UNCHANGED accountVars

\* and marked, or inserted.  Another insert since then rolls everything back.
BootstrapSet(s) ==
    LET u == arg[s].user
        l == Linked(s).lang IN
    /\ at[s] = "bootstrap set"
    /\ \/ arg[s].found # {} /\ rows' = Remade(arg[s].cleared, arg[s].found \cap Live(u)) /\ Overlap({s}, u)
       \/ /\ arg[s].found = {} /\ Enrolled(u, l) = {}
          /\ rows' = Append(Remade(arg[s].cleared, {}), Row(u, l, TRUE))
          /\ Overlap({s}, u)
       \/ arg[s].found = {} /\ Enrolled(u, l) # {} /\ UNCHANGED <<rows, mixed>>
    /\ Go(s, "issue", arg[s])
    /\ UNCHANGED <<sessionVars, intakeVars, active, cache, now, held>>

\* A failure of the search, of the claim or of the transaction is caught, and so is one
\* of the update of the native language: the sign-in goes on.
LinkFails(s) ==
    /\ world.faults
    /\ at[s] \in {"session", "claim", "bootstrap", "bootstrap find", "bootstrap set"}
    /\ Go(s, "issue", arg[s])
    /\ UNCHANGED accountVars

-----------------------------------------------------------------------------

\* JwtStrategy.validate: the user of an authenticated request has an account.
WithAccount(s) ==
    at[s] = "idle" /\ "user" \in DOMAIN arg'[s] => arg'[s].user \in Accounts \cup {0}

AccountStep(s) ==
    \/ /\ SessionStep(s) /\ UNCHANGED <<languageVars, intakeVars>>
    \/ /\ LanguageStep(s) /\ WithAccount(s) /\ UNCHANGED <<sessionVars, intakeVars>>
    \/ /\ IntakeStep(s) /\ WithAccount(s) /\ UNCHANGED <<sessionVars, languageVars>>
    \/ FindSession(s) \/ Claim(s) \/ Bootstrap(s) \/ BootstrapFind(s) \/ BootstrapSet(s) \/ LinkFails(s)

AccountsNext ==
    \/ \E s \in Slots : AccountStep(s)
    \/ Logout /\ UNCHANGED <<languageVars, intakeVars>>
    \/ (RemoveLanguage \/ Tick \/ \E l \in Langs : SetActive(l)) /\ UNCHANGED <<sessionVars, intakeVars>>
    \/ Restart /\ LanguageRestart /\ IntakeRestart /\ UNCHANGED sessionVars

AccountsSpec == AccountsInit /\ [][AccountsNext]_<<handlerVars, accountVars>>

-----------------------------------------------------------------------------

\* A sign-in takes a session over once: from then on, until a completion that had
\* found it unowned writes its own user, the session belongs to that account and
\* is never anonymous again.
ClaimedOnce ==
    [][\A c \in DOMAIN convs : convs[c].kind = "authenticated" =>
          /\ convs'[c].kind = "authenticated"
          /\ convs'[c].owner # convs[c].owner => \E s \in Slots : Own(s)]_convs

=============================================================================
