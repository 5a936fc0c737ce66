------------------------------ MODULE Practice ------------------------------
(***************************************************************************)
(* What a user practises with: the personal scenarios a model makes, the   *)
(* catalogue of scenarios, and the vocabulary with its reviews.  They share *)
(* the process, its requests and its restarts.                             *)
(***************************************************************************)
EXTENDS Personalization, Reviews, Catalog

practiceVars == <<intakeVars, personalVars, reviewVars, catalogVars>>

PracticeInit == HandlersInit /\ IntakeInit /\ PersonalInit /\ ReviewsInit /\ CatalogInit

PracticeNext ==
    \/ /\ \/ \E s \in Slots : PersonalStep(s)
          \/ Practise \/ ChangePlan \/ NextDay \/ NextMonth
       /\ UNCHANGED <<reviewVars, catalogVars>>
    \/ /\ \/ \E s \in Slots : ReviewStep(s)
          \/ TranslateWord \/ RemoveWord \/ TouchReviewed \/ FallDue \/ StartReview \/ Age \/ Sweep
       /\ UNCHANGED <<intakeVars, personalVars, catalogVars>>
    \/ /\ \/ \E s \in Slots : CatalogStep(s)
          \/ GenerateDraft \/ StorePersonal \/ DropPersonal \/ Browse \/ Subscribe \/ HourPasses
       /\ UNCHANGED <<intakeVars, personalVars, reviewVars>>
    \/ Restart /\ IntakeRestart /\ PersonalRestart /\ ReviewsRestart /\ CatalogRestart

PracticeSpec == PracticeInit /\ [][PracticeNext]_<<handlerVars, practiceVars>>

=============================================================================
