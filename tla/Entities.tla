------------------------------ MODULE Entities ------------------------------
(***************************************************************************)
(* What the code takes the database for: the columns its entities read and *)
(* write, the values it stores in enumerated types, the keys the services  *)
(* leave their races to, and the rows they insert.                         *)
(***************************************************************************)
EXTENDS Migrations

\* An entity must be given its required columns; the others may be left out.
Entity(t, required, optional) == [required |-> Cols(t, required), columns |-> Cols(t, required \cup optional)]

AiConversation == Entity("ai_conversations", {"language_id"},
    {"id", "user_id", "type", "expires_at", "title", "topic", "message_count", "scenario_id", "status", "max_turns",
     "native_language", "extracted_profile", "scenarios", "injected_vocab_ids"} \cup Stamps)
AiConversationMessage == Entity("ai_conversation_messages", {"conversation_id", "role", "content"},
    {"id", "audio_url", "metadata", "translated_content", "translated_lang", "created_at"})
DeviceToken == Entity("device_tokens", {"user_id", "fcm_token", "platform"}, {"id", "device_name", "is_active"} \cup Stamps)
Exercise == Entity("exercises", {"lesson_id", "language_id", "type", "question", "correct_answer"},
    {"id", "options", "audio_url", "order_index", "points", "status"} \cup Stamps)
FrameworkLevel == Entity("framework_levels", {"language_id", "level_code", "framework_code", "description", "order_index"}, {})
KolBundle == Entity("kol_bundles", {"gift_code", "title"}, {"id", "creator_id", "description", "created_at"})
KolBundleScenario == Entity("kol_bundle_scenarios", {"bundle_id", "scenario_id"}, {})
Language == Entity("languages", {"code", "name"},
    {"id", "native_name", "is_active", "is_native_available", "is_learning_available", "flag_url"})
Lesson == Entity("lessons", {"language_id", "title"},
    {"id", "description", "difficulty", "order_index", "access_tier", "status"} \cup Stamps)
PasswordReset == Entity("password_resets", {"email", "otp_hash", "expires_at"},
    {"id", "reset_token_hash", "attempts", "reset_token_expires_at", "used", "created_at"})
RefreshToken == Entity("refresh_tokens", {"id", "token_hash", "user_id", "expires_at"}, {"revoked", "created_at"})
ScenarioCategory == Entity("scenario_categories", {"name"}, {"id", "order_index", "is_active"} \cup Stamps)
Scenario == Entity("scenarios", {"language_id", "title"},
    {"id", "category_id", "creator_id", "owner_id", "type", "description", "image_url", "difficulty", "access_tier",
     "status", "order_index", "triggers_personalization"} \cup Stamps)
Subscription == Entity("subscriptions", {"user_id"},
    {"id", "plan", "status", "app_user_id", "auto_resume_at", "current_period_start", "current_period_end",
     "cancel_at_period_end", "event_timestamp_ms"} \cup Stamps)
UserExerciseAttempt == Entity("user_exercise_attempts", {"user_id", "exercise_id", "language_id", "user_answer", "is_correct"},
    {"id", "points_earned", "time_spent_seconds", "created_at"})
UserLanguage == Entity("user_languages", {"user_id", "language_id"}, {"id", "proficiency_level", "last_learned", "created_at"})
UserProgress == Entity("user_progress", {"user_id", "lesson_id", "language_id"},
    {"id", "status", "score_earned", "exercises_completed", "exercises_total", "completed_at"} \cup Stamps)
UserScenarioAccess == Entity("user_scenario_access", {"user_id", "scenario_id"}, {"id", "granted_at"})
User == Entity("users", {"email"},
    {"id", "password_hash", "auth_provider", "provider_id", "google_provider_id", "apple_provider_id", "firebase_uid",
     "email_verified", "roles", "display_name", "avatar_url", "phone_number", "native_language",
     "personalized_trial_used_at", "last_personalization_at", "personalization_profile_snapshot"} \cup Stamps)
VocabularyInjectionEvent == Entity("vocabulary_injection_events", {"conversation_id", "vocabulary_id", "turn_index"},
    {"id", "was_used", "created_at"})
Vocabulary == Entity("vocabulary", {"user_id", "word", "translation", "source_lang", "target_lang"},
    {"id", "part_of_speech", "pronunciation", "definition", "examples", "box", "due_at", "last_reviewed_at",
     "review_count", "correct_count", "created_at"})
WebhookEvent == Entity("webhook_events", {"event_id", "event_type"}, {"processed_at"})

EntityList == {AiConversation, AiConversationMessage, DeviceToken, Exercise, FrameworkLevel, KolBundle, KolBundleScenario,
    Language, Lesson, PasswordReset, RefreshToken, ScenarioCategory, Scenario, Subscription, UserExerciseAttempt,
    UserLanguage, UserProgress, UserScenarioAccess, User, VocabularyInjectionEvent, Vocabulary, WebhookEvent}
Columned == UNION {e.columns : e \in EntityList}
Demanded == UNION {e.required : e \in EntityList}

AiConversationType == {"ai_conversation_type_enum"} \X {"anonymous", "authenticated", "personalize_intake"}
ScenarioChatStatus == {"scenario_chat_status_enum"} \X {"CHATTING", "DONE"}
MessageRole == {"message_role_enum"} \X {"user", "assistant", "system"}
DevicePlatform == {"device_platform_enum"} \X {"ios", "android", "web"}
ExerciseType ==
    {"exercise_type_enum"} \X {"multiple_choice", "fill_in_blank", "listening", "speaking", "translation", "matching"}
LessonDifficulty == {"lesson_difficulty_enum"} \X {"beginner", "intermediate", "advanced"}
ScenarioDifficulty == {"scenario_difficulty"} \X {"beginner", "intermediate", "advanced"}
ScenarioTypes == {"scenario_type"} \X {"system", "kol", "personal"}
AccessTiers == {"access_tier"} \X {"free", "premium", "premium_plus"}
ContentStatuses == {"content_status"} \X {"draft", "published", "archived"}
SubscriptionStatus == {"subscription_status_enum"} \X {"active", "expired", "cancelled", "trial", "paused"}
SubscriptionPlan == {"subscription_plan_enum"} \X {"free", "monthly", "yearly", "lifetime"}
ProgressStatus == {"progress_status_enum"} \X {"not_started", "in_progress", "completed"}
Spoken == AiConversationType \cup ScenarioChatStatus \cup MessageRole \cup DevicePlatform \cup ExerciseType
    \cup LessonDifficulty \cup ScenarioDifficulty \cup ScenarioTypes \cup AccessTiers \cup ContentStatuses
    \cup SubscriptionStatus \cup SubscriptionPlan \cup ProgressStatus

-----------------------------------------------------------------------------
(* Keys that decide a race: the insert that loses is told by its error.    *)

OneOpenChatKey == Cols("ai_conversations", {"user_id", "scenario_id", "status"})
WordKey == Cols("vocabulary", {"user_id", "word", "source_lang", "target_lang"})
EventKey == Cols("webhook_events", {"event_id"})
GrantKey == Cols("user_scenario_access", {"user_id", "scenario_id"})
BundledOnceKey == Cols("kol_bundle_scenarios", {"scenario_id"})
GiftCodeKey == Cols("kol_bundles", {"gift_code"})
AccountKeys == {Cols("users", {c}) : c \in {"email", "google_provider_id", "apple_provider_id", "firebase_uid"}}
LearnedOnceKey == Cols("user_languages", {"user_id", "language_id"})
PaidOnceKey == Cols("subscriptions", {"user_id"})
ProgressKey == Cols("user_progress", {"user_id", "lesson_id"})
DeviceKey == Cols("device_tokens", {"fcm_token"})
LanguageKey == Cols("languages", {"code"})
Keys == AccountKeys \cup {OneOpenChatKey, WordKey, EventKey, GrantKey, BundledOnceKey, GiftCodeKey, LearnedOnceKey,
    PaidOnceKey, ProgressKey, DeviceKey, LanguageKey}

-----------------------------------------------------------------------------
(* The rows, by the columns they are given and the type of a scenario.     *)

Row(t, given) == [table |-> t, given |-> Cols(t, given), type |-> "system"]

EmailUser == Row("users", {"email", "password_hash", "display_name", "auth_provider"})
SocialUser == Row("users", {"email", "email_verified", "auth_provider", "provider_id", "firebase_uid"})
IssuedToken == Row("refresh_tokens", {"id", "token_hash", "user_id", "expires_at"})
SentCode == Row("password_resets", {"email", "otp_hash", "expires_at"})
SwitchedLanguage == Row("user_languages", {"user_id", "language_id", "last_learned"})
AddedLanguage == Row("user_languages", {"user_id", "language_id", "last_learned"})
EnrolledLanguage == Row("user_languages", {"user_id", "language_id", "last_learned"})
SavedWord == Row("vocabulary", {"user_id", "word", "translation", "source_lang", "target_lang"})
SavedChunk == Row("vocabulary", {"user_id", "word", "translation", "source_lang", "target_lang"})
IntakeMessage == Row("ai_conversation_messages", {"conversation_id", "role", "content"})
LearnerMessage == Row("ai_conversation_messages", {"conversation_id", "role", "content"})
ScenarioMessage == Row("ai_conversation_messages", {"conversation_id", "role", "content"})
ScenarioChat == Row("ai_conversations", {"user_id", "scenario_id", "language_id", "type", "topic", "max_turns"})
OnboardingChat == Row("ai_conversations", {"type", "title", "language_id", "native_language"})
PersonalizationChat == Row("ai_conversations", {"user_id", "language_id", "type", "title"})
InjectedWord == Row("vocabulary_injection_events", {"conversation_id", "vocabulary_id", "turn_index", "was_used"})
Bundle == Row("kol_bundles", {"gift_code", "title"})
BundledScenario == Row("kol_bundle_scenarios", {"bundle_id", "scenario_id"})
Grant == Row("user_scenario_access", {"user_id", "scenario_id"})
PersonalScenario ==
    [Row("scenarios", {"owner_id", "language_id", "title", "difficulty", "status"}) EXCEPT !.type = "personal"]
HandledEvent == Row("webhook_events", {"event_id", "event_type"})
NewSubscription == Row("subscriptions", {"user_id", "plan", "status", "current_period_end"})
ReconciledSubscription == Row("subscriptions", {"user_id", "plan", "status", "current_period_end", "event_timestamp_ms"})

DraftFields == {"title", "description", "difficulty", "order_index", "language_id", "status"}
LessonDraft == Row("lessons", DraftFields \cup {"access_tier"})
ScenarioDraft == Row("scenarios", DraftFields \cup {"access_tier"})
ExerciseDraft == Row("exercises", {"order_index", "language_id", "status", "type", "question", "correct_answer", "points"})

Rows == {EmailUser, SocialUser, IssuedToken, SentCode, SwitchedLanguage, AddedLanguage, EnrolledLanguage, SavedWord,
    SavedChunk, IntakeMessage, LearnerMessage, ScenarioMessage, ScenarioChat, OnboardingChat, PersonalizationChat,
    InjectedWord, Bundle, BundledScenario, Grant, PersonalScenario, HandledEvent, NewSubscription,
    ReconciledSubscription, LessonDraft, ScenarioDraft, ExerciseDraft}

\* The check of the scenarios: a personal one has an owner and no category, the
\* others a category and no owner.
TypeOwnerCheck(row) ==
    LET owned == <<"scenarios", "owner_id">> \in row.given
        listed == <<"scenarios", "category_id">> \in row.given IN
    IF row.type = "personal" THEN owned /\ ~listed ELSE ~owned /\ listed

Accepts(db, row) ==
    /\ \A c \in db.required : c[1] = row.table => c \in row.given
    /\ row.table = "scenarios" /\ <<"check", "scenarios_type_owner_check">> \in There(db) => TypeOwnerCheck(row)

=============================================================================
