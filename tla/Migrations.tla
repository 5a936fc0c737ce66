----------------------------- MODULE Migrations -----------------------------
(***************************************************************************)
(* The migrations of src/database/migrations, up and down, in the order of *)
(* their timestamps: what each statement makes, drops and names.  How rows *)
(* are rewritten is left out; the columns such a statement names are not.  *)
(***************************************************************************)
EXTENDS Schema

Stamps == {"created_at", "updated_at"}

InitialEnums == <<
    Enum("proficiency_level_enum", {"beginner", "elementary", "intermediate", "upper_intermediate", "advanced"}),
    Enum("lesson_difficulty_enum", {"beginner", "intermediate", "advanced"}),
    Enum("exercise_type_enum",
         {"multiple_choice", "fill_in_blank", "listening", "speaking", "translation", "matching"}),
    Enum("progress_status_enum", {"not_started", "in_progress", "completed"}),
    Enum("subscription_status_enum", {"active", "expired", "cancelled", "trial"}),
    Enum("subscription_plan_enum", {"free", "monthly", "yearly", "lifetime"}),
    Enum("message_role_enum", {"user", "assistant", "system"}),
    Enum("device_platform_enum", {"ios", "android", "web"}) >>

InitialTables == <<
    Table("languages", {"code", "name"}, {"id", "native_name", "is_active"}, None),
    Unique("languages_code_key", "languages", {"code"}),
    Table("users", {"email"}, {"id", "password_hash", "auth_provider", "provider_id", "display_name",
          "avatar_url", "native_language_id"} \cup Stamps, [native_language_id |-> "languages"]),
    Unique("users_email_key", "users", {"email"}),
    Table("user_languages", {"user_id", "language_id"}, {"id", "proficiency_level", "is_active", "created_at"},
          [user_id |-> "users", language_id |-> "languages", proficiency_level |-> "proficiency_level_enum"]),
    Default("user_languages", "proficiency_level"),
    Unique("user_languages_key", "user_languages", {"user_id", "language_id"}),
    Table("lessons", {"language_id", "title"}, {"id", "description", "difficulty", "order_index", "is_premium",
          "is_active"} \cup Stamps, [language_id |-> "languages", difficulty |-> "lesson_difficulty_enum"]),
    Table("exercises", {"lesson_id", "type", "question", "correct_answer"}, {"id", "options", "audio_url",
          "order_index", "points"} \cup Stamps, [lesson_id |-> "lessons", type |-> "exercise_type_enum"]),
    Table("user_progress", {"user_id", "lesson_id"}, {"id", "status", "score_earned", "exercises_completed",
          "exercises_total", "completed_at"} \cup Stamps,
          [user_id |-> "users", lesson_id |-> "lessons", status |-> "progress_status_enum"]),
    Unique("user_progress_key", "user_progress", {"user_id", "lesson_id"}),
    Table("user_exercise_attempts", {"user_id", "exercise_id", "user_answer", "is_correct"},
          {"id", "points_earned", "time_spent_seconds", "created_at"}, [user_id |-> "users", exercise_id |-> "exercises"]),
    Table("subscriptions", {"user_id"}, {"id", "plan", "status", "revenuecat_id", "current_period_start",
          "current_period_end", "cancel_at_period_end"} \cup Stamps,
          [user_id |-> "users", plan |-> "subscription_plan_enum", status |-> "subscription_status_enum"]),
    Unique("subscriptions_user_id_key", "subscriptions", {"user_id"}),
    Table("ai_conversations", {"user_id", "language_id"}, {"id", "title", "topic", "message_count", "metadata"}
          \cup Stamps, [user_id |-> "users", language_id |-> "languages"]),
    Table("ai_conversation_messages", {"conversation_id", "role", "content"}, {"id", "audio_url", "metadata",
          "created_at"}, [conversation_id |-> "ai_conversations", role |-> "message_role_enum"]),
    Table("device_tokens", {"user_id", "fcm_token", "platform"}, {"id", "device_name", "is_active"} \cup Stamps,
          [user_id |-> "users", platform |-> "device_platform_enum"]),
    Unique("device_tokens_fcm_token_key", "device_tokens", {"fcm_token"}) >>

InitialIndexes == <<
    Index("idx_users_email", "users", {"email"}),
    Index("idx_user_languages_user_id", "user_languages", {"user_id"}),
    Index("idx_lessons_language_id", "lessons", {"language_id"}),
    Index("idx_exercises_lesson_id", "exercises", {"lesson_id"}),
    Index("idx_user_progress_user_id", "user_progress", {"user_id"}),
    Index("idx_user_exercise_attempts_user_id", "user_exercise_attempts", {"user_id"}),
    Index("idx_subscriptions_user_id", "subscriptions", {"user_id"}),
    Index("idx_ai_conversations_user_id", "ai_conversations", {"user_id"}),
    Index("idx_ai_conversation_messages_conversation_id", "ai_conversation_messages", {"conversation_id"}),
    Index("idx_device_tokens_user_id", "device_tokens", {"user_id"}) >>

UndoInitial == <<
    DropCascade({<<t>> : t \in {"device_tokens", "ai_conversation_messages", "ai_conversations", "subscriptions",
        "user_exercise_attempts", "user_progress", "exercises", "lessons", "user_languages", "users", "languages"}}),
    DropAny({<<e>> : e \in {"device_platform_enum", "message_role_enum", "subscription_plan_enum",
        "subscription_status_enum", "progress_status_enum", "exercise_type_enum", "lesson_difficulty_enum",
        "proficiency_level_enum"}}) >>

\* Only where Supabase's auth schema is.
Guarded == {"users", "user_languages", "user_progress", "user_exercise_attempts", "subscriptions",
            "ai_conversations", "ai_conversation_messages", "device_tokens"}
RlsPolicies == << [Policies(Guarded) EXCEPT !.given = {<<"schema", "auth">>}] >>
UndoRlsPolicies == << DropAny({"policies"} \X Guarded) >>

FlagUrl == << AddColumns("languages", {"flag_url"}, None), Touch("languages", {"code", "flag_url", "is_active"}) >>
UndoFlagUrl == << DropColumns("languages", {"flag_url"}), Touch("languages", {"is_active"}) >>

RefreshTokens == <<
    Table("refresh_tokens", {"token_hash", "user_id", "expires_at"}, {"id", "revoked", "created_at"}, [user_id |-> "users"]),
    Index("IDX_refresh_tokens_token_hash", "refresh_tokens", {"token_hash"}),
    Index("IDX_refresh_tokens_user_id", "refresh_tokens", {"user_id"}) >>
UndoRefreshTokens == <<
    DropIndexes({"IDX_refresh_tokens_user_id", "IDX_refresh_tokens_token_hash"}), DropAny({<<"refresh_tokens">>}) >>

Onboarding == <<
    Enum("ai_conversation_type_enum", {"anonymous", "authenticated"}),
    Nullable("ai_conversations", "user_id"), Nullable("ai_conversations", "language_id"),
    AddColumns("ai_conversations", {"session_token", "type", "expires_at"}, [type |-> "ai_conversation_type_enum"]),
    Unique("IDX_ai_conversations_session_token", "ai_conversations", {"session_token"}),
    Index("IDX_ai_conversations_type", "ai_conversations", {"type"}) >>
UndoOnboarding == <<
    DropIndexes({"IDX_ai_conversations_type", "IDX_ai_conversations_session_token"}),
    DropAny(Cols("ai_conversations", {"expires_at", "type", "session_token"})),
    DropAny({<<"ai_conversation_type_enum">>}),
    NotNull("ai_conversations", "user_id"), NotNull("ai_conversations", "language_id") >>

Providers == {"google_provider_id", "apple_provider_id"}
ProviderColumns == <<
    AddMissing("users", Providers, None),
    UniqueMissing("IDX_users_google_provider_id", "users", {"google_provider_id"}),
    UniqueMissing("IDX_users_apple_provider_id", "users", {"apple_provider_id"}),
    Touch("users", {"provider_id", "auth_provider"}), Touch("refresh_tokens", {"revoked"}) >>
UndoProviderColumns == <<
    DropIndexes({"IDX_users_google_provider_id", "IDX_users_apple_provider_id"}), DropAny(Cols("users", Providers)) >>

Available == {"is_native_available", "is_learning_available"}
LearningFlags == << AddColumns("languages", Available, None) >>
UndoLearningFlags == << DropColumns("languages", Available) >>

VocabularyTable == <<
    Table("vocabulary", {"user_id", "word", "translation", "source_lang", "target_lang"},
          {"id", "part_of_speech", "pronunciation", "created_at"}, [user_id |-> "users"]),
    Unique("UQ_vocabulary_user_word_langs", "vocabulary", {"user_id", "word", "source_lang", "target_lang"}),
    Index("IDX_vocabulary_user_id", "vocabulary", {"user_id"}), Policies({"vocabulary"}),
    AddColumns("ai_conversation_messages", {"translated_content", "translated_lang"}, None) >>
UndoVocabularyTable == <<
    DropColumns("ai_conversation_messages", {"translated_content", "translated_lang"}), DropAny({<<"vocabulary">>}) >>

Definitions == << AddColumns("vocabulary", {"definition", "examples"}, None) >>
UndoDefinitions == << DropColumns("vocabulary", {"examples", "definition"}) >>

WebhookEvents == <<
    TableMissing("webhook_events", {"event_id", "event_type"}, {"processed_at"}, None),
    UniqueMissing("webhook_events_pkey", "webhook_events", {"event_id"}) >>
UndoWebhookEvents == << DropAny({<<"webhook_events">>}) >>

PasswordResets == <<
    Table("password_resets", {"email", "otp_hash", "expires_at"},
          {"id", "reset_token_hash", "attempts", "reset_token_expires_at", "used", "created_at"}, None),
    Index("IDX_password_resets_email_created_at", "password_resets", {"email", "created_at"}) >>
UndoPasswordResets == << DropIndexes({"IDX_password_resets_email_created_at"}), DropAny({<<"password_resets">>}) >>

DropSessionToken == <<
    DropIndexes({"IDX_ai_conversations_session_token"}), DropAny(Cols("ai_conversations", {"session_token"})) >>
UndoDropSessionToken == <<
    AddColumns("ai_conversations", {"session_token"}, None),
    Unique("IDX_ai_conversations_session_token", "ai_conversations", {"session_token"}) >>

FirebaseUid == << AddColumns("users", {"firebase_uid"}, None), Unique("users_firebase_uid_key", "users", {"firebase_uid"}) >>
UndoFirebaseUid == << DropColumns("users", {"firebase_uid"}) >>
EmailVerified == << AddColumns("users", {"email_verified"}, None) >>
UndoEmailVerified == << DropColumns("users", {"email_verified"}) >>

ScenariosTables == <<
    Enum("scenario_difficulty", {"beginner", "intermediate", "advanced"}),
    Table("scenario_categories", {"name"}, {"id", "icon", "order_index", "is_active"} \cup Stamps, None),
    Table("scenarios", {"category_id", "title"}, {"id", "language_id", "creator_id", "gift_code", "description", "image_url",
          "difficulty", "is_premium", "is_trial", "is_active", "order_index"} \cup Stamps,
          [category_id |-> "scenario_categories", language_id |-> "languages", creator_id |-> "users",
           difficulty |-> "scenario_difficulty"]),
    Unique("scenarios_gift_code_key", "scenarios", {"gift_code"}),
    Table("user_scenario_access", {"user_id", "scenario_id"}, {"id", "granted_at"},
          [user_id |-> "users", scenario_id |-> "scenarios"]),
    Unique("user_scenario_access_key", "user_scenario_access", {"user_id", "scenario_id"}),
    Index("idx_scenarios_category", "scenarios", {"category_id"}),
    Index("idx_scenarios_language", "scenarios", {"language_id"}),
    Index("idx_scenarios_difficulty", "scenarios", {"difficulty"}),
    Index("idx_scenarios_active", "scenarios", {"is_active"}),
    Index("idx_user_scenario_access_user", "user_scenario_access", {"user_id"}) >>
UndoScenariosTables == <<
    DropAny({<<"user_scenario_access">>}), DropAny({<<"scenarios">>}),
    DropAny({<<"scenario_categories">>}), DropAny({<<"scenario_difficulty">>}) >>

SeedScenarios == <<
    Touch("scenario_categories", {"name", "order_index", "is_active"}),
    Touch("scenarios", {"category_id", "language_id", "title", "description", "difficulty", "access_tier", "order_index"}) >>
UndoSeedScenarios == << Touch("scenarios", {"language_id"}), Touch("scenario_categories", {}) >>

ScenarioId == <<
    AddColumns("ai_conversations", {"scenario_id"}, [scenario_id |-> "scenarios"]),
    Index("idx_ai_conversations_user_scenario", "ai_conversations", {"user_id", "scenario_id"}) >>
UndoScenarioId == <<
    DropIndexes({"idx_ai_conversations_user_scenario"}), DropColumns("ai_conversations", {"scenario_id"}) >>

\* One open chat of a user with a scenario: which chats are open is told by c.
OneOpenChat(c) ==
    Unique("UQ_ai_conversations_user_scenario_active", "ai_conversations", {"user_id", "scenario_id", c})
DropOneOpenChat == DropIndexes({"UQ_ai_conversations_user_scenario_active"})

UniqueConversation == << OneOpenChat("metadata") >>
UndoUniqueConversation == << DropOneOpenChat >>

Srs == <<
    AddColumns("vocabulary", {"box", "due_at", "last_reviewed_at", "review_count", "correct_count"}, None),
    Check("vocabulary_box_check", "vocabulary", {"box"}),
    Index("idx_vocabulary_user_due", "vocabulary", {"user_id", "due_at"}) >>
UndoSrs == <<
    DropIndexes({"idx_vocabulary_user_due"}), DropAny({<<"check", "vocabulary_box_check">>}),
    DropAny(Cols("vocabulary", {"correct_count", "review_count", "last_reviewed_at", "due_at", "box"})) >>

DropIcon == << DropAny(Cols("scenario_categories", {"icon"})) >>
UndoDropIcon == << AddColumns("scenario_categories", {"icon"}, None) >>

OnboardingCache == << AddColumns("ai_conversations", {"extracted_profile", "scenarios"}, None) >>
UndoOnboardingCache == << DropAny(Cols("ai_conversations", {"scenarios", "extracted_profile"})) >>

\* The language of a row that hangs on a lesson, copied from the lesson.
AddLanguage(t, index, cs) == <<
    AddMissing(t, {"language_id"}, None), Touch("lessons", {"language_id"}), NotNull(t, "language_id"),
    Link(t, "language_id", "languages"), IndexMissing(index, t, cs \cup {"language_id"}) >>
RemoveLanguage(t, index) == <<
    DropIndexes({index}), DropLink(t, "language_id"), DropAny(Cols(t, {"language_id"})) >>

ExerciseLanguage == AddLanguage("exercises", "idx_exercises_language", {})
UndoExerciseLanguage == RemoveLanguage("exercises", "idx_exercises_language")
ProgressLanguage == AddLanguage("user_progress", "idx_user_progress_user_lang_status", {"user_id", "status"})
UndoProgressLanguage == RemoveLanguage("user_progress", "idx_user_progress_user_lang_status")
AttemptLanguage ==
    AddLanguage("user_exercise_attempts", "idx_user_exercise_attempts_user_lang", {"user_id", "created_at"})
UndoAttemptLanguage == RemoveLanguage("user_exercise_attempts", "idx_user_exercise_attempts_user_lang")

\* They look the language 'en' up and throw when it is not there.
FindEnglish == [Touch("languages", {"code"}) EXCEPT !.needed = @ \cup {<<"row", "en">>}]

ScenarioLanguage == <<
    FindEnglish, Touch("scenarios", {"language_id"}), NotNull("scenarios", "language_id"),
    DropLink("scenarios", "language_id"), Link("scenarios", "language_id", "languages") >>
UndoScenarioLanguage == << DropLink("scenarios", "language_id"), Nullable("scenarios", "language_id") >>

ConversationLanguage == <<
    Touch("ai_conversations", {"language_id", "metadata"}), Touch("languages", {"code", "is_active"}),
    FindEnglish, NotNull("ai_conversations", "language_id"),
    DropLink("ai_conversations", "language_id"), Link("ai_conversations", "language_id", "languages") >>
UndoConversationLanguage == << DropLink("ai_conversations", "language_id"), Nullable("ai_conversations", "language_id") >>

ContentStatus == <<
    EnumMissing("content_status", {"draft", "published", "archived"}),
    AddMissing("lessons", {"status"}, [status |-> "content_status"]),
    AddMissing("exercises", {"status"}, [status |-> "content_status"]),
    AddMissing("scenarios", {"status"}, [status |-> "content_status"]),
    IndexMissing("idx_lessons_status", "lessons", {"status"}),
    IndexMissing("idx_exercises_status", "exercises", {"status"}),
    IndexMissing("idx_scenarios_status", "scenarios", {"status"}) >>
UndoContentStatusFaulty == <<
    DropIndexes({"idx_scenarios_status", "idx_exercises_status", "idx_lessons_status"}),
    DropAny({<<"content_status">>}),
    DropAny(Cols("scenarios", {"status"})), DropAny(Cols("exercises", {"status"})), DropAny(Cols("lessons", {"status"})) >>
UndoContentStatus == <<
    DropIndexes({"idx_scenarios_status", "idx_exercises_status", "idx_lessons_status"}),
    DropAny(Cols("scenarios", {"status"})), DropAny(Cols("exercises", {"status"})),
    DropAny(Cols("lessons", {"status"})), DropAny({<<"content_status">>}) >>

IsAdmin == << AddMissing("users", {"is_admin"}, None) >>
UndoIsAdmin == << DropAny(Cols("users", {"is_admin"})) >>

AccessTier == <<
    EnumMissing("access_tier", {"free", "premium"}),
    AddMissing("scenarios", {"access_tier"}, [access_tier |-> "access_tier"]),
    AddMissing("lessons", {"access_tier"}, [access_tier |-> "access_tier"]),
    Touch("scenarios", {"is_premium", "is_trial", "is_active", "status"}),
    Touch("lessons", {"is_premium", "is_active", "status"}),
    DropIndexes({"idx_scenarios_active"}),
    DropAny(Cols("scenarios", {"is_premium", "is_trial", "is_active"})),
    DropAny(Cols("lessons", {"is_premium", "is_active"})),
    IndexMissing("idx_scenarios_access_tier", "scenarios", {"access_tier"}),
    IndexMissing("idx_lessons_access_tier", "lessons", {"access_tier"}) >>
UndoAccessTierFaulty == <<
    DropIndexes({"idx_lessons_access_tier", "idx_scenarios_access_tier"}),
    AddMissing("scenarios", {"is_premium", "is_trial", "is_active"}, None),
    AddMissing("lessons", {"is_premium", "is_active"}, None),
    Touch("scenarios", {"access_tier", "status"}), Touch("lessons", {"access_tier", "status"}),
    DropAny(Cols("scenarios", {"access_tier"})), DropAny(Cols("lessons", {"access_tier"})),
    DropAny({<<"access_tier">>}) >>
UndoAccessTier == <<
    DropIndexes({"idx_lessons_access_tier", "idx_scenarios_access_tier"}),
    AddMissing("scenarios", {"is_premium", "is_trial", "is_active"}, None),
    AddMissing("lessons", {"is_premium", "is_active"}, None),
    Touch("scenarios", {"access_tier", "status"}), Touch("lessons", {"access_tier", "status"}),
    DropAny(Cols("scenarios", {"access_tier"})), DropAny(Cols("lessons", {"access_tier"})),
    DropAny({<<"access_tier">>}), IndexMissing("idx_scenarios_active", "scenarios", {"is_active"}) >>

ScenarioType == <<
    Enum("scenario_type", {"default", "kol"}), AddColumns("scenarios", {"type"}, [type |-> "scenario_type"]),
    DropAny(Cols("scenarios", {"gift_code"})) >>
UndoScenarioType == <<
    DropAny(Cols("scenarios", {"type"})), DropAny({<<"scenario_type">>}),
    AddColumns("scenarios", {"gift_code"}, None), Unique("scenarios_gift_code_key", "scenarios", {"gift_code"}) >>

UserAiScenarios == <<
    Table("user_ai_scenarios", {"id", "user_id", "language_id", "title"},
          {"conversation_id", "description", "difficulty", "created_at"},
          [user_id |-> "users", language_id |-> "languages", conversation_id |-> "ai_conversations",
           difficulty |-> "scenario_difficulty"]),
    Index("idx_user_ai_scenarios_user_lang", "user_ai_scenarios", {"user_id", "language_id"}) >>
UndoUserAiScenarios == << DropAny({<<"user_ai_scenarios">>}) >>

KolBundles == <<
    Table("kol_bundles", {"gift_code", "title"}, {"id", "creator_id", "description", "created_at"}, [creator_id |-> "users"]),
    Unique("kol_bundles_gift_code_key", "kol_bundles", {"gift_code"}),
    Index("idx_kol_bundles_creator", "kol_bundles", {"creator_id"}),
    Table("kol_bundle_scenarios", {"bundle_id", "scenario_id"}, {},
          [bundle_id |-> "kol_bundles", scenario_id |-> "scenarios"]),
    Unique("kol_bundle_scenarios_scenario_id_key", "kol_bundle_scenarios", {"scenario_id"}) >>
UndoKolBundles == << DropAny({<<"kol_bundle_scenarios">>}), DropAny({<<"kol_bundles">>}) >>

Roles == << AddColumns("users", {"roles"}, None), Touch("users", {"is_admin"}), DropAny(Cols("users", {"is_admin"})) >>
UndoRoles == << AddColumns("users", {"is_admin"}, None), Touch("users", {"roles"}), DropAny(Cols("users", {"roles"})) >>

\* The foreign key is dropped, if it is there, and made again both ways.
RelaxAccess ==
    << DropLink("user_scenario_access", "scenario_id"), Link("user_scenario_access", "scenario_id", "scenarios") >>
UndoRelaxAccess == RelaxAccess

\* A default is not cast when the type of its column becomes an enumerated one.
LevelDefault == <<"default", "proficiency_level">>
LanguageLevels == <<
    AddMissing("languages", {"level_framework"}, None), Touch("languages", {"code"}),
    DropAny({LevelDefault}), DropLink("user_languages", "proficiency_level"),
    DropAny({<<"proficiency_level_enum">>}), Touch("user_languages", {"proficiency_level", "language_id"}) >>
UndoLanguageLevels == <<
    Touch("languages", {"level_framework"}), Touch("user_languages", {"proficiency_level", "language_id"}),
    Enum("proficiency_level_enum", {"beginner", "elementary", "intermediate", "upper_intermediate", "advanced"}),
    [Link("user_languages", "proficiency_level", "proficiency_level_enum") EXCEPT !.barred = @ \cup {LevelDefault}],
    Default("user_languages", "proficiency_level"), DropAny(Cols("languages", {"level_framework"})) >>

VocabCache == <<
    AddMissing("ai_conversations", {"injected_vocab_ids"}, None),
    IndexMissing("idx_vocab_user_lang_last_reviewed", "vocabulary", {"user_id", "target_lang", "last_reviewed_at"}),
    IndexMissing("idx_vocab_user_lang_due_box", "vocabulary", {"user_id", "target_lang", "due_at", "box"}) >>
UndoVocabCache == <<
    DropIndexes({"idx_vocab_user_lang_due_box", "idx_vocab_user_lang_last_reviewed"}),
    DropAny(Cols("ai_conversations", {"injected_vocab_ids"})) >>

InjectionEvents == <<
    TableMissing("vocabulary_injection_events", {"conversation_id", "vocabulary_id", "turn_index"},
        {"id", "was_used", "created_at"}, [conversation_id |-> "ai_conversations", vocabulary_id |-> "vocabulary"]),
    IndexMissing("idx_vocab_inj_events_conv", "vocabulary_injection_events", {"conversation_id"}),
    IndexMissing("idx_vocab_inj_events_vocab", "vocabulary_injection_events", {"vocabulary_id"}) >>
UndoInjectionEvents == << DropAny({<<"vocabulary_injection_events">>}) >>

ChatStatus == <<
    Enum("scenario_chat_status_enum", {"CHATTING", "DONE"}),
    AddColumns("ai_conversations", {"status"}, [status |-> "scenario_chat_status_enum"]),
    Touch("ai_conversations", {"metadata"}), DropOneOpenChat, OneOpenChat("status") >>
UndoChatStatus == <<
    DropOneOpenChat, Touch("ai_conversations", {"metadata", "status"}), DropColumns("ai_conversations", {"status"}),
    [DropAny({<<"scenario_chat_status_enum">>}) EXCEPT !.needed = {<<"scenario_chat_status_enum">>}],
    OneOpenChat("metadata") >>

NativeLanguage == <<
    AddMissing("users", {"native_language"}, None), Touch("users", {"native_language_id"}),
    DropAny(Cols("users", {"native_language_id"})) >>
UndoNativeLanguage == <<
    AddColumns("users", {"native_language_id"}, [native_language_id |-> "languages"]),
    Touch("users", {"native_language"}), DropAny(Cols("users", {"native_language"})) >>

VocabularyType == << AddColumns("vocabulary", {"type"}, None) >>
UndoVocabularyType == << DropColumns("vocabulary", {"type"}) >>
MergeType == << Touch("vocabulary", {"part_of_speech", "type"}), DropColumns("vocabulary", {"type"}) >>
UndoMergeType == << AddColumns("vocabulary", {"type"}, None) >>

LastLearned == << Rename("user_languages", "is_active", "last_learned") >>
UndoLastLearned == << Rename("user_languages", "last_learned", "is_active") >>

LevelColumns == {"framework_code", "level_code", "description", "order_index"}
FrameworkLevels == <<
    TableMissing("framework_levels", LevelColumns, {}, None), Touch("framework_levels", LevelColumns),
    Touch("languages", {"level_framework"}), Touch("user_languages", {"proficiency_level"}),
    NotNull("languages", "level_framework") >>
UndoFrameworkLevels == << Nullable("languages", "level_framework"), DropAny({<<"framework_levels">>}) >>

\* The trigger that gives a user's language its first level; its body names the
\* table of levels, which PostgreSQL does not look up before it runs.
Function == <<"user_languages_resolve_level">>
Trigger == <<"trigger", "trg_user_languages_resolve_level">>
MakeFunction == MakeMissing(Function, {}, {})
MakeTrigger == Make(Trigger, {<<"user_languages">>}, {Function})
LevelTrigger == <<
    DropAny({LevelDefault}), Nullable("user_languages", "proficiency_level"),
    MakeFunction, DropAny({Trigger}), MakeTrigger >>
UndoLevelTrigger == <<
    DropAny({Trigger}), DropAny({Function}), Default("user_languages", "proficiency_level"),
    Touch("user_languages", {"proficiency_level"}) >>

LevelsPerLanguage == <<
    DropAny({Trigger}), DropAny({Function}), DropAny({<<"framework_levels">>}),
    Table("framework_levels", LevelColumns \cup {"language_id"}, {}, [language_id |-> "languages"]),
    Index("idx_framework_levels_framework", "framework_levels", {"framework_code"}),
    Touch("languages", {"code", "level_framework"}), MakeFunction, MakeTrigger,
    DropColumns("languages", {"level_framework"}) >>
UndoLevelsPerLanguage == <<
    AddColumns("languages", {"level_framework"}, None), Touch("framework_levels", {"framework_code", "language_id"}),
    NotNull("languages", "level_framework"),
    DropAny({Trigger}), DropAny({Function}), DropAny({<<"framework_levels">>}),
    Table("framework_levels", LevelColumns, {}, None), MakeFunction, MakeTrigger >>

EnumPrep == << RenameValue("scenario_type", "default", "system"), AddValue("scenario_type", "personal") >>
UndoEnumPrep == << RenameValue("scenario_type", "system", "default") >>

MergeScenarios == <<
    Nullable("scenarios", "category_id"),
    AddColumns("scenarios", {"owner_id", "source_conversation_id"},
        [owner_id |-> "users", source_conversation_id |-> "ai_conversations"]),
    Speaks(Index("idx_scenarios_owner_lang", "scenarios", {"owner_id", "language_id", "type"}), "scenario_type", {"personal"}),
    Touch("user_ai_scenarios", {"id", "language_id", "user_id", "conversation_id", "title", "description", "difficulty", "created_at"}),
    Touch("scenarios", {"creator_id", "image_url", "difficulty", "access_tier", "status", "order_index"} \cup Stamps),
    Speaks(Check("scenarios_type_owner_check", "scenarios", {"type", "owner_id", "category_id"}),
        "scenario_type", {"personal", "system", "kol"}),
    DropAny({<<"user_ai_scenarios">>}) >>
UndoMergeScenarios == UserAiScenarios \o <<
    Touch("scenarios", {"owner_id", "source_conversation_id", "type"}),
    DropAny({<<"check", "scenarios_type_owner_check">>}), DropIndexes({"idx_scenarios_owner_lang"}),
    DropAny(Cols("scenarios", {"source_conversation_id", "owner_id"})), NotNull("scenarios", "category_id") >>

DropSourceConversation == << DropAny(Cols("scenarios", {"source_conversation_id"})) >>
UndoDropSourceConversation ==
    << AddColumns("scenarios", {"source_conversation_id"}, [source_conversation_id |-> "ai_conversations"]) >>

EventTimestamp == << AddMissing("subscriptions", {"event_timestamp_ms"}, None) >>
UndoEventTimestamp == << DropAny(Cols("subscriptions", {"event_timestamp_ms"})) >>

AppUserId == <<
    [Rename("subscriptions", "revenuecat_id", "app_user_id") EXCEPT !.given = {<<"subscriptions", "revenuecat_id">>}],
    AddMissing("subscriptions", {"auto_resume_at"}, None) >>
UndoAppUserId == <<
    DropAny(Cols("subscriptions", {"auto_resume_at"})),
    [Rename("subscriptions", "app_user_id", "revenuecat_id") EXCEPT
        !.given = {<<"subscriptions", "app_user_id">>}, !.unless = {<<"subscriptions", "revenuecat_id">>}] >>

PersonalizationFields == {"personalized_trial_used_at", "last_personalization_at", "personalization_profile_snapshot"}
PersonalizationUp == <<
    AddValue("access_tier", "premium_plus"), AddValue("ai_conversation_type_enum", "personalize_intake"),
    AddMissing("users", PersonalizationFields, None), AddMissing("scenarios", {"triggers_personalization"}, None),
    IndexMissing("idx_scenarios_triggers_personalization", "scenarios", {"id", "triggers_personalization"}) >>
UndoPersonalization == <<
    DropIndexes({"idx_scenarios_triggers_personalization"}), DropAny(Cols("scenarios", {"triggers_personalization"})),
    DropAny(Cols("users", PersonalizationFields)) >>

SeedTriggers == << Touch("scenarios", {"id", "triggers_personalization"}) >>

DropMetadataFaulty == <<
    AddColumns("ai_conversations", {"max_turns", "native_language"}, None),
    Touch("ai_conversations", {"metadata", "scenario_id", "type"}),
    DropOneOpenChat, DropColumns("ai_conversations", {"metadata"}) >>
DropMetadata == <<
    AddColumns("ai_conversations", {"max_turns", "native_language"}, None),
    Touch("ai_conversations", {"metadata", "scenario_id", "type"}),
    DropOneOpenChat, OneOpenChat("status"), DropColumns("ai_conversations", {"metadata"}) >>
UndoDropMetadata == <<
    AddColumns("ai_conversations", {"metadata"}, None),
    Touch("ai_conversations", {"max_turns", "scenario_id", "status", "type", "native_language"}),
    DropOneOpenChat, OneOpenChat("metadata"), DropColumns("ai_conversations", {"max_turns", "native_language"}) >>

DropRls == << DropAny({"policies"} \X (Guarded \cup {"vocabulary"})) >>
AssetUrls == << Touch("languages", {"flag_url"}), Touch("scenarios", {"image_url"}) >>

File(up, down) == [up |-> up, down |-> down]
Files == <<
    File(InitialEnums \o InitialTables \o InitialIndexes, UndoInitial),
    File(RlsPolicies, UndoRlsPolicies), File(FlagUrl, UndoFlagUrl), File(RefreshTokens, UndoRefreshTokens),
    File(Onboarding, UndoOnboarding), File(ProviderColumns, UndoProviderColumns),
    File(LearningFlags, UndoLearningFlags), File(VocabularyTable, UndoVocabularyTable),
    File(Definitions, UndoDefinitions), File(WebhookEvents, UndoWebhookEvents),
    File(PasswordResets, UndoPasswordResets), File(DropSessionToken, UndoDropSessionToken),
    File(FirebaseUid, UndoFirebaseUid), File(EmailVerified, UndoEmailVerified),
    File(ScenariosTables, UndoScenariosTables), File(SeedScenarios, UndoSeedScenarios),
    File(ScenarioId, UndoScenarioId), File(UniqueConversation, UndoUniqueConversation), File(Srs, UndoSrs),
    File(DropIcon, UndoDropIcon), File(OnboardingCache, UndoOnboardingCache),
    File(ExerciseLanguage, UndoExerciseLanguage), File(ProgressLanguage, UndoProgressLanguage),
    File(AttemptLanguage, UndoAttemptLanguage), File(ScenarioLanguage, UndoScenarioLanguage),
    File(ConversationLanguage, UndoConversationLanguage), File(ContentStatus, UndoContentStatus),
    File(IsAdmin, UndoIsAdmin), File(AccessTier, UndoAccessTier), File(ScenarioType, UndoScenarioType),
    File(UserAiScenarios, UndoUserAiScenarios), File(KolBundles, UndoKolBundles), File(Roles, UndoRoles),
    File(RelaxAccess, UndoRelaxAccess), File(LanguageLevels, UndoLanguageLevels), File(VocabCache, UndoVocabCache),
    File(InjectionEvents, UndoInjectionEvents), File(ChatStatus, UndoChatStatus),
    File(NativeLanguage, UndoNativeLanguage), File(VocabularyType, UndoVocabularyType),
    File(MergeType, UndoMergeType), File(LastLearned, UndoLastLearned), File(FrameworkLevels, UndoFrameworkLevels),
    File(LevelTrigger, UndoLevelTrigger), File(LevelsPerLanguage, UndoLevelsPerLanguage),
    File(EnumPrep, UndoEnumPrep), File(MergeScenarios, UndoMergeScenarios),
    File(DropSourceConversation, UndoDropSourceConversation), File(EventTimestamp, UndoEventTimestamp),
    File(AppUserId, UndoAppUserId), File(PersonalizationUp, UndoPersonalization), File(SeedTriggers, SeedTriggers),
    File(DropMetadata, UndoDropMetadata), File(DropRls, << >>), File(AssetUrls, AssetUrls) >>

=============================================================================
