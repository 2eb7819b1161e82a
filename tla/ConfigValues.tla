----------------------------- MODULE ConfigValues -----------------------------
(***************************************************************************)
(* The runtime configuration of src/config: the keys it defines, what the  *)
(* administration API makes of a value before storing it (normalisation)   *)
(* and what the policies make of a stored value when they read it.         *)
(*                                                                         *)
(* A stored string is a pair of its form and its content: Bool "true" or   *)
(* "false", Like another word for a boolean ("yes", "off"), Num an         *)
(* integer, Huge one that fits 64 bits and not 32, Real a decimal number,  *)
(* Text a word, Blank nothing, List words between commas, Items a JSON     *)
(* array, Key and Pub the two halves of a signature key, Padded any of     *)
(* them between blanks.                                                    *)
(***************************************************************************)
EXTENDS Integers, Sequences, FiniteSets, TLC

CONSTANT CONFIG_REGISTRY   \* the definitions in use: ALL_CONFIGS

Bool(b) == <<"bool", b>>
Like(b) == <<"like", b>>
Num(n) == <<"num", n>>
Huge == <<"huge", 0>>
Real(n) == <<"real", n>>
Text(w) == <<"text", w>>
List(S) == <<"list", S>>
Items(s) == <<"items", s>>
Key(i) == <<"key", i>>
Pub(i) == <<"pub", i>>
Padded(v) == <<"padded", v>>
Missing == <<"missing", 0>>
Refused == <<"refused", 0>>
Blank == <<"blank", 0>>

\* Rows with one more or another value, and rows completed by others.
Put(c, k, v) == [x \in DOMAIN c \cup {k} |-> IF x = k THEN v ELSE c[x]]
Over(c, d) == [x \in DOMAIN c \cup DOMAIN d |-> IF x \in DOMAIN c THEN c[x] ELSE d[x]]
Trim(v) == IF v[1] = "padded" THEN v[2] ELSE v
\* What an administrator sends or a row holds.
IsList(s) == s \in Seq({s[i] : i \in DOMAIN s})
IsBare(v) ==
    /\ v = <<v[1], v[2]>> /\ v[1] \notin {"padded", "missing", "refused"}
    /\ v[1] \in {"bool", "like"} => v[2] \in BOOLEAN
    /\ v[1] = "num" => v[2] \in Int
    /\ v[1] = "items" => IsList(v[2])
IsValue(v) == IsBare(v) \/ (v = Padded(v[2]) /\ IsBare(v[2]))
Def(t, d, r) == [type |-> t, default |-> d, rule |-> r]

-----------------------------------------------------------------------------
(* The definitions, by category: type, default and normaliser of each key. *)

SiteDefs ==
    [public_site_url |-> Def("array", Items(<<>>), "origins"),
     branding_title |-> Def("string", Text("AsterYggdrasil"), "display"),
     branding_description |-> Def("string", Text("Self-hosted"), "display"),
     branding_favicon_url |-> Def("string", Text("/favicon.svg"), "asset"),
     branding_wordmark_dark_url |-> Def("string", Blank, "asset"),
     branding_wordmark_light_url |-> Def("string", Blank, "asset")]

SessionDefs ==
    [auth_cookie_secure |-> Def("bool", Bool(TRUE), "bool"),
     auth_access_token_ttl_secs |-> Def("number", Num(900), "positive"),
     auth_refresh_token_ttl_secs |-> Def("number", Num(604800), "positive"),
     auth_allow_user_registration |-> Def("bool", Bool(TRUE), "bool"),
     auth_allow_local_registration |-> Def("bool", Bool(TRUE), "bool"),
     auth_register_activation_enabled |-> Def("bool", Bool(TRUE), "bool"),
     auth_register_activation_ttl_secs |-> Def("number", Num(86400), "positive"),
     auth_user_invitation_ttl_secs |-> Def("number", Num(604800), "positive"),
     auth_contact_change_ttl_secs |-> Def("number", Num(86400), "positive"),
     auth_password_reset_ttl_secs |-> Def("number", Num(3600), "positive")]

LoginDefs ==
    [auth_contact_verification_resend_cooldown_secs |-> Def("number", Num(60), "positive"),
     auth_password_reset_request_cooldown_secs |-> Def("number", Num(60), "positive"),
     auth_allow_local_login |-> Def("bool", Bool(TRUE), "bool"),
     auth_email_code_login_enabled |-> Def("bool", Bool(FALSE), "bool"),
     auth_passkey_login_enabled |-> Def("bool", Bool(TRUE), "bool")]

CaptchaDefs ==
    [auth_captcha_enabled |-> Def("bool", Bool(FALSE), "bool"),
     auth_captcha_login_required |-> Def("bool", Bool(TRUE), "bool"),
     auth_captcha_register_required |-> Def("bool", Bool(TRUE), "bool"),
     auth_captcha_invitation_accept_required |-> Def("bool", Bool(TRUE), "bool"),
     auth_captcha_register_activation_resend_required |-> Def("bool", Bool(TRUE), "bool"),
     auth_captcha_preset |-> Def("enum", Text("balanced"), "preset"),
     auth_captcha_ttl_secs |-> Def("number", Num(120), "positive"),
     auth_captcha_length |-> Def("number", Num(5), "length"),
     auth_captcha_max_attempts |-> Def("number", Num(3), "attempts")]

MailLoginDefs ==
    [auth_email_code_login_allow_totp_fallback |-> Def("bool", Bool(FALSE), "bool"),
     auth_email_code_login_ttl_secs |-> Def("number", Num(600), "positive"),
     auth_email_code_login_resend_cooldown_secs |-> Def("number", Num(60), "positive"),
     auth_local_email_allowlist |-> Def("array", Items(<<>>), "items"),
     auth_local_email_blocklist |-> Def("array", Items(<<>>), "items"),
     gravatar_base_url |-> Def("string", Text("www.gravatar.com"), "gravatar")]

NetworkDefs ==
    [cors_enabled |-> Def("bool", Bool(FALSE), "strict"),
     cors_allowed_origins |-> Def("string", Blank, "cors_origins"),
     cors_allow_credentials |-> Def("bool", Bool(FALSE), "cors_credentials"),
     cors_max_age_secs |-> Def("number", Num(3600), "natural"),
     audit_log_enabled |-> Def("bool", Bool(TRUE), "typed"),
     audit_log_retention_days |-> Def("number", Num(180), "typed"),
     audit_log_recorded_actions |-> Def("array", Items(<<"config_update", "user_login">>), "actions")]

MailDefs ==
    [mail_smtp_host |-> Def("string", Blank, "trimmed"),
     mail_smtp_port |-> Def("number", Num(587), "port"),
     mail_smtp_username |-> Def("string", Blank, "typed"),
     mail_smtp_password |-> Def("string", Blank, "typed"),
     mail_from_address |-> Def("string", Blank, "trimmed"),
     mail_from_name |-> Def("string", Text("AsterYggdrasil"), "trimmed"),
     mail_security |-> Def("bool", Bool(TRUE), "bool")]

AccountTemplateDefs ==
    [mail_template_register_activation_subject |-> Def("string", Text("activate"), "subject"),
     mail_template_register_activation_html |-> Def("string", Text("activate_body"), "body"),
     mail_template_contact_change_confirmation_subject |-> Def("string", Text("confirm"), "subject"),
     mail_template_contact_change_confirmation_html |-> Def("string", Text("confirm_body"), "body"),
     mail_template_password_reset_subject |-> Def("string", Text("reset"), "subject"),
     mail_template_password_reset_html |-> Def("string", Text("reset_body"), "body"),
     mail_template_password_reset_notice_subject |-> Def("string", Text("was_reset"), "subject"),
     mail_template_password_reset_notice_html |-> Def("string", Text("was_reset_body"), "body")]

OtherTemplateDefs ==
    [mail_template_contact_change_notice_subject |-> Def("string", Text("changed"), "subject"),
     mail_template_contact_change_notice_html |-> Def("string", Text("changed_body"), "body"),
     mail_template_external_auth_email_verification_subject |-> Def("string", Text("verify"), "subject"),
     mail_template_external_auth_email_verification_html |-> Def("string", Text("verify_body"), "body"),
     mail_template_login_email_code_subject |-> Def("string", Text("code"), "subject"),
     mail_template_login_email_code_html |-> Def("string", Text("code_body"), "body"),
     mail_template_user_invitation_subject |-> Def("string", Text("invited"), "subject"),
     mail_template_user_invitation_html |-> Def("string", Text("invited_body"), "body")]

YggdrasilDefs ==
    [yggdrasil_server_name |-> Def("string", Text("AsterYggdrasil"), "typed"),
     yggdrasil_allow_profile_name_login |-> Def("bool", Bool(TRUE), "typed"),
     yggdrasil_allow_skin_upload |-> Def("bool", Bool(TRUE), "typed"),
     yggdrasil_allow_cape_upload |-> Def("bool", Bool(TRUE), "typed"),
     yggdrasil_allow_microsoft_profile_texture_override |-> Def("bool", Bool(TRUE), "typed"),
     yggdrasil_enable_profile_key |-> Def("bool", Bool(TRUE), "typed"),
     yggdrasil_enable_mojang_anti_features |-> Def("bool", Bool(TRUE), "typed"),
     yggdrasil_token_ttl_days |-> Def("number", Num(15), "positive"),
     yggdrasil_max_active_tokens |-> Def("number", Num(10), "positive"),
     yggdrasil_max_texture_upload_bytes |-> Def("number", Num(4194304), "positive"),
     yggdrasil_max_texture_pixels |-> Def("number", Num(16777216), "positive")]

SigningDefs ==
    [yggdrasil_skin_domains |-> Def("array", Items(<<".minecraft.net", ".mojang.com">>), "items"),
     yggdrasil_public_base_url |-> Def("array", Items(<<>>), "origins"),
     yggdrasil_texture_public_base_url |-> Def("string", Blank, "optional_url"),
     yggdrasil_signature_public_key |-> Def("string", Blank, "typed"),
     yggdrasil_signature_private_key |-> Def("string", Blank, "typed"),
     yggdrasil_max_profiles_per_user |-> Def("number", Num(1), "positive"),
     yggdrasil_max_profile_renames |-> Def("number", Num(1), "positive"),
     yggdrasil_mojang_name_check_enabled |-> Def("bool", Bool(TRUE), "typed"),
     yggdrasil_mojang_name_check_timeout_secs |-> Def("number", Num(3), "positive"),
     yggdrasil_mojang_profile_api_base_url |-> Def("string", Text("api.mojang.com"), "required_url")]

PreviewDefs ==
    [texture_library_enabled |-> Def("bool", Bool(TRUE), "bool"),
     texture_library_review_required |-> Def("bool", Bool(TRUE), "bool"),
     texture_preview_engine |-> Def("enum", Text("skin-3d"), "engine"),
     texture_preview_profile |-> Def("enum", Text("default"), "profile"),
     texture_preview_width |-> Def("number", Num(430), "u32"),
     texture_preview_height |-> Def("number", Num(430), "u32"),
     texture_preview_background |-> Def("string", Text("transparent"), "background"),
     texture_preview_show_outer_layer |-> Def("bool", Bool(TRUE), "bool"),
     texture_preview_3d_scale |-> Def("number", Real(1150), "float"),
     texture_preview_3d_pitch |-> Def("number", Num(30), "float"),
     texture_preview_3d_front_yaw |-> Def("number", Num(-45), "float")]

PreviewViewDefs ==
    [texture_preview_3d_back_yaw |-> Def("number", Num(135), "float"),
     texture_preview_3d_spacing |-> Def("number", Num(35), "float"),
     texture_preview_3d_x_offset |-> Def("number", Num(0), "float"),
     texture_preview_3d_y_offset |-> Def("number", Num(-24), "float"),
     texture_preview_3d_center_y |-> Def("number", Real(56), "float"),
     texture_preview_3d_supersampling |-> Def("number", Num(2), "supersampling"),
     texture_preview_2d_padding |-> Def("number", Num(24), "u32"),
     texture_preview_2d_spacing |-> Def("number", Num(35), "u32")]

OperationDefs ==
    [mail_outbox_dispatch_interval_secs |-> Def("number", Num(5), "positive"),
     background_task_dispatch_interval_secs |-> Def("number", Num(5), "positive"),
     background_task_dispatch_idle_max_interval_secs |-> Def("number", Num(60), "positive"),
     background_task_max_concurrency |-> Def("number", Num(4), "positive"),
     background_task_max_attempts |-> Def("number", Num(3), "positive"),
     task_retention_hours |-> Def("number", Num(24), "positive"),
     task_list_max_limit |-> Def("number", Num(100), "positive"),
     maintenance_cleanup_interval_secs |-> Def("number", Num(3600), "positive")]

Categories ==
    {SiteDefs, SessionDefs, LoginDefs, CaptchaDefs, MailLoginDefs, NetworkDefs, MailDefs, AccountTemplateDefs,
     OtherTemplateDefs, YggdrasilDefs, SigningDefs, PreviewDefs, PreviewViewDefs, OperationDefs}
ALL_CONFIGS == [k \in UNION {DOMAIN g : g \in Categories} |-> (CHOOSE g \in Categories : k \in DOMAIN g)[k]]

ASSUME RegistryIsComplete == CONFIG_REGISTRY = ALL_CONFIGS

SystemKeys == DOMAIN CONFIG_REGISTRY
PrivateKey == "yggdrasil_signature_private_key"
PublicKey == "yggdrasil_signature_public_key"
DeprecatedKeys == {"avatar_dir"}

-----------------------------------------------------------------------------
(* Parsing. A name of a host or a URL is known by its canonical spelling.  *)

Canonical ==
    [w \in {"a.example", "b.example", "A.EXAMPLE", ".minecraft.net", ".mojang.com", "www.gravatar.com",
            "api.mojang.com", "/favicon.svg"} |-> IF w = "A.EXAMPLE" THEN "a.example" ELSE w]
Valid(w) == w \in DOMAIN Canonical
Sorted == <<".minecraft.net", ".mojang.com", "/favicon.svg", "a.example", "api.mojang.com", "b.example", "www.gravatar.com">>
AtLeast(v, n) == v[1] = "huge" \/ (v[1] = "num" /\ v[2] >= n)
Between(v, a, b) == v[1] = "num" /\ v[2] \in a..b
Accept(v, ok) == IF ok THEN v ELSE Refused
ParseBoolLike(v) ==
    CASE v[1] \in {"bool", "like"} -> Bool(v[2])
      [] v \in {Num(0), Num(1)} -> Bool(v = Num(1))
      [] OTHER -> Refused
parse_bool_str(v) == Accept(v, v[1] = "bool")
\* The entries of a list at the places P, in order.
Nth(P, n) == CHOOSE i \in P : Cardinality({j \in P : j <= i}) = n
Entries(s, P) == [n \in 1..Cardinality(P) |-> s[Nth(P, n)]]
\* The valid entries in their canonical spelling, each where it stands first.
Deduped(s) ==
    LET first == {i \in DOMAIN s : /\ Valid(s[i])
                                   /\ \A j \in 1..(i - 1) : Valid(s[j]) => Canonical[s[j]] # Canonical[s[i]]}
        kept == Entries(s, first)
    IN [n \in DOMAIN kept |-> Canonical[kept[n]]]
NormalItems(v) == IF v[1] = "items" /\ \A i \in DOMAIN v[2] : Valid(v[2][i]) THEN Items(Deduped(v[2])) ELSE Refused
UsableItems(v) == IF v[1] = "items" THEN Deduped(v[2]) ELSE <<>>

AuditActions == <<"config_update", "user_login">>
parse_recorded_actions(v) ==
    IF v[1] = "items" /\ \A i \in DOMAIN v[2] : (\E a \in DOMAIN AuditActions : AuditActions[a] = v[2][i])
                                             /\ \A j \in DOMAIN v[2] : v[2][j] = v[2][i] => i = j
      THEN {v[2][i] : i \in DOMAIN v[2]} ELSE {"invalid"}
parse_allowed_origins_value(v) ==
    IF v = Blank THEN List({})
    ELSE IF v[1] = "list" /\ (v[2] = {"*"} \/ \A w \in v[2] : Valid(w))
      THEN List({IF w = "*" THEN w ELSE Canonical[w] : w \in v[2]}) ELSE Refused
validate_runtime_cors_combination(origins, credentials) == ~(origins = List({"*"}) /\ credentials = Bool(TRUE))
parse_background(v) ==
    CASE v \in {Text("transparent"), Text("none")} -> Text("transparent")
      [] v \in {Text("white"), Text("#ffffff")} -> Text("#ffffffff")
      [] v = Text("#ffffffff") -> v
      [] OTHER -> Refused

-----------------------------------------------------------------------------
(* Normalisation: what the administration API stores, or a refusal. c is   *)
(* the configuration in force.                                             *)

Get(c, k) == IF k \in DOMAIN c THEN Trim(c[k]) ELSE Missing
normalize_recorded_actions(v) ==
    LET chosen == parse_recorded_actions(v)
    IN IF chosen = {"invalid"} THEN Refused
       ELSE Items(Entries(AuditActions, {i \in DOMAIN AuditActions : AuditActions[i] \in chosen}))
normalize_cors_allowed_origins(c, v) ==
    LET origins == parse_allowed_origins_value(v)
        credentials == ParseBoolLike(Get(c, "cors_allow_credentials"))
    IN CASE origins = Refused -> Refused
         [] ~validate_runtime_cors_combination(origins, credentials) -> Refused
         [] origins = List({}) -> Blank
         [] OTHER -> origins
normalize_cors_allow_credentials(c, v) ==
    LET current == Get(c, "cors_allowed_origins")
        origins == IF current = Missing THEN List({}) ELSE parse_allowed_origins_value(current)
    IN IF origins # Refused /\ validate_runtime_cors_combination(origins, v) THEN parse_bool_str(v) ELSE Refused
normalize_branding(k, v) ==
    IF CONFIG_REGISTRY[k].rule = "display"
      THEN Accept(v, v # Text("long"))
      ELSE Accept(v, v = Blank \/ (v[1] = "text" /\ Valid(v[2])))
normalize_mail(k, v) ==
    CASE CONFIG_REGISTRY[k].rule = "port" -> Accept(v, Between(v, 1, 65535))
      [] CONFIG_REGISTRY[k].rule = "subject" -> Accept(v, v # Text("two_lines"))
      [] OTHER -> v
parse_captcha_preset_selection(v) == Accept(v, v \in {Text("readable"), Text("balanced"), Text("hardened")})
normalize_interval_config_value(v) == Accept(v, AtLeast(v, 1))
normalize_gravatar_base_url(v) ==
    CASE v = Blank -> Blank
      [] v[1] = "text" /\ Valid(v[2]) -> Text(Canonical[v[2]])
      [] OTHER -> Refused
normalize_local_email_policy(v) ==
    IF NormalItems(v) = Refused THEN Refused
    ELSE Items(Entries(Sorted, {i \in DOMAIN Sorted : \E j \in DOMAIN v[2] : Canonical[v[2][j]] = Sorted[i]}))
normalize_yggdrasil_config_value(k, v) ==
    CASE CONFIG_REGISTRY[k].rule \in {"origins", "items"} -> NormalItems(v)
      [] CONFIG_REGISTRY[k].rule = "positive" -> normalize_interval_config_value(v)
      [] v = Blank -> Accept(v, CONFIG_REGISTRY[k].rule = "optional_url")
      [] OTHER -> IF v[1] = "text" /\ Valid(v[2]) THEN Text(Canonical[v[2]]) ELSE Refused
normalize_texture_preview_config_value(k, v) ==
    CASE CONFIG_REGISTRY[k].rule = "engine" ->
           (CASE v \in {Text("skin-3d"), Text("3d")} -> Text("skin-3d")
              [] v \in {Text("skin-2d"), Text("2d")} -> Text("skin-2d")
              [] OTHER -> Refused)
      [] CONFIG_REGISTRY[k].rule = "profile" -> Accept(v, v \in {Text("fast"), Text("default"), Text("quality")})
      [] CONFIG_REGISTRY[k].rule = "background" -> parse_background(v)
      [] CONFIG_REGISTRY[k].rule = "bool" -> ParseBoolLike(v)
      [] CONFIG_REGISTRY[k].rule = "u32" -> Accept(v, v[1] = "num" /\ v[2] > 0)
      [] CONFIG_REGISTRY[k].rule = "supersampling" -> Accept(v, Between(v, 1, 4))
      [] OTHER -> Accept(v, v[1] \in {"num", "real", "huge"})
validate_value_type(k, v) ==
    CASE CONFIG_REGISTRY[k].type = "bool" -> v[1] = "bool"
      [] CONFIG_REGISTRY[k].type = "number" -> v[1] \in {"num", "real", "huge"}
      [] OTHER -> TRUE
Normalize(c, k, raw) ==
    LET rule == CONFIG_REGISTRY[k].rule
        v == Trim(raw)
    IN IF k \notin SystemKeys THEN raw
       ELSE IF (CONFIG_REGISTRY[k].type = "array") # (v[1] = "items") THEN Refused
       ELSE
       CASE rule = "typed" -> IF validate_value_type(k, v) THEN raw ELSE Refused
         [] rule = "actions" -> normalize_recorded_actions(v)
         [] rule = "strict" -> parse_bool_str(v)
         [] rule = "natural" -> Accept(v, AtLeast(v, 0))
         [] rule = "cors_origins" -> normalize_cors_allowed_origins(c, v)
         [] rule = "cors_credentials" -> normalize_cors_allow_credentials(c, v)
         [] rule = "length" -> Accept(v, Between(v, 4, 8))
         [] rule = "attempts" -> Accept(v, Between(v, 1, 10))
         [] rule = "preset" -> parse_captcha_preset_selection(v)
         [] rule \in {"display", "asset"} -> normalize_branding(k, v)
         [] rule \in {"trimmed", "port", "subject", "body"} -> normalize_mail(k, v)
         [] rule \in {"engine", "profile", "background", "u32", "supersampling", "float"} ->
              normalize_texture_preview_config_value(k, v)
         [] rule = "bool" -> ParseBoolLike(v)
         [] rule = "positive" -> normalize_interval_config_value(v)
         [] rule = "gravatar" -> normalize_gravatar_base_url(v)
         [] k \in {"auth_local_email_allowlist", "auth_local_email_blocklist"} -> normalize_local_email_policy(v)
         [] k = "public_site_url" -> NormalItems(v)
         [] OTHER -> normalize_yggdrasil_config_value(k, v)

-----------------------------------------------------------------------------
(* The policies: what the program takes from a configuration c, whatever   *)
(* is stored in it. Each is a function of the keys it reads.               *)

Default(k) == CONFIG_REGISTRY[k].default
OrDefault(k, v) == IF v = Refused THEN Default(k) ELSE v
ReadBool(c, k) == OrDefault(k, ParseBoolLike(Get(c, k)))
ReadPositive(c, k) == OrDefault(k, Accept(Get(c, k), AtLeast(Get(c, k), 1)))
ReadBounded(c, k, a, b) == OrDefault(k, Accept(Get(c, k), Between(Get(c, k), a, b)))
ReadAs(c, k, parsed) == IF Get(c, k) = Missing THEN Default(k) ELSE OrDefault(k, parsed)
ReadText(c, k) == IF Get(c, k) = Missing THEN Default(k) ELSE c[k]

Read(c, k) == IF CONFIG_REGISTRY[k].type = "bool" THEN ReadBool(c, k) ELSE ReadPositive(c, k)

AuthKeys ==
    {"auth_cookie_secure", "auth_allow_user_registration", "auth_allow_local_registration", "auth_allow_local_login",
     "auth_register_activation_enabled", "auth_passkey_login_enabled", "auth_access_token_ttl_secs",
     "auth_refresh_token_ttl_secs"}
ContactKeys ==
    {"auth_register_activation_ttl_secs", "auth_contact_change_ttl_secs", "auth_password_reset_ttl_secs",
     "auth_contact_verification_resend_cooldown_secs", "auth_password_reset_request_cooldown_secs"}
EmailCodeKeys ==
    {"auth_email_code_login_enabled", "auth_email_code_login_allow_totp_fallback", "auth_email_code_login_ttl_secs",
     "auth_email_code_login_resend_cooldown_secs"}
RuntimeAuthPolicy(c) == [k \in AuthKeys |-> Read(c, k)]
RuntimeContactVerificationPolicy(c) == [k \in ContactKeys |-> ReadPositive(c, k)]
RuntimeEmailCodeLoginPolicy(c) == [k \in EmailCodeKeys |-> Read(c, k)]
user_invitation_ttl_secs(c) == ReadPositive(c, "auth_user_invitation_ttl_secs")
read_captcha_render_preset(c) ==
    ReadAs(c, "auth_captcha_preset", parse_captcha_preset_selection(Get(c, "auth_captcha_preset")))
CaptchaKeys == DOMAIN CaptchaDefs
RuntimeCaptchaPolicy(c, overrides) ==
    LET get == [k \in DOMAIN c \cup DOMAIN overrides |-> IF k \in DOMAIN overrides THEN overrides[k] ELSE c[k]]
    IN [k \in CaptchaKeys |->
          CASE k = "auth_captcha_preset" -> read_captcha_render_preset(get)
            [] k = "auth_captcha_length" -> ReadBounded(get, k, 4, 8)
            [] k = "auth_captcha_max_attempts" -> ReadBounded(get, k, 1, 10)
            [] OTHER -> Read(get, k)]

\* mutant: the combination is left to the checks made when it was saved
TrustingCors(c) ==
    LET given == parse_allowed_origins_value(Get(c, "cors_allowed_origins"))
    IN [cors_enabled |-> ReadBool(c, "cors_enabled"), cors_allowed_origins |-> given,
        cors_allow_credentials |-> ReadBool(c, "cors_allow_credentials"), cors_max_age_secs |-> Default("cors_max_age_secs")]
runtime_cors_policy(c) ==
    LET strict(k) == OrDefault(k, parse_bool_str(Get(c, k)))
        given == parse_allowed_origins_value(Get(c, "cors_allowed_origins"))
        origins == IF given = Refused THEN List({}) ELSE given
        credentials == strict("cors_allow_credentials")
        age == OrDefault("cors_max_age_secs", Accept(Get(c, "cors_max_age_secs"), AtLeast(Get(c, "cors_max_age_secs"), 0)))
        policy(on, o, cred, a) == [cors_enabled |-> on, cors_allowed_origins |-> o,
                                   cors_allow_credentials |-> cred, cors_max_age_secs |-> a]
    IN IF strict("cors_enabled") = Bool(FALSE)
         THEN policy(Bool(FALSE), List({}), Bool(FALSE), Default("cors_max_age_secs"))
       ELSE IF ~validate_runtime_cors_combination(origins, credentials)
         THEN policy(Bool(TRUE), List({}), Bool(FALSE), age)
       ELSE policy(Bool(TRUE), origins, credentials, age)

AuditSettings(c) ==
    LET chosen == parse_recorded_actions(Get(c, "audit_log_recorded_actions"))
    IN [enabled |-> ReadBool(c, "audit_log_enabled"),
        actions |-> IF chosen = {"invalid"} THEN {AuditActions[i] : i \in DOMAIN AuditActions} ELSE chosen]
RetentionDays(c) ==
    LET v == Get(c, "audit_log_retention_days") IN IF AtLeast(v, 1) THEN v ELSE Num(90)
load_task_retention_hours(c) == ReadPositive(c, "task_retention_hours")

runtime_mail_settings(c) ==
    [k \in DOMAIN MailDefs |->
       CASE k = "mail_smtp_port" -> ReadBounded(c, k, 1, 65535)
         [] k = "mail_security" -> ReadBool(c, k)
         [] OTHER -> IF k \in DOMAIN c THEN c[k] ELSE Blank]
template(c, k) == IF Get(c, k) \in {Missing, Blank} THEN Default(k) ELSE c[k]
TemplateKeys == DOMAIN AccountTemplateDefs \cup DOMAIN OtherTemplateDefs
MailTemplates(c) == [k \in TemplateKeys |-> template(c, k)]

BrandingKeys == DOMAIN SiteDefs \ {"public_site_url"}
Branding(c) ==
    [k \in BrandingKeys |-> IF Get(c, k) = Blank \/ (k = "branding_description" /\ Get(c, k) = Text("legacy"))
             THEN Default(k) ELSE ReadAs(c, k, normalize_branding(k, Get(c, k)))]
gravatar_base_url_or_default(c) ==
    LET v == Get(c, "gravatar_base_url")
    IN IF v = Blank THEN Default("gravatar_base_url") ELSE ReadAs(c, "gravatar_base_url", normalize_gravatar_base_url(v))
public_site_urls(c) == UsableItems(Get(c, "public_site_url"))
read_policy_list(c, k) == {UsableItems(Get(c, k))[i] : i \in DOMAIN UsableItems(Get(c, k))}
LibraryKeys == {"texture_library_enabled", "texture_library_review_required"}
RuntimeTextureLibraryPolicy(c) == [k \in LibraryKeys |-> ReadBool(c, k)]

read_supersampling(c) ==
    LET v == Get(c, "texture_preview_3d_supersampling")
        profile == Get(c, "texture_preview_profile")
    IN IF Between(v, 1, 4) /\ v # Num(2) THEN v
       ELSE CASE profile = Text("fast") -> Num(1)
              [] profile = Text("quality") -> Num(3)
              [] OTHER -> Num(2)
PreviewKeys == (DOMAIN PreviewDefs \cup DOMAIN PreviewViewDefs) \ LibraryKeys
RuntimeTexturePreviewPolicy(c) ==
    [k \in PreviewKeys |->
       IF k = "texture_preview_3d_supersampling" THEN read_supersampling(c)
           ELSE ReadAs(c, k, normalize_texture_preview_config_value(k, Get(c, k)))]

OperationKeys == DOMAIN OperationDefs \ {"background_task_max_attempts", "task_retention_hours"}
Operations(c) == [k \in OperationKeys |-> ReadPositive(c, k)]
background_task_max_attempts(c) ==
    LET v == Get(c, "background_task_max_attempts") IN IF v[1] = "num" /\ v[2] > 0 THEN v ELSE Num(3)

read_effective_public_base_urls(c) ==
    LET configured == UsableItems(Get(c, "yggdrasil_public_base_url"))
    IN IF configured # <<>> THEN configured ELSE public_site_urls(c)
read_texture_public_base_url(c) ==
    LET v == Get(c, "yggdrasil_texture_public_base_url")
    IN IF v[1] = "text" /\ Valid(v[2]) THEN {Canonical[v[2]]} ELSE {}
read_effective_skin_domains(c) ==
    LET words(s) == {s[i] : i \in DOMAIN s}
    IN words(Default("yggdrasil_skin_domains")[2]) \cup words(UsableItems(Get(c, "yggdrasil_skin_domains")))
         \cup words(read_effective_public_base_urls(c)) \cup read_texture_public_base_url(c)
YggdrasilKeys ==
    (DOMAIN YggdrasilDefs \cup DOMAIN SigningDefs)
      \ {"yggdrasil_skin_domains", "yggdrasil_public_base_url", "yggdrasil_texture_public_base_url"}
RuntimeYggdrasilPolicy(c) ==
    [k \in YggdrasilKeys |->
       IF CONFIG_REGISTRY[k].type = "string" THEN ReadText(c, k) ELSE Read(c, k)]

-----------------------------------------------------------------------------
(* Signing and the addresses of textures.                                  *)

configured_private_key(c) == LET v == ReadText(c, PrivateKey) IN IF Trim(v)[1] = "key" THEN {Trim(v)[2]} ELSE {}
signature_public_key(c) ==
    IF configured_private_key(c) # {} THEN Pub(CHOOSE i \in configured_private_key(c) : TRUE) ELSE Trim(ReadText(c, PublicKey))
sign_texture_property(c) == configured_private_key(c)
texture_public_url(c) ==
    LET urls == read_effective_public_base_urls(c) IN IF urls = <<>> THEN {} ELSE {urls[1]}
required_texture_object_public_url(c) ==
    IF read_texture_public_base_url(c) # {} THEN read_texture_public_base_url(c) ELSE texture_public_url(c)
metadata(c) == [skin_domains |-> read_effective_skin_domains(c), signature_publickey |-> signature_public_key(c)]

(* What the program uses for one key.                                      *)
Effective(c, k) ==
    CASE k = "auth_user_invitation_ttl_secs" -> user_invitation_ttl_secs(c)
      [] k = "audit_log_retention_days" -> RetentionDays(c)
      [] k = "audit_log_enabled" -> AuditSettings(c).enabled
      [] k = "task_retention_hours" -> load_task_retention_hours(c)
      [] k = "background_task_max_attempts" -> background_task_max_attempts(c)
      [] k = "gravatar_base_url" -> gravatar_base_url_or_default(c)
      [] k = "public_site_url" -> Items(public_site_urls(c))
      [] k = "cors_enabled" -> runtime_cors_policy(c).cors_enabled
      [] k \in CaptchaKeys -> RuntimeCaptchaPolicy(c, <<>>)[k]
      [] k \in DOMAIN MailDefs -> runtime_mail_settings(c)[k]
      [] k \in TemplateKeys -> MailTemplates(c)[k]
      [] k \in BrandingKeys -> Branding(c)[k]
      [] k \in LibraryKeys -> RuntimeTextureLibraryPolicy(c)[k]
      [] k \in PreviewKeys -> RuntimeTexturePreviewPolicy(c)[k]
      [] k \in OperationKeys -> Operations(c)[k]
      [] k \in YggdrasilKeys -> RuntimeYggdrasilPolicy(c)[k]
      [] k \in AuthKeys -> RuntimeAuthPolicy(c)[k]
      [] k \in ContactKeys -> RuntimeContactVerificationPolicy(c)[k]
      [] k \in EmailCodeKeys -> RuntimeEmailCodeLoginPolicy(c)[k]
      [] OTHER -> Missing   \* read with others, or not as one value
=============================================================================
