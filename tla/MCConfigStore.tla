---------------------------- MODULE MCConfigStore -----------------------------
EXTENDS ConfigStore

CONSTANTS n1, n2

Ask(op, n, k, v) == [op |-> op, node |-> n, key |-> k, value |-> v, vis |-> FALSE]
Save(n, k, v) == Ask("save", n, k, v)
Pair == PrivateKey :> Key(0) @@ PublicKey :> Pub(0)
Base == [jobs |-> <<>>, keys |-> {}, rows |-> Pair, started |-> TRUE, insecure |-> FALSE, left |-> 0,
         restarts |-> FALSE, losses |-> FALSE, aboutKeys |-> FALSE]
Load(keys, jobs) == [Base EXCEPT !.keys = keys, !.jobs = jobs]

\* Values in every form, for every key: as what an administrator sends, and as what a row may hold.
Values ==
    {Bool(TRUE), Bool(FALSE), Like(FALSE), Num(-1), Num(0), Num(1), Num(2), Num(6), Num(12), Num(70000), Huge, Real(5),
     Blank, Text("hello"), Text("long"), Text("two_lines"), Text("legacy"), Text("a.example"), Text("A.EXAMPLE"), Text("hardened"), Text("2d"), Text("fast"),
     Text("none"), Text("white"), List({"*"}), List({"*", "a.example"}), List({"a.example", "b.example"}), Items(<<>>), Items(<<"A.EXAMPLE", "b.example", "a.example">>),
     Items(<<"user_login", "config_update">>), Items(<<"user_login", "user_login">>), Items(<<"hello">>),
     Padded(Num(6)), Padded(Like(TRUE)), Padded(Text("a.example")), Padded(Blank)}
Partners(k) ==
    CASE k \in {"cors_enabled", "cors_allowed_origins", "cors_allow_credentials"} ->
           {"cors_enabled" :> Bool(TRUE) @@ "cors_allowed_origins" :> List({"*"}) @@ "cors_allow_credentials" :> Bool(FALSE),
            "cors_enabled" :> Bool(TRUE) @@ "cors_allow_credentials" :> Bool(TRUE)}
      [] k = "texture_preview_3d_supersampling" -> {"texture_preview_profile" :> Text("fast"), "texture_preview_profile" :> Text("quality")}
      [] k \in {"yggdrasil_public_base_url", "yggdrasil_texture_public_base_url", "yggdrasil_skin_domains"} ->
           {"public_site_url" :> Items(<<"a.example">>), "yggdrasil_public_base_url" :> Items(<<"b.example">>)}
      [] OTHER -> {NoRows}
Sent == {[Base EXCEPT !.jobs = <<Save(n1, k, v)>>, !.rows = p @@ Pair] : k \in SystemKeys, v \in Values, p \in {NoRows}}
          \cup UNION {{[Base EXCEPT !.jobs = <<Save(n1, k, v)>>, !.rows = p @@ Pair] : v \in Values, p \in Partners(k)} : k \in SystemKeys}
Held == UNION {{[Base EXCEPT !.rows = k :> v @@ p @@ Pair] : v \in Values, p \in Partners(k)} : k \in SystemKeys \ {PrivateKey}}
Tried == {[Base EXCEPT !.jobs = <<Ask("preview", n1, k, v)>>] : k \in CaptchaKeys \cup {"branding_title"}, v \in Values}
           \cup {[Base EXCEPT !.jobs = <<Ask("mail", n1, "yggdrasil", Blank)>>],
                 [Base EXCEPT !.jobs = <<[Save(n1, "branding_title", Text("hello")) EXCEPT !.vis = TRUE]>>]}

\* Two administrators on two nodes.
Cors == {"cors_enabled", "cors_allowed_origins", "cors_allow_credentials"}
Opening(m) == Load(Cors, <<Save(n1, "cors_enabled", Bool(TRUE)), Save(n1, "cors_allowed_origins", List({"*"})), Save(m, "cors_allow_credentials", Bool(TRUE))>>)
Same == Load({"branding_title"}, <<Save(n1, "branding_title", Text("one")), Save(n2, "branding_title", Text("two")), Save(n1, "branding_title", Text("three"))>>)
Custom == Load({}, <<Save(n1, "mine", Text("one")), Ask("delete", n2, "mine", Blank), Ask("delete", n1, PublicKey, Blank)>>)
Lossy == [Same EXCEPT !.losses = TRUE, !.left = 1, !.jobs = <<Save(n1, "branding_title", Text("one")), Save(n2, "branding_title", Text("two"))>>]
Auditing == Load({"audit_log_enabled", "audit_log_recorded_actions"},
    <<Save(n1, "audit_log_enabled", Bool(FALSE)), Save(n1, "audit_log_recorded_actions", Items(<<"user_login">>)), Save(n2, "audit_log_enabled", Bool(TRUE))>>)
\* Starts, restarts and keys.
Cold == [Base EXCEPT !.started = FALSE, !.rows = NoRows, !.keys = {"auth_cookie_secure", PrivateKey, PublicKey}, !.aboutKeys = TRUE]
First == [Cold EXCEPT !.insecure = TRUE, !.rows = "avatar_dir" :> Text("hello")]
Rotating == [Base EXCEPT !.keys = {PrivateKey, PublicKey}, !.aboutKeys = TRUE, !.restarts = TRUE, !.left = 1,
                         !.jobs = <<Ask("rotate", n1, PrivateKey, Blank)>>]
Rotations == [Rotating EXCEPT !.left = 0, !.jobs = <<Ask("rotate", n1, PrivateKey, Blank), Ask("rotate", n2, PrivateKey, Blank)>>]
Changing == [Rotating EXCEPT !.jobs = <<Save(n1, "branding_title", Text("one"))>>]

AllLoads == Sent \cup Held \cup Tried
              \cup {Opening(n1), Opening(n2), Same, Custom, Lossy, Auditing, Cold, First, Rotating, Rotations, Changing}
==============================================================================
