---------------------------- MODULE MCExternalAuth ----------------------------
EXTENDS ExternalAuth, TLC

CONSTANTS c1, c2, s1, s2, e1, e2

Prov(kind) == [kind |-> kind, public |-> FALSE, enabled |-> TRUE, login |-> TRUE, autolink |-> FALSE, autoprov |-> TRUE, verified |-> FALSE, unlink |-> TRUE]
Disabled(r) == [r EXCEPT !.enabled = FALSE]
Account(e, ver) == [email |-> e, verified |-> ver, active |-> TRUE]
Claim(s, e, v) == [sub |-> s, email |-> e, ver |-> v]
Base == [ops |-> c1 :> {} @@ c2 :> {}, serial |-> FALSE, time |-> FALSE, faults |-> 0, registration |-> TRUE,
         users |-> <<Account(e1, TRUE)>>, provs |-> <<Prov("oidc")>>, links |-> {},
         claims |-> {Claim(s1, e1, TRUE)}, emails |-> {e1}, flows |-> 2, rows |-> {}, keys |-> {1}]
Load(one, other, b) == [b EXCEPT !.ops = c1 :> one @@ c2 :> other]

\* One request at a time.
Callbacks == {"login", "callback"}
Mailing == {"mail", "confirm", "password"}
Serial(b) == [b EXCEPT !.serial = TRUE, !.faults = 1, !.time = TRUE]
Entering == Serial(Load(Callbacks \cup Mailing \cup {"unlink"}, {"provider", "user"},
    [Base EXCEPT !.provs[1] = [Prov("github") EXCEPT !.autolink = TRUE], !.users = <<Account(e1, TRUE), Account(e2, FALSE)>>,
                 !.claims = {Claim(s1, e1, TRUE), Claim(s2, e2, FALSE), Claim(s2, None, FALSE)}, !.emails = {e1, e2},
                 !.rows = {Disabled([Prov("github") EXCEPT !.autolink = TRUE])}]))
Registering == [Load(Callbacks \cup {"mail", "confirm"}, {},
    [Base EXCEPT !.claims = {Claim(s1, None, FALSE), Claim(s2, e2, FALSE)}, !.emails = {e2}, !.flows = 3, !.provs = <<Prov("oidc"), Prov("oidc")>>, !.keys = {1, 2}]) EXCEPT !.serial = TRUE]
Binding == [Load({"bind", "bound", "poll"}, {"provider", "drop", "remove", "create"},
    [Base EXCEPT !.provs[1] = Prov("microsoft"), !.users = <<Account(e1, TRUE), Account(e2, TRUE)>>,
                 !.claims = {Claim(s1, None, FALSE), Claim(s2, None, FALSE)}, !.rows = {Prov("microsoft"), Disabled(Prov("microsoft"))}, !.keys = {1, 2}]) EXCEPT !.serial = TRUE]
Handing == Load({"login", "bind", "create"}, {"create", "provider", "drop"},
    [Base EXCEPT !.provs[1] = Prov("microsoft"), !.keys = {PublicKey, 1, 2}, !.flows = 1, !.rows = {Prov("microsoft"), Disabled(Prov("microsoft"))}])
\* Two requests at once.
Arriving == Load(Callbacks, {"callback", "remove", "drop"}, [Base EXCEPT !.provs[1] = Prov("linuxdo"), !.claims = {Claim(s1, None, FALSE)}])
Meeting == Load(Callbacks, {"callback", "unlink"}, [Base EXCEPT !.provs[1] = [Prov("oidc") EXCEPT !.autolink = TRUE, !.verified = TRUE],
    !.claims = {Claim(s1, e1, TRUE), Claim(s1, e2, TRUE)}])
Proving == Load(Callbacks \cup {"mail", "confirm"}, {"mail", "confirm", "password"},
    [Base EXCEPT !.provs[1] = [Prov("oidc") EXCEPT !.autoprov = FALSE], !.claims = {Claim(s1, None, FALSE)}, !.emails = {e1, e2}, !.flows = 4])
Linking == Load(Callbacks \cup {"password"}, {"password", "provider"},
    [Base EXCEPT !.provs[1] = [Prov("oidc") EXCEPT !.autoprov = FALSE], !.claims = {Claim(s1, None, FALSE)}, !.flows = 4,
                 !.users = <<Account(e1, TRUE), Account(e2, TRUE)>>, !.rows = {Prov("oidc"), Disabled(Prov("oidc"))}])
Devices == Load({"bind", "poll"}, {"poll", "bound"}, [Base EXCEPT !.provs[1] = Prov("microsoft"), !.users = <<Account(e1, TRUE), Account(e2, TRUE)>>, !.claims = {Claim(s1, None, FALSE)}])

AllLoads == {Entering, Registering, Binding, Handing, Arriving, Meeting, Proving, Linking, Devices}
==============================================================================
