----------------------------- MODULE ExternalAuth -----------------------------
(***************************************************************************)
(* Sign-in through other providers: login flows and their callbacks, the   *)
(* mail that proves an address, links to existing accounts, the binding of *)
(* a Minecraft account by code or by device, and the providers themselves. *)
(*                                                                         *)
(* A request is a list of statements, todo[c]; other requests run between  *)
(* two of them, and the row a statement has read is carried along in the   *)
(* next one.  A transaction is the statement that commits it.  A call to a *)
(* provider answers with claims or fails; what a wrong path, a refused     *)
(* domain, a low trust level or a failed call have in common is that the   *)
(* request ends there with what it has already written (Lose).             *)
(***************************************************************************)
EXTENDS Naturals, Sequences, FiniteSets

CONSTANTS
    MaxProv,      \* bound: providers ever created
    Subjects,     \* subjects and Minecraft UUIDs the providers know
    Emails,       \* normalised addresses
    Clients,      \* requests in flight
    MaxUser,      \* bound: users ever created
    MaxFlow,      \* bound: flows ever created, of all kinds
    Workloads,    \* sets of operations issued together
    None

Providers == 1..MaxProv
UserIds == 1..MaxUser
FlowIds == 1..MaxFlow
Kinds == {"oidc", "github", "linuxdo", "microsoft"}
FlowKinds == {"login", "code", "device", "mail"}
Ops == {"login", "callback", "bind", "bound", "poll", "mail", "confirm", "password", "unlink",
        "create", "provider", "drop", "user", "remove"}
Minecraft == 0    \* MINECRAFT_IDENTITY_NAMESPACE
PublicKey == 0    \* MICROSOFT_PROVIDER_PUBLIC_KEY, an address without an id

Provider == [kind : Kinds, public : BOOLEAN, enabled : BOOLEAN, login : BOOLEAN, autolink : BOOLEAN,
             autoprov : BOOLEAN, verified : BOOLEAN, unlink : BOOLEAN]
User == [email : Emails \cup {None}, verified : BOOLEAN, active : BOOLEAN]
Identity == [user : UserIds, prov : Providers, ns : Providers \cup {Minecraft}, sub : Subjects]
Flow == [kind : FlowKinds, prov : Providers, user : UserIds \cup {None}, sub : Subjects \cup {None},
         target : Emails \cup {None}, used : BOOLEAN, over : BOOLEAN]
Claims == [sub : Subjects, email : Emails \cup {None}, ver : BOOLEAN]

ASSUME ExternalAuthAssumption ==
    /\ MaxProv \in Nat /\ MaxUser \in Nat /\ MaxFlow \in Nat
    /\ None \notin Nat /\ None \notin Emails /\ None \notin Subjects
    /\ \A w \in Workloads :
          /\ w.ops \in [Clients -> SUBSET Ops]
          /\ w.serial \in BOOLEAN /\ w.time \in BOOLEAN /\ w.faults \in Nat /\ w.registration \in BOOLEAN
          /\ w.users \in Seq(User) /\ w.provs \in Seq(Provider)
          /\ w.links \subseteq Identity /\ w.claims \subseteq Claims /\ w.emails \subseteq Emails
          /\ w.flows \in 0..MaxFlow /\ w.rows \subseteq Provider /\ w.keys \subseteq Providers \cup {PublicKey}
          /\ Len(w.users) <= MaxUser /\ Len(w.provs) <= MaxProv
          \* The links are those of existing users to existing providers, one per subject (the unique
          \* index); no profile is bound yet, and who has no address came through LinuxDo.
          /\ \A i \in w.links : i.user \in DOMAIN w.users /\ i.prov \in DOMAIN w.provs /\ i.ns # Minecraft
          /\ \A i, k \in w.links : i.ns = k.ns /\ i.sub = k.sub => i = k
          /\ \A u \in DOMAIN w.users : w.users[u].email = None =>
                \E i \in w.links : i.user = u /\ w.provs[i.prov].kind = "linuxdo"

VARIABLES
    users,     \* users: id -> row or None
    provs,     \* external_auth_providers: id -> row or None
    links,     \* external_auth_identities
    flows,     \* login, binding and e-mail verification flows: id -> row or None
    profiles,  \* minecraft_profiles by UUID: owner or None
    last,      \* ids handed out so far: [user, flow, prov]
    todo, load, faults,
    ends,      \* history: flow -> how many logins or links it brought about
    mails,     \* history: flow -> how many mails it sent
    entries,   \* history: logins, [user, ns, sub]
    released,  \* history: <<ns, sub>> unlinked or deleted at some time
    barred,    \* history: <<c, p>>: provider p has been off ever since the request of c arrived
    dark       \* history: a login was completed through a provider that was barred to it

vars == <<users, provs, links, flows, profiles, last, todo, load, faults, ends, mails, entries, released, barred, dark>>
db == <<users, provs, links, flows, profiles, last>>
hist == <<ends, mails, entries, released, dark>>
env == <<load, faults, barred>>

Live == {u \in UserIds : users[u] # None}
On(p) == provs[p] # None /\ provs[p].enabled

Init ==
    /\ load \in Workloads
    /\ users = [u \in UserIds |-> IF u \in DOMAIN load.users THEN load.users[u] ELSE None]
    /\ provs = [p \in Providers |-> IF p \in DOMAIN load.provs THEN load.provs[p] ELSE None] /\ links = load.links
    /\ flows = [f \in FlowIds |-> None]
    /\ profiles = [s \in Subjects |-> None]
    /\ last = [user |-> Len(load.users), flow |-> 0, prov |-> Len(load.provs)]
    /\ todo = [c \in Clients |-> <<>>] /\ faults = load.faults
    /\ ends = [f \in FlowIds |-> 0] /\ mails = [f \in FlowIds |-> 0]
    /\ entries = {} /\ released = {} /\ barred = {} /\ dark = FALSE

-----------------------------------------------------------------------------
(* Requests.                                                               *)

At(c, j) == todo[c] # <<>> /\ Head(todo[c]).j = j
Job(c) == Head(todo[c])
Then(c, s) == todo' = [todo EXCEPT ![c] = s \o Tail(@)]
Stop(c) == todo' = [todo EXCEPT ![c] = <<>>]
Go(c, ok, s) == IF ok THEN Then(c, s) ELSE Stop(c)
Idle(c) == todo[c] = <<>> /\ (load.serial => \A d \in Clients : todo[d] = <<>>)

\* barred: the providers that are disabled or gone when the request arrives
Start(c, op, s) ==
    /\ Idle(c) /\ op \in load.ops[c]
    /\ todo' = [todo EXCEPT ![c] = s]
    /\ barred' = {b \in barred : b[1] # c} \cup {<<c, p>> : p \in {q \in 1..last.prov : ~ On(q)}}
    /\ UNCHANGED <<db, load, faults, hist>>

\* The states and tokens of flows stay in the hands of users after the rows are gone.
Handed(k) == {f \in 1..last.flow : flows[f] # None => flows[f].kind = k}

StartLogin(c) == \E k \in load.keys : Start(c, "login", <<[j |-> "lopen", key |-> k]>>)
FinishLogin(c) == \E f \in Handed("login") :
    Start(c, "callback", <<[j |-> "find", f |-> f, then |-> "prov"]>>)
StartBinding(c) == \E u \in Live, k \in load.keys, by \in {"code", "device"} :
    Start(c, "bind", <<[j |-> "bopen", key |-> k, u |-> u, k |-> by]>>)
FinishBinding(c) == \E f \in Handed("code") :
    Start(c, "bound", <<[j |-> "find", f |-> f, then |-> "bprov"]>>)
CheckDeviceCodeStatus(c) == \E f \in Handed("device"), u \in Live :
    Start(c, "poll", <<[j |-> "device", f |-> f, u |-> u]>>)
StartEmailVerification(c) == \E f \in Handed("mail"), e \in load.emails :
    Start(c, "mail", <<[j |-> "mread", f |-> f, e |-> e]>>)
ConfirmEmailVerification(c) == \E f \in Handed("mail") :
    mails[f] > 0 /\ Start(c, "confirm", <<[j |-> "cread", f |-> f]>>)
LinkWithPassword(c) == \E f \in Handed("mail"), u \in Live :
    Start(c, "password", <<[j |-> "pread", f |-> f, u |-> u]>>)
DeleteLink(c) == \E i \in links : Start(c, "unlink", <<[j |-> "uread", i |-> i]>>)
CreateProvider(c) == \E r \in load.rows : Start(c, "create", <<[j |-> "pkey", r |-> r]>>)
UpdateProvider(c) == \E p \in Providers, r \in load.rows : Start(c, "provider", <<[j |-> "pupdate", p |-> p, r |-> r]>>)
DeleteProvider(c) == \E p \in Providers : Start(c, "drop", <<[j |-> "pdelete", p |-> p]>>)

-----------------------------------------------------------------------------
(* Rows.                                                                   *)

\* Two providers of one issuer share its namespace; here each has its own.
Linked(ns, s) == {i \in links : i.ns = ns /\ i.sub = s}
\* idx_external_auth_identities: namespace and subject, provider and subject, user and provider
Linkable(u, p, ns, s) ==
    /\ Linked(ns, s) = {}
    /\ ~ \E i \in links : i.prov = p /\ (i.sub = s \/ i.user = u)
\* create_identity_for_claims
Link(u, p, ns, s) == [user |-> u, prov |-> p, ns |-> ns, sub |-> s]
HasEmail(e) == {u \in Live : users[u].email = e}
Registered(e, ver) == [email |-> e, verified |-> ver, active |-> TRUE]

Open(k, p, u, s) == [kind |-> k, prov |-> p, user |-> u, sub |-> s, target |-> None, used |-> FALSE, over |-> FALSE]
Insert(row) ==
    /\ last.flow < load.flows
    /\ flows' = [flows EXCEPT ![last.flow + 1] = row]
    /\ last' = [last EXCEPT !.flow = @ + 1]
\* found and neither consumed nor expired
Active(f) == flows[f] # None /\ ~ flows[f].used /\ ~ flows[f].over

\* find_login_provider: the stored key, or the one enabled Microsoft provider
EnabledMicrosoft == {p \in Providers : On(p) /\ provs[p].kind = "microsoft"}
WithPublicKey == {p \in Providers : provs[p] # None /\ provs[p].public}
FindProvider(key) ==
    IF key # PublicKey THEN {p \in Providers : p = key /\ provs[p] # None}
    ELSE IF WithPublicKey # {} THEN WithPublicKey
    ELSE IF Cardinality(EnabledMicrosoft) = 1 THEN EnabledMicrosoft ELSE {}
\* find_minecraft_binding_provider and ensure_minecraft_binding_provider_kind
FindBindingProvider(key) == {p \in FindProvider(key) : provs[p].kind = "microsoft"}

\* The flow's row; the provider is read first and read again by the callback.
OpenLogin(c) ==
    /\ At(c, "lopen")
    /\ LET ok == {p \in FindProvider(Job(c).key) : On(p) /\ provs[p].login} IN
          IF ok = {} THEN UNCHANGED <<flows, last>>
          ELSE \E p \in ok : Insert(Open("login", p, None, None))
    /\ Stop(c)
    /\ UNCHANGED <<users, provs, links, profiles, env, hist>>
\* With a client secret by authorization code, otherwise by device code.
OpenBinding(c) ==
    /\ At(c, "bopen")
    /\ LET x == Job(c) ok == {p \in FindBindingProvider(x.key) : On(p) /\ x.u \in Live} IN
          IF ok = {} THEN UNCHANGED <<flows, last>>
          ELSE \E p \in ok : Insert(Open(x.k, p, x.u, None))
    /\ Stop(c)
    /\ UNCHANGED <<users, provs, links, profiles, env, hist>>

-----------------------------------------------------------------------------
(* The callback: consume the flow, ask the provider, find the account.     *)

\* consume_by_state_hash: the row is looked up and copied ...
FindFlow(c) ==
    /\ At(c, "find")
    /\ LET x == Job(c) IN
          IF Active(x.f)
          THEN Then(c, <<[j |-> "consume", f |-> x.f],
                         [j |-> x.then, f |-> x.f, p |-> flows[x.f].prov, u |-> flows[x.f].user]>>)
          ELSE Stop(c)
    /\ UNCHANGED <<db, env, hist>>
\* Mutant: the update names the row by its id only.
ConsumeById(c) ==
    /\ At(c, "consume")
    /\ LET f == Job(c).f IN
          IF flows[f] # None
          THEN flows' = [flows EXCEPT ![f].used = TRUE] /\ Then(c, <<>>)
          ELSE Stop(c) /\ UNCHANGED flows
    /\ UNCHANGED <<users, provs, links, profiles, last, env, hist>>
\* ... and taken by a filtered update, so that one of two callbacks goes on.
ConsumeFlow(c) ==
    /\ At(c, "consume")
    /\ LET f == Job(c).f IN
          IF Active(f)
          THEN flows' = [flows EXCEPT ![f].used = TRUE] /\ Then(c, <<>>)
          ELSE Stop(c) /\ UNCHANGED flows
    /\ UNCHANGED <<users, provs, links, profiles, last, env, hist>>

\* The provider's row as it is now goes along with the request.
CheckProvider(c) ==
    /\ At(c, "prov")
    /\ LET x == Job(c) IN
          Go(c, On(x.p) /\ provs[x.p].login,
             <<[j |-> "claims", f |-> x.f, p |-> x.p, row |-> provs[x.p]]>>)
    /\ UNCHANGED <<db, env, hist>>
\* exchange_callback: what the provider says of the visitor; LinuxDo knows no address.
Exchange(c) ==
    /\ At(c, "claims")
    /\ \E k \in load.claims :
          /\ Job(c).row.kind = "linuxdo" => k.email = None
          /\ LET x == Job(c) IN
                Then(c, <<[j |-> "known", f |-> x.f, p |-> x.p, row |-> x.row, claim |-> k]>>)
    /\ UNCHANGED <<db, env, hist>>

Onward(x, j, u) == [j |-> j, f |-> x.f, p |-> x.p, sub |-> x.claim.sub, e |-> x.claim.email, ver |-> x.claim.ver, u |-> u]
\* resolve_existing_external_auth_identity; without one, an address is needed or made up for.
FindIdentity(c) ==
    /\ At(c, "known")
    /\ LET x == Job(c) found == Linked(x.p, x.claim.sub) IN
          IF found # {} THEN \E i \in found : Then(c, <<[Onward(x, "account", i.user) EXCEPT !.e = None]>>)
          ELSE IF x.claim.email # None
               THEN Go(c, x.row.verified => x.claim.ver, <<[x EXCEPT !.j = "byemail"]>>)
          ELSE IF x.row.kind = "linuxdo" THEN Go(c, load.registration, <<Onward(x, "create", None)>>)
          ELSE Go(c, ~ (x.row.kind = "github" /\ x.row.verified), <<Onward(x, "pending", None)>>)
    /\ UNCHANGED <<db, env, hist>>
\* resolve_external_auth_user_with_options after the identity was not found
ResolveByEmail(c) ==
    /\ At(c, "byemail")
    /\ LET x == Job(c) r == x.row owner == HasEmail(x.claim.email)
           vouched == r.verified \/ r.autolink => x.claim.ver IN
          IF r.autolink /\ x.claim.ver /\ owner # {}
          THEN \E u \in owner : Go(c, users[u].active, <<Onward(x, "link", u)>>)
          ELSE IF r.autoprov /\ vouched /\ load.registration /\ owner = {}
               THEN Then(c, <<Onward(x, "create", None)>>)
               ELSE Then(c, <<Onward(x, "pending", None)>>)
    /\ UNCHANGED <<db, env, hist>>
\* The automatic link by a verified address: one insert.
AutoLink(c) ==
    /\ At(c, "link")
    /\ LET x == Job(c) IN
          IF x.u \in Live /\ provs[x.p] # None /\ Linkable(x.u, x.p, x.p, x.sub)
          THEN links' = links \cup {Link(x.u, x.p, x.p, x.sub)} /\ Then(c, <<[x EXCEPT !.j = "session"]>>)
          ELSE Stop(c) /\ UNCHANGED links
    /\ UNCHANGED <<users, provs, flows, profiles, last, env, hist>>

AddUser(row) ==
    /\ last.user < MaxUser
    /\ users' = [users EXCEPT ![last.user + 1] = row]
    /\ last' = [last EXCEPT !.user = @ + 1]
\* Mutant: the account is kept when the link cannot be made.
ProvisionLoose(c) ==
    /\ At(c, "create")
    /\ LET x == Job(c) u == last.user + 1 IN
          IF x.e = None \/ HasEmail(x.e) = {}
          THEN /\ AddUser(Registered(x.e, x.ver))
               /\ links' = IF provs[x.p] # None /\ Linkable(u, x.p, x.p, x.sub) THEN links \cup {Link(u, x.p, x.p, x.sub)} ELSE links
               /\ Go(c, provs[x.p] # None /\ Linkable(u, x.p, x.p, x.sub), <<[x EXCEPT !.j = "session", !.u = u]>>)
          ELSE Stop(c) /\ UNCHANGED <<users, links, last>>
    /\ UNCHANGED <<provs, flows, profiles, env, hist>>
\* Account and link in one transaction: a second callback of the same visitor loses both.
Provision(c) ==
    /\ At(c, "create")
    /\ LET x == Job(c) u == last.user + 1 IN
          IF (x.e = None \/ HasEmail(x.e) = {}) /\ provs[x.p] # None /\ Linkable(u, x.p, x.p, x.sub)
          THEN /\ AddUser(Registered(x.e, x.ver))
               /\ links' = links \cup {Link(u, x.p, x.p, x.sub)}
               /\ Then(c, <<[x EXCEPT !.j = "session", !.u = u]>>)
          ELSE Stop(c) /\ UNCHANGED <<users, links, last>>
    /\ UNCHANGED <<provs, flows, profiles, env, hist>>
\* create_pending_email_verification_flow: the visitor has to prove an address.
OpenPending(c) ==
    /\ At(c, "pending")
    /\ LET x == Job(c) IN
          IF provs[x.p] # None
          THEN Insert(Open("mail", x.p, None, x.sub)) /\ Stop(c)
          ELSE Stop(c) /\ UNCHANGED <<flows, last>>
    /\ UNCHANGED <<users, provs, links, profiles, env, hist>>

\* touch_login counts nothing, so a link deleted meanwhile does not stop the login.
TouchAndRead(c) ==
    /\ At(c, "account")
    /\ LET x == Job(c) IN Go(c, x.u \in Live /\ users[x.u].active, <<[x EXCEPT !.j = "session"]>>)
    /\ UNCHANGED <<db, env, hist>>
\* issue_tokens_for_user: the session's row needs its user.
IssueSession(c) ==
    /\ At(c, "session")
    /\ LET x == Job(c) IN
          IF x.u \in Live
          THEN /\ entries' = entries \cup {[user |-> x.u, ns |-> x.p, sub |-> x.sub]}
               /\ ends' = [ends EXCEPT ![x.f] = @ + 1]
               /\ dark' = (dark \/ <<c, x.p>> \in barred)
          ELSE UNCHANGED <<entries, ends, dark>>
    /\ Stop(c)
    /\ UNCHANGED <<db, env, mails, released>>

-----------------------------------------------------------------------------
(* Proving an address, or the password of an account.                      *)

\* The address is free, or belongs to an account that may be linked.
Eligible(e) ==
    IF HasEmail(e) = {} THEN load.registration
    ELSE \A u \in HasEmail(e) : users[u].active /\ users[u].verified
ReadForMail(c) ==
    /\ At(c, "mread")
    /\ LET x == Job(c) IN
          Go(c, /\ Active(x.f) /\ flows[x.f].target = None
                /\ On(flows[x.f].prov) /\ Eligible(x.e), <<[x EXCEPT !.j = "mcommit"]>>)
    /\ UNCHANGED <<db, env, hist>>
\* update_email_request, filtered on a flow without a token, and the mail.
MailCommit(c) ==
    /\ At(c, "mcommit")
    /\ LET x == Job(c) IN
          IF Active(x.f) /\ flows[x.f].target = None
          THEN flows' = [flows EXCEPT ![x.f].target = x.e] /\ mails' = [mails EXCEPT ![x.f] = @ + 1]
          ELSE UNCHANGED <<flows, mails>>
    /\ Stop(c)
    /\ UNCHANGED <<users, provs, links, profiles, last, env, ends, entries, released, dark>>

\* The flow is copied: the commit uses its target and subject as read here.
ReadForConfirm(c) ==
    /\ At(c, "cread")
    /\ LET x == Job(c) IN
          Go(c, Active(x.f) /\ flows[x.f].target # None /\ On(flows[x.f].prov),
             <<[j |-> "ccommit", f |-> x.f, row |-> flows[x.f]]>>)
    /\ UNCHANGED <<db, env, hist>>
\* Mutant: the account with the address need not have proven it.
ResolvedLoosely(p, s, e) ==
    IF Linked(p, s) # {} THEN {u \in Live : \E i \in Linked(p, s) : i.user = u /\ users[u].active}
    ELSE IF HasEmail(e) # {} THEN {u \in HasEmail(e) : users[u].active /\ Linkable(u, p, p, s)}
    ELSE IF load.registration /\ Linkable(last.user + 1, p, p, s) THEN {last.user + 1} ELSE {}
\* resolve_external_auth_user_with_verified_email: the account the address or the subject leads to
Resolved(p, s, e) ==
    IF Linked(p, s) # {} THEN {u \in Live : \E i \in Linked(p, s) : i.user = u /\ users[u].active}
    ELSE IF HasEmail(e) # {} THEN {u \in HasEmail(e) : users[u].active /\ users[u].verified /\ Linkable(u, p, p, s)}
    ELSE IF load.registration /\ Linkable(last.user + 1, p, p, s) THEN {last.user + 1} ELSE {}

Taken(f) == flows' = [flows EXCEPT ![f].used = TRUE]
\* Consumption, account and link in one transaction.
ConfirmCommit(c) ==
    /\ At(c, "ccommit")
    /\ LET x == Job(c) p == x.row.prov s == x.row.sub e == x.row.target IN
          \/ /\ Active(x.f) /\ provs[p] # None
             /\ \E u \in Resolved(p, s, e) :
                   /\ IF u \in Live THEN UNCHANGED <<users, last>> ELSE AddUser(Registered(e, TRUE))
                   /\ links' = IF Linked(p, s) = {} THEN links \cup {Link(u, p, p, s)} ELSE links
                   /\ Then(c, <<[j |-> "session", f |-> x.f, p |-> p, sub |-> s, u |-> u]>>)
             /\ Taken(x.f)
          \/ /\ ~ (Active(x.f) /\ provs[p] # None) \/ Resolved(p, s, e) = {}
             /\ Stop(c) /\ UNCHANGED <<users, last, links, flows>>
    /\ UNCHANGED <<provs, profiles, env, hist>>

\* The password is right; the account is active and activated.
ReadForPassword(c) ==
    /\ At(c, "pread")
    /\ LET x == Job(c) IN
          Go(c, /\ Active(x.f) /\ On(flows[x.f].prov) /\ x.u \in Live
                /\ users[x.u].active /\ (users[x.u].email # None => users[x.u].verified),
             <<[j |-> "pcommit", f |-> x.f, u |-> x.u, p |-> flows[x.f].prov, sub |-> flows[x.f].sub]>>)
    /\ UNCHANGED <<db, env, hist>>
\* Mutant: a subject linked to another account is linked again.
LinkOver(u, p, s) == TRUE
\* link_external_auth_identity_to_authenticated_user: the caller's link, or a new one
LinkTo(u, p, s) == \/ \E i \in Linked(p, s) : i.user = u
                   \/ Linkable(u, p, p, s)
PasswordCommit(c) ==
    /\ At(c, "pcommit")
    /\ LET x == Job(c) IN
          IF Active(x.f) /\ x.u \in Live /\ provs[x.p] # None /\ LinkTo(x.u, x.p, x.sub)
          THEN /\ links' = links \cup {Link(x.u, x.p, x.p, x.sub)}
               /\ Taken(x.f) /\ Then(c, <<[x EXCEPT !.j = "session"]>>)
          ELSE Stop(c) /\ UNCHANGED <<links, flows>>
    /\ UNCHANGED <<users, provs, profiles, last, env, hist>>

-----------------------------------------------------------------------------
(* Minecraft accounts.                                                     *)

\* exchange_microsoft_minecraft_account: one call after the other
MinecraftCalls == <<"microsoft", "xbox", "xsts", "minecraft", "profile">>
\* exchange_microsoft_minecraft_account_with_token: the device flow has the first token already
DeviceCalls == Tail(MinecraftCalls)
Calls(s, x) == [n \in DOMAIN s |-> [j |-> "call", f |-> x.f, at |-> s[n]]] \o <<[j |-> "account?", f |-> x.f, p |-> x.p, u |-> x.u]>>
\* ensure_provider_enabled
CheckBindingProvider(c) ==
    /\ At(c, "bprov")
    /\ LET x == Job(c) IN Go(c, On(x.p), Calls(MinecraftCalls, x))
    /\ UNCHANGED <<db, env, hist>>
\* The device flow looks at its owner, not at whether the provider is enabled.
ReadDevice(c) ==
    /\ At(c, "device")
    /\ LET x == Job(c) IN
          Go(c, Active(x.f) /\ flows[x.f].user = x.u,
             <<[j |-> "token", f |-> x.f, u |-> x.u, p |-> IF flows[x.f] = None THEN None ELSE flows[x.f].prov]>>)
    /\ UNCHANGED <<db, env, hist>>
\* Poll: authorized, still pending, or expired; the last one ends the flow.
PollDevice(c) ==
    /\ At(c, "token")
    /\ LET x == Job(c) IN
          \/ Then(c, <<[j |-> "consume", f |-> x.f]>> \o Calls(DeviceCalls, x))
          \/ Stop(c)
          \/ Then(c, <<[j |-> "consume", f |-> x.f]>>)
    /\ UNCHANGED <<db, env, hist>>
\* Xbox Live, XSTS, Minecraft: an answer, or an error that ends the request with the flow consumed.
CallService(c) ==
    /\ At(c, "call")
    /\ Then(c, <<>>) \/ Stop(c)
    /\ UNCHANGED <<db, env, hist>>
\* normalize_minecraft_uuid and user_role_for_binding
ExchangeMinecraft(c) ==
    /\ At(c, "account?")
    /\ \E k \in load.claims :
          LET x == Job(c) IN Go(c, x.u \in Live, <<[j |-> "apply", f |-> x.f, p |-> x.p, u |-> x.u, s |-> k.sub]>>)
    /\ UNCHANGED <<db, env, hist>>
\* ensure_minecraft_identity
BindIdentity(u, p, s) == \/ \E i \in Linked(Minecraft, s) : i.user = u
                         \/ Linkable(u, p, Minecraft, s)
\* ensure_minecraft_profile
BindProfile(u, s) == profiles[s] \in {None, u}
\* Identity and profile in one transaction.
ApplyBinding(c) ==
    /\ At(c, "apply")
    /\ LET x == Job(c) IN
          IF x.u \in Live /\ provs[x.p] # None /\ BindIdentity(x.u, x.p, x.s) /\ BindProfile(x.u, x.s)
          THEN /\ links' = IF Linked(Minecraft, x.s) = {} THEN links \cup {Link(x.u, x.p, Minecraft, x.s)} ELSE links
               /\ profiles' = [profiles EXCEPT ![x.s] = IF @ = None THEN x.u ELSE @]
               /\ ends' = [ends EXCEPT ![x.f] = @ + 1]
          ELSE UNCHANGED <<links, profiles, ends>>
    /\ Stop(c)
    /\ UNCHANGED <<users, provs, flows, last, env, mails, entries, released, dark>>

-----------------------------------------------------------------------------
(* Unlinking, providers, accounts, time.                                   *)

\* external_auth_identity_can_unlink
CanUnlink(i) == /\ provs[i.prov] # None
                /\ provs[i.prov].kind \notin {"microsoft", "linuxdo"}
                /\ i.ns # Minecraft /\ provs[i.prov].unlink
ReadLink(c) ==
    /\ At(c, "uread")
    /\ Go(c, Job(c).i \in links /\ CanUnlink(Job(c).i), <<[Job(c) EXCEPT !.j = "unlink"]>>)
    /\ UNCHANGED <<db, env, hist>>
Free(is) == /\ links' = links \ is
            /\ released' = released \cup {<<i.ns, i.sub>> : i \in is}
Unlink(c) ==
    /\ At(c, "unlink")
    /\ Free({Job(c).i} \cap links)
    /\ Stop(c)
    /\ UNCHANGED <<users, provs, flows, profiles, last, env, ends, mails, entries, dark>>

\* new_provider_key: the first Microsoft provider gets the public key.
ChooseKey(c) ==
    /\ At(c, "pkey")
    /\ LET r == Job(c).r IN
          Then(c, <<[j |-> "pcreate", r |-> [r EXCEPT !.public = r.kind = "microsoft" /\ WithPublicKey = {}]]>>)
    /\ UNCHANGED <<db, env, hist>>
\* idx_external_auth_providers_kind_key refuses a second row with the public key.
InsertProvider(c) ==
    /\ At(c, "pcreate")
    /\ LET r == Job(c).r IN
          IF r.public /\ WithPublicKey # {} THEN UNCHANGED <<provs, last>>
          ELSE /\ last.prov < MaxProv
               /\ provs' = [provs EXCEPT ![last.prov + 1] = r]
               /\ last' = [last EXCEPT !.prov = @ + 1]
    /\ Stop(c)
    /\ UNCHANGED <<users, links, flows, profiles, env, hist>>
\* Kind and key stay; the other columns do not concern a flow.
StoreProvider(c) ==
    /\ At(c, "pupdate")
    /\ LET x == Job(c) IN
          /\ provs' = IF provs[x.p] = None THEN provs ELSE [provs EXCEPT ![x.p] = [x.r EXCEPT !.kind = provs[x.p].kind, !.public = provs[x.p].public]]
          /\ barred' = IF x.r.enabled THEN {b \in barred : b[2] # x.p} ELSE barred
    /\ Stop(c)
    /\ UNCHANGED <<users, links, flows, profiles, last, load, faults, hist>>
\* Flows and identities go with their provider.
RemoveProvider(c) ==
    /\ At(c, "pdelete")
    /\ LET p == Job(c).p IN
          /\ provs' = [provs EXCEPT ![p] = None]
          /\ Free({i \in links : i.prov = p})
          /\ flows' = [f \in FlowIds |-> IF flows[f] # None /\ flows[f].prov = p THEN None ELSE flows[f]]
    /\ Stop(c)
    /\ UNCHANGED <<users, profiles, last, env, ends, mails, entries, dark>>

\* The administrator's part in Accounts: an account is disabled, or deleted with its rows.
DisableUser(c) == \E u \in Live :
    /\ Idle(c) /\ "user" \in load.ops[c] /\ users[u].active
    /\ users' = [users EXCEPT ![u].active = FALSE]
    /\ UNCHANGED <<provs, links, flows, profiles, last, todo, env, hist>>
DeleteUser(c) == \E u \in Live :
    /\ Idle(c) /\ "remove" \in load.ops[c]
    /\ users' = [users EXCEPT ![u] = None]
    /\ Free({i \in links : i.user = u})
    /\ flows' = [f \in FlowIds |-> IF flows[f] # None /\ flows[f].user = u THEN None ELSE flows[f]]
    /\ profiles' = [s \in Subjects |-> IF profiles[s] = u THEN None ELSE profiles[s]]
    /\ UNCHANGED <<provs, last, todo, env, ends, mails, entries, dark>>

Expire(f) ==
    /\ load.time /\ flows[f] # None /\ ~ flows[f].over
    /\ flows' = [flows EXCEPT ![f].over = TRUE]
    /\ UNCHANGED <<users, provs, links, profiles, last, todo, env, hist>>
\* Three deletes, one per table; nothing reads a row between them that it would not refuse anyway.
CleanupExpiredFlows ==
    /\ \E f \in FlowIds : flows[f] # None /\ flows[f].over
    /\ flows' = [f \in FlowIds |-> IF flows[f] # None /\ flows[f].over THEN None ELSE flows[f]]
    /\ UNCHANGED <<users, provs, links, profiles, last, todo, env, hist>>

\* A call or a statement fails, or the process stops.
Lose(c) ==
    /\ todo[c] # <<>> /\ faults > 0
    /\ faults' = faults - 1 /\ Stop(c)
    /\ UNCHANGED <<db, load, barred, hist>>

-----------------------------------------------------------------------------
Request(c) ==
    \/ StartLogin(c) \/ FinishLogin(c) \/ StartBinding(c) \/ FinishBinding(c) \/ CheckDeviceCodeStatus(c)
    \/ StartEmailVerification(c) \/ ConfirmEmailVerification(c) \/ LinkWithPassword(c)
    \/ DeleteLink(c) \/ CreateProvider(c) \/ UpdateProvider(c) \/ DeleteProvider(c)
Statement(c) ==
    \/ OpenLogin(c) \/ OpenBinding(c) \/ FindFlow(c) \/ ConsumeFlow(c) \/ CheckProvider(c) \/ Exchange(c)
    \/ FindIdentity(c) \/ ResolveByEmail(c) \/ AutoLink(c) \/ Provision(c) \/ OpenPending(c)
    \/ TouchAndRead(c) \/ IssueSession(c)
    \/ ReadForMail(c) \/ MailCommit(c) \/ ReadForConfirm(c) \/ ConfirmCommit(c) \/ ReadForPassword(c) \/ PasswordCommit(c)
    \/ CheckBindingProvider(c) \/ ReadDevice(c) \/ PollDevice(c) \/ CallService(c) \/ ExchangeMinecraft(c) \/ ApplyBinding(c)
    \/ ReadLink(c) \/ Unlink(c) \/ ChooseKey(c) \/ InsertProvider(c) \/ StoreProvider(c) \/ RemoveProvider(c)
Next ==
    \/ \E c \in Clients : Request(c) \/ Statement(c) \/ Lose(c) \/ DisableUser(c) \/ DeleteUser(c)
    \/ \E f \in FlowIds : Expire(f)
    \/ CleanupExpiredFlows
Spec == Init /\ [][Next]_vars

-----------------------------------------------------------------------------
(* Every variable has its type.                                            *)
TypeOK ==
    /\ users \in [UserIds -> User \cup {None}] /\ provs \in [Providers -> Provider \cup {None}]
    /\ links \subseteq Identity /\ flows \in [FlowIds -> Flow \cup {None}]
    /\ profiles \in [Subjects -> UserIds \cup {None}]
    /\ last.prov \in 0..MaxProv /\ last.user \in 0..MaxUser /\ last.flow \in 0..MaxFlow /\ faults \in Nat
    /\ ends \in [FlowIds -> Nat] /\ mails \in [FlowIds -> Nat] /\ dark \in BOOLEAN
    /\ \A e \in entries : e.user \in UserIds

(* A flow, once handed to the browser, brings about one login or one link  *)
(* at most, however often and however fast its state or token comes back   *)
(* (consume_by_state_hash, consume_by_id, mark_consumed_if_unused).        *)
FlowEndsOnce == \A f \in FlowIds : ends[f] <= 1

(* A flow sends one mail, even to two requests that both saw it unsent:    *)
(* start_email_verification checks, update_email_request decides.          *)
OneMailPerFlow == \A f \in FlowIds : mails[f] <= 1

(* Whoever a provider vouches for always enters the same account, as long  *)
(* as the link was never given up: no two callbacks of a new visitor leave *)
(* him with two accounts, no link moves to another account.                *)
OneAccountPerVisitor ==
    \A a, b \in entries : a.ns = b.ns /\ a.sub = b.sub /\ <<a.ns, a.sub>> \notin released => a.user = b.user

(* An account without an address can be entered through its link only, so  *)
(* it has one until the link's provider is deleted.                        *)
NoOrphanAccount ==
    \A u \in Live : users[u].email = None =>
        (\E i \in links : i.user = u) \/ (\E p \in 1..last.prov : provs[p] = None)

(* Whoever is linked to a Minecraft account owns the profile with its UUID *)
(* (apply_minecraft_binding rolls both back or keeps both).                *)
BoundProfile == \A i \in links : i.ns = Minecraft => profiles[i.sub] = i.user

(* A callback, a mailed link or a password that arrives after its provider *)
(* was disabled or deleted logs nobody in, unless the provider is enabled  *)
(* again meanwhile (ensure_provider_enabled, finish_callback).             *)
DarkProviderIsDark == ~ dark

(* A mailed confirmation or a password links the visitor the flow is about *)
(* to an account that has proven its address, whatever was read of flow    *)
(* and account before the commit; an account made for him has the address  *)
(* the mail went to (resolve_external_auth_user_with_verified_email,       *)
(* link_external_auth_identity_to_authenticated_user).                     *)
MailLinksProven ==
    [][\A f \in FlowIds :
          (/\ flows[f] # None /\ flows[f].kind = "mail" /\ ~ flows[f].used
           /\ flows'[f] # None /\ flows'[f].used)
          => \A i \in links' \ links :
                /\ i.prov = flows[f].prov /\ i.sub = flows[f].sub
                /\ users'[i.user].email # None => users'[i.user].verified
                /\ i.user \notin Live => users'[i.user].email = flows[f].target]_vars

(* A flow brings about one login and one mail at most.                     *)
FlowSpentOnce == FlowEndsOnce /\ OneMailPerFlow

(* Whoever enters through a provider enters the account that is theirs,    *)
(* through a provider that was enabled since they came.                    *)
EntryIsRight == OneAccountPerVisitor /\ DarkProviderIsDark

(* Accounts, links and profiles agree at every step.                       *)
LinksConsistent == TypeOK /\ NoOrphanAccount /\ BoundProfile
==============================================================================
