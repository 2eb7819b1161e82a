------------------------------- MODULE YggJoin --------------------------------
(***************************************************************************)
(* Players on Minecraft servers: join and hasJoined with the upstream      *)
(* session servers they are forwarded to, the profiles that join, the      *)
(* capability bans that keep users out, the administration of both, and    *)
(* the login names that profile names must not collide with.               *)
(*                                                                         *)
(* A request is a list of statements, todo[c]; other requests run between  *)
(* two of them.  What a transaction writes is one statement; what it read  *)
(* to decide on that is read before, since other requests commit in        *)
(* between.  The token of a profile is what YggToken leaves of it: usable, *)
(* suspended by a rename, or gone.  An upstream answers with a profile,    *)
(* with "no such session" or not at all (a timeout, an error status, a     *)
(* broken body).                                                           *)
(***************************************************************************)
EXTENDS Naturals, Sequences, FiniteSets

CONSTANTS
    Users, Names, Ips, Servers,   \* user ids, profile and login names, client addresses, Minecraft servers
    Official,     \* UUIDs of official Minecraft accounts
    Norm,         \* normalize_profile_name, and the lower case of a login name
    Clients,      \* requests in flight
    MaxProfile,   \* bound: profiles ever created
    MaxBan,       \* bound: bans ever created
    MaxEvent,     \* bound: events of one ban
    MaxFwd,       \* bound: forwarding servers ever created
    MaxTime,      \* bound: steps of the clock
    MaxProfiles,  \* max_profiles_per_user
    MaxRenames,   \* max_profile_renames
    Workloads,    \* sets of operations issued together
    None

ProfileIds == 1..MaxProfile
BanIds == 1..MaxBan
FwdIds == 1..MaxFwd
Forever == MaxTime + 1
Scopes == {"access", "join", "manage"}   \* UserBanScope, without the two for textures
Urls == {"mojang", "u1", "u2"}
Ops == {"signin", "auto", "join", "ask", "ban", "reban", "unban", "fadd", "fedit", "fdrop",
        "create", "official", "rename", "arename", "delete", "names", "register", "login"}

Profile == [owner : Users, name : Names, source : {"local", "microsoft"},
            uuid : ProfileIds \cup Official, renames : Nat]
Ban == [user : Users, scopes : SUBSET Scopes, status : {"active", "revoked"}, start : 0..Forever, end : 0..Forever]
Told == [status : {"active", "revoked"}, scopes : SUBSET Scopes, end : 0..Forever]
Event == [type : {"created", "updated", "revoked"}, prev : Told \cup {None}, next : Told]
Fwd == [kind : {"local", "authlib", "mojang"}, builtin : BOOLEAN, url : Urls \cup {None}, on : BOOLEAN, prio : 0..2]
Entry == [p : ProfileIds, name : Names, ip : Ips]

ASSUME YggJoinAssumption ==
    /\ MaxProfile \in Nat /\ MaxBan \in Nat /\ MaxEvent \in Nat /\ MaxFwd \in Nat /\ MaxTime \in Nat
    /\ MaxProfiles \in Nat /\ MaxRenames \in Nat
    /\ Norm \in [Names -> Names]
    /\ None \notin Nat \cup Users \cup Names \cup Official \cup Profile \cup Ban \cup Fwd
    /\ \A w \in Workloads :
          /\ w.ops \in [Clients -> SUBSET Ops] /\ w.serial \in BOOLEAN /\ w.time \in BOOLEAN /\ w.faults \in Nat
          /\ w.names \subseteq Names /\ w.ips \subseteq Ips /\ w.logins \in [Users -> Names \cup {None}]
          /\ w.profiles \in Seq(Profile) /\ w.bans \in SUBSET [user : Users, scopes : SUBSET Scopes, later : 0..1, end : 0..Forever]
          /\ w.fwds \in Seq(Fwd) /\ w.new \subseteq Fwd /\ w.edits \subseteq [field : {"on", "prio", "url", "kind"}, val : 0..2]
    \* The users and profiles a workload starts with are as this code leaves them.
    /\ \A w \in Workloads :
          /\ Len(w.profiles) <= MaxProfile /\ Len(w.fwds) <= MaxFwd
          /\ \A p \in DOMAIN w.profiles :
                /\ w.profiles[p].renames <= MaxRenames
                /\ \A r \in DOMAIN w.profiles \ {p} : Norm[w.profiles[r].name] # Norm[w.profiles[p].name]
                /\ \A v \in Users \ {w.profiles[p].owner} : w.logins[v] # None => Norm[w.logins[v]] # Norm[w.profiles[p].name]
                /\ w.logins[w.profiles[p].owner] # None
          /\ \A u, v \in Users : u # v /\ w.logins[u] # None /\ w.logins[v] # None => Norm[w.logins[u]] # Norm[w.logins[v]]
          /\ \A u \in Users : Cardinality({p \in DOMAIN w.profiles : w.profiles[p].owner = u}) <= MaxProfiles

VARIABLES
    profile,  \* minecraft_profiles: id -> row or None
    login,    \* users.username: id -> name, or None as long as nobody has registered under this id
    token,    \* the Yggdrasil token of a profile
    ban,      \* user_bans: id -> row or None
    log,      \* user_ban_events: ban -> sequence of events
    fwd,      \* yggdrasil_session_forward_servers: id -> row or None
    joined,   \* cache, 30 s: server -> entry or None
    list,     \* cache, 60 s: the enabled forwarding servers or None
    summary,  \* cache, 300 s: normalised name -> [p, name] or None
    now, last, todo, load, faults,
    shut,     \* history: client -> what has kept players out ever since the request came
    sure,     \* history: client -> the profile that had joined ever since the request came, or None
    raced     \* history: the names that two requests at once had found free and were about to take

vars == <<profile, login, token, ban, log, fwd, joined, list, summary, now, last, todo, load, faults, shut, sure, raced>>
banState == <<ban, log>>
fwdState == <<fwd, list>>
playState == <<profile, login, token, summary>>
env == <<now, load, faults>>

-----------------------------------------------------------------------------
(* Rows.                                                                   *)

\* is_effective and effective_condition
EffectiveRow(r) == r.status = "active" /\ r.start <= now /\ now < r.end
Effective(b) == ban[b] # None /\ EffectiveRow(ban[b])
\* find_effective_for_scope: some effective ban of this user names the scope
BansOn(u, s) == {b \in BanIds : Effective(b) /\ ban[b].user = u /\ s \in ban[b].scopes}
Banned(u, s) == BansOn(u, s) # {}

Live == {p \in ProfileIds : profile[p] # None}
Named(n) == {p \in Live : Norm[profile[p].name] = Norm[n]}
Members == {u \in Users : login[u] # None}
LoginsNamed(n) == {u \in Members : Norm[login[u]] = Norm[n]}
\* find_by_username_case_insensitive: any one of the users whose login name it is
LoginFound(n) == IF LoginsNamed(n) = {} THEN {None} ELSE LoginsNamed(n)
\* profile_name_taken: another profile, or the login name of another user v
NameTaken(n, u, except, v) == Named(n) \ except # {} \/ v \notin {None, u}
\* ensure_username_available: the login name of another user v, or a profile of another user
UsernameTaken(n, u, v) == v \notin {None, u} \/ \E p \in Named(n) : profile[p].owner # u
Count(u) == Cardinality({p \in Live : profile[p].owner = u})
WithUuid(x) == {p \in Live : profile[p].uuid = x}
Bound(m) == \E p \in WithUuid(m) : profile[p].source = "microsoft"

\* list_enabled_ordered; on also stands for a weight above zero
Enabled == {[id |-> f, kind |-> fwd[f].kind, prio |-> fwd[f].prio] :
               f \in {g \in FwdIds : fwd[g] # None /\ fwd[g].on}}

Init ==
    /\ load \in Workloads
    /\ profile = [p \in ProfileIds |-> IF p \in DOMAIN load.profiles THEN load.profiles[p] ELSE None]
    /\ login = load.logins /\ token = [p \in ProfileIds |-> "none"]
    /\ ban = [b \in BanIds |-> None] /\ log = [b \in BanIds |-> <<>>]
    /\ fwd = [f \in FwdIds |-> IF f \in DOMAIN load.fwds THEN load.fwds[f] ELSE None]
    /\ joined = [s \in Servers |-> None] /\ list = None /\ summary = [n \in Names |-> None]
    /\ now = 0 /\ last = [profile |-> Len(load.profiles), ban |-> 0, fwd |-> Len(load.fwds)]
    /\ todo = [c \in Clients |-> <<>>] /\ faults = load.faults
    /\ shut = [c \in Clients |-> {}] /\ sure = [c \in Clients |-> None] /\ raced = {}

-----------------------------------------------------------------------------
(* Requests.                                                               *)

At(c, j) == todo[c] # <<>> /\ Head(todo[c]).j = j
Job(c) == Head(todo[c])
Then(c, s) == todo' = [todo EXCEPT ![c] = s \o Tail(@)]
Stop(c) == todo' = [todo EXCEPT ![c] = <<>>]
Go(c, ok, s) == IF ok THEN Then(c, s) ELSE Stop(c)
Idle(c) == todo[c] = <<>> /\ (load.serial => \A d \in Clients : todo[d] = <<>>)

Start(c, op, s) ==
    /\ Idle(c) /\ op \in load.ops[c]
    /\ todo' = [todo EXCEPT ![c] = s]
    /\ UNCHANGED <<playState, banState, fwdState, joined, last, env>>

SignIn(c) == \E p \in Live : Start(c, "signin", <<[j |-> "issue", p |-> p]>>)
Join(c) == \E p, r \in 1..last.profile, s \in Servers, i \in load.ips :
    Start(c, "join", <<[j |-> "token", p |-> p, r |-> r, s |-> s, ip |-> i]>>)
Ask(c) == \E n \in load.names, s \in Servers, i \in load.ips \cup {None} :
    Start(c, "ask", <<[j |-> "list", q |-> [name |-> n, s |-> s, ip |-> i]]>>)
CreateUserBan(c) == \E r \in load.bans : Start(c, "ban", <<[j |-> "bcheck", r |-> r]>>)
UpdateUserBan(c) == \E b \in 1..last.ban, r \in load.bans : Start(c, "reban", <<[j |-> "bread", b |-> b, r |-> r]>>)
RevokeUserBan(c) == \E b \in 1..last.ban : Start(c, "unban", <<[j |-> "rread", b |-> b]>>)
CreateServer(c) == \E r \in load.new : Start(c, "fadd", <<[j |-> "fcheck", r |-> r]>>)
UpdateServer(c) == \E f \in 1..last.fwd, e \in load.edits : Start(c, "fedit", <<[j |-> "fread", f |-> f, e |-> e]>>)
DeleteServer(c) == \E f \in 1..last.fwd : Start(c, "fdrop", <<[j |-> "ffind", f |-> f]>>)
CreateMinecraftProfile(c) == \E u \in Members, n \in load.names :
    Start(c, "create", <<[j |-> "cban", u |-> u, n |-> n, m |-> None]>>)
\* The first login through LinuxDo: the names to try, the sanitised user name before the fallback.
AutoCreateProfile(c) == \E u \in Members, n, m \in load.names :
    /\ Count(u) = 0 /\ Norm[n] # Norm[m]
    /\ Start(c, "auto", <<[j |-> "auto", u |-> u, names |-> <<n, m>>]>>)
\* The Minecraft account a user binds comes with its name and its UUID.
BindOfficialProfile(c) == \E u \in Members, n \in load.names, m \in Official :
    Start(c, "official", <<[j |-> "cban", u |-> u, n |-> n, m |-> m]>>)
RenameMinecraftProfile(c) == \E p \in 1..last.profile, n \in load.names :
    Start(c, "rename", <<[j |-> "nban", p |-> p, n |-> n]>>)
AdminRenameProfile(c) == \E p \in 1..last.profile, n \in load.names :
    Start(c, "arename", <<[j |-> "nread", p |-> p, n |-> n]>>)
DeleteMinecraftProfile(c) == \E p \in 1..last.profile : Start(c, "delete", <<[j |-> "dread", p |-> p]>>)
\* A new user, however he comes, and a login name changed by an administrator.
RegisterUser(c) == \E n \in load.names : Start(c, "register", <<[j |-> "ucheck", u |-> None, n |-> n]>>)
UpdateUsername(c) == \E u \in Members, n \in load.names : Start(c, "login", <<[j |-> "ucheck", u |-> u, n |-> n]>>)
ProfilesByNames(c) == \E n \in load.names : Start(c, "names", <<[j |-> "look", n |-> n]>>)

-----------------------------------------------------------------------------
(* Joining.                                                                *)

\* authenticate with this profile selected
Authenticate(c) ==
    /\ At(c, "issue") /\ Stop(c)
    /\ LET p == Job(c).p IN
          token' = IF p \in Live /\ ~ Banned(profile[p].owner, "access") THEN [token EXCEPT ![p] = "ok"] ELSE token
    /\ UNCHANGED <<profile, login, summary, banState, fwdState, joined, last, env>>

\* active_token: usable and the owner not banned from access
JoinToken(c) ==
    /\ At(c, "token")
    /\ LET x == Job(c) IN
          Go(c, token[x.p] = "ok" /\ x.p \in Live /\ ~ Banned(profile[x.p].owner, "access"), <<[x EXCEPT !.j = "jban"]>>)
    /\ UNCHANGED <<playState, banState, fwdState, joined, last, env>>
JoinBan(c) ==
    /\ At(c, "jban")
    /\ LET x == Job(c) IN Go(c, x.p \in Live /\ ~ Banned(profile[x.p].owner, "join"), <<[x EXCEPT !.j = "jprofile"]>>)
    /\ UNCHANGED <<playState, banState, fwdState, joined, last, env>>
\* The profile must be the one the request names.
JoinProfile(c) ==
    /\ At(c, "jprofile")
    /\ LET x == Job(c) IN
          Go(c, x.p \in Live /\ x.r = x.p, <<[j |-> "jset", s |-> x.s, e |-> [p |-> x.p, name |-> profile[x.p].name, ip |-> x.ip]]>>)
    /\ UNCHANGED <<playState, banState, fwdState, joined, last, env>>
\* set_join_session: one entry for a server, the latest join wins
JoinSet(c) ==
    /\ At(c, "jset") /\ Stop(c)
    /\ joined' = [joined EXCEPT ![Job(c).s] = Job(c).e]
    /\ UNCHANGED <<playState, banState, fwdState, last, env>>

-----------------------------------------------------------------------------
(* hasJoined.                                                              *)

Answer(c, x, s) == Then(c, <<[j |-> "answer", q |-> x.q, all |-> x.all, who |-> s]>>)
Nobody == [via |-> "none", id |-> None]
\* With a list, one upstream after the other; without one, the local check alone.
Survey(c, q, l) ==
    Then(c, <<[j |-> IF l = {} THEN "lget" ELSE "next", q |-> q, all |-> l, rest |-> l, f |-> None]>>)
ListHit(c) ==
    /\ At(c, "list")
    /\ IF list # None THEN Survey(c, Job(c).q, list) ELSE Then(c, <<[Job(c) EXCEPT !.j = "lread"]>>)
    /\ UNCHANGED <<playState, banState, fwdState, joined, last, env>>
ListRead(c) ==
    /\ At(c, "lread")
    /\ Then(c, <<[j |-> "lfill", q |-> Job(c).q, l |-> Enabled]>>)
    /\ UNCHANGED <<playState, banState, fwdState, joined, last, env>>
ListFill(c) ==
    /\ At(c, "lfill")
    /\ list' = Job(c).l /\ Survey(c, Job(c).q, Job(c).l)
    /\ UNCHANGED <<playState, banState, fwd, joined, last, env>>

\* weighted_forward_order: by priority, any order among equals
Foremost(rest) == {r \in rest : \A o \in rest : r.prio <= o.prio}
\* No session here, or no answer: the next upstream, or the end of a local check without
\* upstreams.  What mark_success and mark_failure note down is for the administrator's eyes only.
Onward(c, x) ==
    IF x.f = None THEN Answer(c, x, Nobody)
    ELSE Then(c, <<[j |-> "next", q |-> x.q, all |-> x.all, rest |-> x.rest, f |-> x.f]>>)
NextUpstream(c) ==
    /\ At(c, "next")
    /\ LET x == Job(c) IN
          IF x.rest = {} THEN Answer(c, x, Nobody)
          ELSE \E r \in Foremost(x.rest) :
                  Then(c, <<[x EXCEPT !.j = IF r.kind = "local" THEN "lget" ELSE "call", !.f = r.id, !.rest = @ \ {r}]>>)
    /\ UNCHANGED <<playState, banState, fwdState, joined, last, env>>

Fits(e, q) == e # None /\ e.name = q.name /\ (q.ip # None => e.ip = q.ip)
LocalGet(c) ==
    /\ At(c, "lget")
    /\ LET x == Job(c) IN
          IF Fits(joined[x.q.s], x.q)
          THEN Then(c, <<[j |-> "lprofile", q |-> x.q, all |-> x.all, rest |-> x.rest, f |-> x.f, p |-> joined[x.q.s].p]>>)
          ELSE Onward(c, x)
    /\ UNCHANGED <<playState, banState, fwdState, joined, last, env>>
\* find_by_id fails on a deleted profile: the request fails, or the next upstream is asked.
LocalProfile(c) ==
    /\ At(c, "lprofile")
    /\ LET x == Job(c) IN
          IF x.p \in Live
          THEN Then(c, <<[j |-> "lban", q |-> x.q, all |-> x.all, rest |-> x.rest, f |-> x.f, p |-> x.p, u |-> profile[x.p].owner]>>)
          ELSE IF x.f = None THEN Stop(c) ELSE Onward(c, x)
    /\ UNCHANGED <<playState, banState, fwdState, joined, last, env>>
\* Mutant: a recorded join is enough.
LocalTrusts(c) ==
    /\ At(c, "lban")
    /\ LET x == Job(c) IN Answer(c, x, [via |-> "local", id |-> x.p])
    /\ UNCHANGED <<playState, banState, fwdState, joined, last, env>>
LocalBan(c) ==
    /\ At(c, "lban")
    /\ LET x == Job(c) IN IF Banned(x.u, "join") THEN Onward(c, x) ELSE Answer(c, x, [via |-> "local", id |-> x.p])
    /\ UNCHANGED <<playState, banState, fwdState, joined, last, env>>

\* query_forward_server: no session and a failure lead on, a profile ends the search
CallUpstream(c) ==
    /\ At(c, "call")
    /\ LET x == Job(c) mojang == \E r \in x.all : r.id = x.f /\ r.kind = "mojang" IN
          \/ Onward(c, x)
          \/ IF mojang
             THEN \E m \in Official : Then(c, <<[j |-> "bound", q |-> x.q, all |-> x.all, rest |-> x.rest, f |-> x.f, m |-> m]>>)
             ELSE Answer(c, x, [via |-> "authlib", id |-> None])
    /\ UNCHANGED <<playState, banState, fwdState, joined, last, env>>
\* forwarded_mojang_profile_is_bound: an official account enters once it is bound to a profile here
CheckBound(c) ==
    /\ At(c, "bound")
    /\ LET x == Job(c) IN IF Bound(x.m) THEN Answer(c, x, [via |-> "mojang", id |-> x.m]) ELSE Onward(c, x)
    /\ UNCHANGED <<playState, banState, fwdState, joined, last, env>>
Reply(c) ==
    /\ At(c, "answer") /\ Stop(c)
    /\ UNCHANGED <<playState, banState, fwdState, joined, last, env>>

-----------------------------------------------------------------------------
(* Bans.                                                                   *)

Said(r) == [status |-> r.status, scopes |-> r.scopes, end |-> r.end]
\* reject_duplicate_effective_scopes
Duplicate(u, scopes, except) == \E s \in scopes : BansOn(u, s) \ except # {}
BanCheck(c) ==
    /\ At(c, "bcheck")
    /\ LET r == Job(c).r start == now + r.later IN
          Go(c, r.user \in Members /\ r.end > start /\ r.scopes # {} /\ ~ Duplicate(r.user, r.scopes, {}) /\ last.ban < MaxBan,
             <<[j |-> "bcreate", r |-> [user |-> r.user, scopes |-> r.scopes, status |-> "active", start |-> start, end |-> r.end]]>>)
    /\ UNCHANGED <<playState, banState, fwdState, joined, last, env>>
\* One transaction: the ban and its event.
BanCreate(c) ==
    /\ At(c, "bcreate") /\ Stop(c)
    /\ IF last.ban = MaxBan THEN UNCHANGED <<banState, last>>
       ELSE LET b == last.ban + 1 r == Job(c).r IN
          /\ ban' = [ban EXCEPT ![b] = r]
          /\ log' = [log EXCEPT ![b] = <<[type |-> "created", prev |-> None, next |-> Said(r)]>>]
          /\ last' = [last EXCEPT !.ban = b]
    /\ UNCHANGED <<playState, fwdState, joined, env>>

\* An update is made of what differs from the row that was read; only an effective ban may change.
BanRead(c) ==
    /\ At(c, "bread")
    /\ LET x == Job(c) old == ban[x.b] start == IF x.r.later = 1 THEN now + 1 ELSE old.start IN
          Go(c, /\ Effective(x.b) /\ Len(log[x.b]) < MaxEvent
                /\ x.r.end > start
                /\ x.r.scopes # {}
                /\ x.r.scopes # old.scopes => ~ Duplicate(old.user, x.r.scopes, {x.b}),
             <<[j |-> "bupdate", b |-> x.b, old |-> old, scopes |-> x.r.scopes, start |-> start, end |-> x.r.end]>>)
    /\ UNCHANGED <<playState, banState, fwdState, joined, last, env>>
\* Mutant: the whole row is written as it was read.
BanUpdateWhole(c) ==
    /\ At(c, "bupdate") /\ Stop(c)
    /\ LET x == Job(c) new == [x.old EXCEPT !.scopes = x.scopes, !.end = x.end, !.start = x.start] IN
          /\ ban' = [ban EXCEPT ![x.b] = new]
          /\ log' = [log EXCEPT ![x.b] = Append(@, [type |-> "updated", prev |-> Said(x.old), next |-> Said(new)])]
    /\ UNCHANGED <<playState, fwdState, joined, last, env>>
\* The statement sets the changed columns; the event tells the row it returns.
BanUpdate(c) ==
    /\ At(c, "bupdate") /\ Stop(c)
    /\ LET x == Job(c)
           new == [ban[x.b] EXCEPT !.start = IF x.start # x.old.start THEN x.start ELSE @,
                                   !.scopes = IF x.scopes # x.old.scopes THEN x.scopes ELSE @,
                                   !.end = IF x.end # x.old.end THEN x.end ELSE @] IN
          /\ ban' = [ban EXCEPT ![x.b] = new]
          /\ log' = [log EXCEPT ![x.b] = Append(@, [type |-> "updated", prev |-> Said(x.old), next |-> Said(new)])]
    /\ UNCHANGED <<playState, fwdState, joined, last, env>>

RevokeRead(c) ==
    /\ At(c, "rread")
    /\ LET b == Job(c).b IN Go(c, Effective(b), <<[j |-> "revoke", b |-> b, old |-> ban[b]]>>)
    /\ UNCHANGED <<playState, banState, fwdState, joined, last, env>>
BanRevoke(c) ==
    /\ At(c, "revoke") /\ Stop(c)
    /\ LET x == Job(c) new == [ban[x.b] EXCEPT !.status = "revoked"] IN
          /\ ban' = [ban EXCEPT ![x.b] = new]
          /\ log' = [log EXCEPT ![x.b] = Append(@, [type |-> "revoked", prev |-> Said(x.old), next |-> Said(new)])]
    /\ UNCHANGED <<playState, fwdState, joined, last, env>>

-----------------------------------------------------------------------------
(* Forwarding servers.                                                     *)

UrlTaken(u, except) == u # None /\ \E f \in FwdIds \ except : fwd[f] # None /\ fwd[f].url = u
\* idx_yggdrasil_session_forward_base_url rejects the second of two that both saw the address free.
FwdCheck(c) ==
    /\ At(c, "fcheck")
    /\ Go(c, ~ UrlTaken(Job(c).r.url, {}), <<[j |-> "finsert", r |-> Job(c).r]>>)
    /\ UNCHANGED <<playState, banState, fwdState, joined, last, env>>
FwdInsert(c) ==
    /\ At(c, "finsert")
    /\ LET ok == ~ UrlTaken(Job(c).r.url, {}) /\ last.fwd < MaxFwd IN
          /\ Go(c, ok, <<[j |-> "flush"]>>)
          /\ IF ok THEN fwd' = [fwd EXCEPT ![last.fwd + 1] = Job(c).r] /\ last' = [last EXCEPT !.fwd = @ + 1]
             ELSE UNCHANGED <<fwd, last>>
    /\ UNCHANGED <<playState, banState, list, joined, env>>
\* A built-in server keeps its address and its kind.
FwdRead(c) ==
    /\ At(c, "fread")
    /\ LET x == Job(c) IN
          Go(c, /\ fwd[x.f] # None
                /\ fwd[x.f].builtin => x.e.field \notin {"url", "kind"}
                /\ x.e.field = "url" => ~ UrlTaken("u2", {x.f}),
             <<[x EXCEPT !.j = "fupdate"]>>)
    /\ UNCHANGED <<playState, banState, fwdState, joined, last, env>>
Edited(r, e) ==
    CASE e.field = "on" -> [r EXCEPT !.on = (e.val = 1)]
      [] e.field = "prio" -> [r EXCEPT !.prio = e.val]
      [] e.field = "url" -> [r EXCEPT !.url = "u2"]
      [] e.field = "kind" -> [r EXCEPT !.kind = IF e.val = 1 THEN "mojang" ELSE "authlib"]
\* Only the columns of the request; the row may be gone, the address taken.
FwdUpdate(c) ==
    /\ At(c, "fupdate")
    /\ LET x == Job(c) ok == fwd[x.f] # None /\ (x.e.field = "url" => ~ UrlTaken("u2", {x.f})) IN
          /\ Go(c, ok, <<[j |-> "flush"]>>)
          /\ fwd' = IF ok THEN [fwd EXCEPT ![x.f] = Edited(@, x.e)] ELSE fwd
    /\ UNCHANGED <<playState, banState, list, joined, last, env>>
FwdFind(c) ==
    /\ At(c, "ffind")
    /\ LET f == Job(c).f IN Go(c, fwd[f] # None /\ ~ fwd[f].builtin, <<[j |-> "fdelete", f |-> f]>>)
    /\ UNCHANGED <<playState, banState, fwdState, joined, last, env>>
FwdDelete(c) ==
    /\ At(c, "fdelete") /\ Then(c, <<[j |-> "flush"]>>)
    /\ fwd' = [fwd EXCEPT ![Job(c).f] = None]
    /\ UNCHANGED <<playState, banState, list, joined, last, env>>
\* invalidate_session_forward_server_cache
FwdFlush(c) ==
    /\ At(c, "flush") /\ Stop(c)
    /\ list' = None
    /\ UNCHANGED <<playState, banState, fwd, joined, last, env>>

-----------------------------------------------------------------------------
(* Profiles.                                                               *)

\* create_profile_for_external_auth takes the first free name, and the last one even if it is taken.
ChooseName(c) ==
    /\ At(c, "auto")
    /\ LET x == Job(c) n == Head(x.names) IN
          \E v \in LoginFound(n) :
             IF Len(x.names) > 1 /\ NameTaken(n, x.u, {}, v) THEN Then(c, <<[x EXCEPT !.names = Tail(@)]>>)
             ELSE Then(c, <<[j |-> "cban", u |-> x.u, n |-> n, m |-> None]>>)
    /\ UNCHANGED <<playState, banState, fwdState, joined, last, env>>
\* create_profile_with_uuid_in_connection_inner, with the UUID of an official account m or a new one
CreateBan(c) ==
    /\ At(c, "cban")
    /\ Go(c, ~ Banned(Job(c).u, "manage"), <<[Job(c) EXCEPT !.j = "ccount"]>>)
    /\ UNCHANGED <<playState, banState, fwdState, joined, last, env>>
CreateCount(c) ==
    /\ At(c, "ccount")
    /\ Go(c, Count(Job(c).u) < MaxProfiles, <<[Job(c) EXCEPT !.j = "ctaken"]>>)
    /\ UNCHANGED <<playState, banState, fwdState, joined, last, env>>
\* Mutant: only the names of profiles are looked at.
TakenByProfile(c) ==
    /\ At(c, "ctaken")
    /\ Go(c, Named(Job(c).n) = {}, <<[Job(c) EXCEPT !.j = "cinsert"]>>)
    /\ UNCHANGED <<playState, banState, fwdState, joined, last, env>>
CreateTaken(c) ==
    /\ At(c, "ctaken")
    /\ LET x == Job(c) IN
          \E v \in LoginFound(x.n) :
             Go(c, (x.m # None => WithUuid(x.m) = {}) /\ ~ NameTaken(x.n, x.u, {}, v), <<[x EXCEPT !.j = "cinsert"]>>)
    /\ UNCHANGED <<playState, banState, fwdState, joined, last, env>>
Fresh(u, n, src, x) == [owner |-> u, name |-> n, source |-> src, uuid |-> x, renames |-> 0]
\* idx_minecraft_profiles_normalized_name_unique and idx_minecraft_profiles_uuid_unique
CreateInsert(c) ==
    /\ At(c, "cinsert") /\ Stop(c)
    /\ LET x == Job(c) p == last.profile + 1 IN
          IF Named(x.n) = {} /\ (x.m # None => WithUuid(x.m) = {}) /\ p <= MaxProfile
          THEN /\ profile' = [profile EXCEPT ![p] = IF x.m = None THEN Fresh(x.u, x.n, "local", p) ELSE Fresh(x.u, x.n, "microsoft", x.m)]
               /\ last' = [last EXCEPT !.profile = p]
          ELSE UNCHANGED <<profile, last>>
    /\ UNCHANGED <<login, token, summary, banState, fwdState, joined, env>>

RenameBan(c) ==
    /\ At(c, "nban")
    /\ LET x == Job(c) IN Go(c, x.p \in Live /\ ~ Banned(profile[x.p].owner, "manage"), <<[x EXCEPT !.j = "nread"]>>)
    /\ UNCHANGED <<playState, banState, fwdState, joined, last, env>>
RenameRead(c) ==
    /\ At(c, "nread")
    /\ LET x == Job(c) IN
          Go(c, /\ x.p \in Live
                /\ profile[x.p].name # x.n
                /\ profile[x.p].source = "local"
                /\ profile[x.p].renames < MaxRenames,
             <<[j |-> "ntaken", p |-> x.p, n |-> x.n, old |-> profile[x.p]]>>)
    /\ UNCHANGED <<playState, banState, fwdState, joined, last, env>>
RenameTaken(c) ==
    /\ At(c, "ntaken")
    /\ LET x == Job(c) IN
          \E v \in LoginFound(x.n) : Go(c, ~ NameTaken(x.n, x.old.owner, {x.p}, v), <<[x EXCEPT !.j = "ncommit"]>>)
    /\ UNCHANGED <<playState, banState, fwdState, joined, last, env>>
\* One transaction: the name, the count and the suspension of the tokens.
RenameCommit(c) ==
    /\ At(c, "ncommit")
    /\ LET x == Job(c) ok == x.p \in Live /\ Named(x.n) \ {x.p} = {} IN
          /\ Go(c, ok, <<[j |-> "drop", n |-> x.old.name], [j |-> "drop", n |-> x.n]>>)
          /\ IF ok THEN /\ profile' = [profile EXCEPT ![x.p].name = x.n, ![x.p].renames = @ + 1]
                        /\ token' = [token EXCEPT ![x.p] = IF @ = "ok" THEN "paused" ELSE @]
             ELSE UNCHANGED <<profile, token>>
    /\ UNCHANGED <<login, summary, banState, fwdState, joined, last, env>>
\* invalidate_profile_name_summary_cache, of the old name and of the new one
DropSummary(c) ==
    /\ At(c, "drop") /\ Then(c, <<>>)
    /\ summary' = [summary EXCEPT ![Norm[Job(c).n]] = None]
    /\ UNCHANGED <<profile, login, token, banState, fwdState, joined, last, env>>

\* delete_profile_for_user, by its owner or by an administrator; official profiles stay
DeleteRead(c) ==
    /\ At(c, "dread")
    /\ LET p == Job(c).p IN
          Go(c, p \in Live /\ ~ Banned(profile[p].owner, "manage") /\ profile[p].source = "local", <<[j |-> "drevoke", p |-> p], [j |-> "drow", p |-> p]>>)
    /\ UNCHANGED <<playState, banState, fwdState, joined, last, env>>
DeleteRevoke(c) ==
    /\ At(c, "drevoke") /\ Then(c, <<>>)
    /\ token' = [token EXCEPT ![Job(c).p] = "none"]
    /\ UNCHANGED <<profile, login, summary, banState, fwdState, joined, last, env>>
DeleteRow(c) ==
    /\ At(c, "drow") /\ Stop(c)
    /\ profile' = [profile EXCEPT ![Job(c).p] = None]
    /\ UNCHANGED <<login, token, summary, banState, fwdState, joined, last, env>>

\* profiles_by_names: a cached summary, or the row and then the cache
LookUp(c) ==
    /\ At(c, "look")
    /\ LET n == Job(c).n IN
          IF summary[Norm[n]] # None \/ Named(n) = {} THEN Stop(c)
          ELSE \E p \in Named(n) : Then(c, <<[j |-> "fill", p |-> p, n |-> n]>>)
    /\ UNCHANGED <<playState, banState, fwdState, joined, last, env>>
FillSummary(c) ==
    /\ At(c, "fill") /\ Stop(c)
    /\ summary' = [summary EXCEPT ![Norm[Job(c).n]] = Job(c).p]
    /\ UNCHANGED <<profile, login, token, banState, fwdState, joined, last, env>>

-----------------------------------------------------------------------------
(* Login names.                                                            *)

\* ensure_username_available, for a new user and for the user who is renamed
UsernameCheck(c) ==
    /\ At(c, "ucheck")
    /\ LET x == Job(c) IN
          \E v \in LoginFound(x.n) :
             Go(c, ~ UsernameTaken(x.n, x.u, v), <<[x EXCEPT !.j = IF x.u = None THEN "uinsert" ELSE "uupdate"]>>)
    /\ UNCHANGED <<playState, banState, fwdState, joined, last, env>>
\* idx_users_username_unique tells names that differ in case apart.
LoginUsed(n, u) == \E v \in Users \ {u} : login[v] = n
UserInsert(c) ==
    /\ At(c, "uinsert") /\ Stop(c)
    /\ LET n == Job(c).n IN
          IF LoginUsed(n, None) \/ Members = Users THEN UNCHANGED login
          ELSE \E u \in Users \ Members : login' = [login EXCEPT ![u] = n]
    /\ UNCHANGED <<profile, token, summary, banState, fwdState, joined, last, env>>
UserRename(c) ==
    /\ At(c, "uupdate") /\ Stop(c)
    /\ LET x == Job(c) IN login' = IF LoginUsed(x.n, x.u) THEN login ELSE [login EXCEPT ![x.u] = x.n]
    /\ UNCHANGED <<profile, token, summary, banState, fwdState, joined, last, env>>

-----------------------------------------------------------------------------
(* Time and failures.                                                      *)

Tick ==
    /\ load.time /\ now < MaxTime /\ now' = now + 1
    /\ UNCHANGED <<playState, banState, fwdState, joined, last, todo, load, faults>>
ExpireJoin(s) ==
    /\ joined[s] # None /\ joined' = [joined EXCEPT ![s] = None]
    /\ UNCHANGED <<playState, banState, fwdState, last, todo, env>>
ExpireList ==
    /\ list # None /\ list' = None
    /\ UNCHANGED <<playState, banState, fwd, joined, last, todo, env>>
ExpireSummary(n) ==
    /\ summary[n] # None /\ summary' = [summary EXCEPT ![n] = None]
    /\ UNCHANGED <<profile, login, token, banState, fwdState, joined, last, todo, env>>
Fails == faults > 0 /\ faults' = faults - 1
\* The process stops, the client hangs up, or a statement fails and the request with it.
Lose(c) ==
    /\ todo[c] # <<>> /\ ~ At(c, "answer") /\ Fails /\ Stop(c)
    /\ UNCHANGED <<playState, banState, fwdState, joined, last, now, load>>
\* The profile, its owner's bans or its properties cannot be read: with a list of upstreams
\* local_has_joined has failed like any of them, and the next one is asked.
LocalFails(c) ==
    /\ (At(c, "lprofile") \/ At(c, "lban")) /\ Job(c).f # None /\ Fails /\ Onward(c, Job(c))
    /\ UNCHANGED <<playState, banState, fwdState, joined, last, now, load>>
\* A cache that does not answer is a miss, and what it was to store or forget is left as it is.
CacheFails(c) ==
    /\ Fails
    /\ \/ At(c, "list") /\ Then(c, <<[Job(c) EXCEPT !.j = "lread"]>>)
       \/ At(c, "lfill") /\ Survey(c, Job(c).q, Job(c).l)
       \/ At(c, "lget") /\ Onward(c, Job(c))
       \/ At(c, "drop") /\ Then(c, <<>>)
       \/ \E p \in ProfileIds : At(c, "look") /\ p \in Named(Job(c).n) /\ Then(c, <<[j |-> "fill", p |-> p, n |-> Job(c).n]>>)
    /\ UNCHANGED <<playState, banState, fwdState, joined, last, now, load>>

-----------------------------------------------------------------------------
(* History.                                                                *)

\* what keeps players out right now: a profile that is gone, a ban, an official account that is not bound
StayOut ==
    {<<"gone", p>> : p \in ProfileIds \ Live} \cup {<<"banned", u>> : u \in {v \in Users : Banned(v, "join")}}
    \cup {<<"unbound", m>> : m \in {o \in Official : ~ Bound(o)}}
\* the player asked about has joined, exists and is not banned
HasJoined(q) ==
    /\ Fits(joined[q.s], q)
    /\ joined[q.s].p \in Live /\ ~ Banned(profile[joined[q.s].p].owner, "join")
Player(q) == IF HasJoined(q) THEN joined[q.s].p ELSE None
\* the names a request has found free and takes with its next statement
Claims(c) ==
    IF \E j \in {"cinsert", "ncommit", "uinsert", "uupdate"} : At(c, j) THEN {Norm[Job(c).n]} ELSE {}
Contested == {n \in Names : \E c, d \in Clients : c # d /\ n \in Claims(c) /\ n \in Claims(d)}
Observe ==
    /\ shut' = [c \in Clients |-> IF At(c, "list")' THEN StayOut' ELSE IF todo'[c] = <<>> THEN {} ELSE shut[c] \cap StayOut']
    /\ sure' = [c \in Clients |-> IF At(c, "list")' THEN Player(Job(c).q)'
                                  ELSE IF /\ todo'[c] # <<>> /\ sure[c] # None /\ Player(Job(c).q)' = sure[c]
                                          /\ faults' = faults \/ todo'[c] = todo[c]
                                       THEN sure[c] ELSE None]
    /\ raced' = raced \cup Contested'

-----------------------------------------------------------------------------
Request(c) ==
    \/ SignIn(c) \/ Join(c) \/ Ask(c) \/ CreateUserBan(c) \/ UpdateUserBan(c) \/ RevokeUserBan(c)
    \/ CreateServer(c) \/ UpdateServer(c) \/ DeleteServer(c) \/ CreateMinecraftProfile(c) \/ BindOfficialProfile(c)
    \/ AutoCreateProfile(c)
    \/ RenameMinecraftProfile(c) \/ AdminRenameProfile(c) \/ DeleteMinecraftProfile(c) \/ ProfilesByNames(c)
    \/ RegisterUser(c) \/ UpdateUsername(c)
Statement(c) ==
    \/ Authenticate(c) \/ JoinToken(c) \/ JoinBan(c) \/ JoinProfile(c) \/ JoinSet(c)
    \/ ListHit(c) \/ ListRead(c) \/ ListFill(c) \/ NextUpstream(c) \/ LocalGet(c) \/ LocalProfile(c) \/ LocalBan(c)
    \/ CallUpstream(c) \/ CheckBound(c) \/ Reply(c)
    \/ BanCheck(c) \/ BanCreate(c) \/ BanRead(c) \/ BanUpdate(c) \/ RevokeRead(c) \/ BanRevoke(c)
    \/ FwdCheck(c) \/ FwdInsert(c) \/ FwdRead(c) \/ FwdUpdate(c) \/ FwdFind(c) \/ FwdDelete(c) \/ FwdFlush(c)
    \/ ChooseName(c) \/ CreateBan(c) \/ CreateCount(c) \/ CreateTaken(c) \/ CreateInsert(c)
    \/ RenameBan(c) \/ RenameRead(c) \/ RenameTaken(c) \/ RenameCommit(c) \/ DropSummary(c)
    \/ DeleteRead(c) \/ DeleteRevoke(c) \/ DeleteRow(c) \/ LookUp(c) \/ FillSummary(c)
    \/ UsernameCheck(c) \/ UserInsert(c) \/ UserRename(c)
Step ==
    \/ \E c \in Clients : Request(c) \/ Statement(c) \/ Lose(c) \/ LocalFails(c) \/ CacheFails(c)
    \/ Tick \/ ExpireList
    \/ \E s \in Servers : ExpireJoin(s)
    \/ \E n \in Names : ExpireSummary(n)
Next == Step /\ Observe
Spec == Init /\ [][Next]_vars

-----------------------------------------------------------------------------
Quiet == \A c \in Clients : todo[c] = <<>>

(* The tables and the caches have their types.                             *)
TypeOK ==
    /\ profile \in [ProfileIds -> Profile \cup {None}] /\ login \in [Users -> Names \cup {None}]
    /\ token \in [ProfileIds -> {"none", "ok", "paused"}]
    /\ ban \in [BanIds -> Ban \cup {None}] /\ \A b \in BanIds : \A n \in DOMAIN log[b] : log[b][n] \in Event
    /\ fwd \in [FwdIds -> Fwd \cup {None}]
    /\ joined \in [Servers -> Entry \cup {None}] /\ summary \in [Names -> ProfileIds \cup {None}]
    /\ now \in 0..MaxTime /\ faults \in Nat

(* A server that asks about a player who was banned before the question    *)
(* came and since, or whose profile was deleted before, is not told yes on *)
(* the strength of the join in the cache: local_has_joined reads both      *)
(* again, and when it cannot read them it does not say yes either.  Only   *)
(* of the local check: a banned user who owns a bound official account     *)
(* enters on Mojang's word, since forwarded_mojang_profile_is_bound looks  *)
(* at the source of the profile and not at its owner's bans.               *)
BannedStaysOut ==
    \A c \in Clients : At(c, "answer") /\ Job(c).who.via = "local" =>
        LET p == Job(c).who.id IN
        /\ <<"gone", p>> \notin shut[c]
        /\ p \in Live => <<"banned", profile[p].owner>> \notin shut[c]

(* Mojang's word lets an official account in only if it is bound to a      *)
(* profile on this site (requires_bound_microsoft_profile).                *)
OfficialIsBound ==
    \A c \in Clients : At(c, "answer") /\ Job(c).who.via = "mojang" => <<"unbound", Job(c).who.id>> \notin shut[c]

(* A player who has joined is found, whatever the upstreams before the     *)
(* local check answer and however they fail, unless a statement of this    *)
(* very request failed: with a list of upstreams a local check that could  *)
(* not read its tables is a failed upstream, and the answer may be "no     *)
(* session".                                                               *)
JoinedIsFound ==
    \A c \in Clients : At(c, "answer") /\ Job(c).who = Nobody /\ sure[c] # None =>
        Job(c).all # {} /\ ~ \E r \in Job(c).all : r.kind = "local"

(* The last event of a ban tells the ban as it is, also when two           *)
(* administrators changed it at once; with one at a time every event       *)
(* begins where the one before it ended.  A ban that was ever revoked      *)
(* stays so, although an edit may write what it read before.               *)
LogTellsBan ==
    \A b \in BanIds : ban[b] # None =>
        /\ log[b] # <<>> /\ log[b][Len(log[b])].next = Said(ban[b])
        /\ \A n \in DOMAIN log[b] : log[b][n].next.status = "revoked" => ban[b].status = "revoked"
        /\ load.serial => \A n \in 2..Len(log[b]) : log[b][n].prev = log[b][n - 1].next

(* A profile's name is its own: no other profile has it, in any case, and  *)
(* no other user logs in with it; nor do two users log in with names that  *)
(* differ in case only.  No index spans users and profiles, so all but the *)
(* first is the work of the checks (profile_name_taken and                 *)
(* ensure_username_available), and is lost only for a name that two        *)
(* requests had both found free before either of them wrote it.            *)
NamesAreOwn ==
    /\ \A p \in Live : Named(profile[p].name) = {p}
    /\ \A p \in Live : LoginsNamed(profile[p].name) \ {profile[p].owner} # {} => Norm[profile[p].name] \in raced
    /\ \A u \in Members : LoginsNamed(login[u]) # {u} => Norm[login[u]] \in raced

(* One request at a time: a cached list of upstreams is the list, and a    *)
(* cached name belongs to the profile that bears it or bore it last.       *)
CachesAreFresh ==
    load.serial /\ Quiet /\ faults = load.faults =>
        /\ list # None => list = Enabled
        /\ \A n \in Names : summary[n] # None /\ summary[n] \in Live => Norm[profile[summary[n]].name] = n

(* One request at a time: no user has more profiles than allowed, and no   *)
(* profile was renamed more often than allowed.                            *)
WithinQuota ==
    load.serial => /\ \A u \in Users : Count(u) <= MaxProfiles
                   /\ \A p \in Live : profile[p].renames <= MaxRenames


(* hasJoined answers as it should: its local check lets in nobody who is   *)
(* banned or gone, Mojang's word nobody who is not bound, and everybody    *)
(* who has joined is found unless a statement of the request failed.       *)
AnswerIsRight == BannedStaysOut /\ OfficialIsBound /\ JoinedIsFound

(* Names, quotas and caches agree with the tables.                         *)
ProfilesConsistent == TypeOK /\ NamesAreOwn /\ WithinQuota /\ CachesAreFresh
==============================================================================
