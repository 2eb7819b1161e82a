------------------------------ MODULE Challenges ------------------------------
(***************************************************************************)
(* What a visitor has to answer: passkey challenges (passkey_service) and  *)
(* visual captchas (captcha_service).  A challenge waits in the cache under *)
(* the number of the request that asked for it.                            *)
(*                                                                         *)
(* A request runs in steps that end where the code waits for the cache or  *)
(* the database.  The authenticator is external: a credential keeps the    *)
(* user handle it was made for and a counter, and an answer names the      *)
(* challenge it signs.                                                     *)
(***************************************************************************)
EXTENDS Integers, FiniteSets

CONSTANTS
    Persons,     \* users
    Creds,       \* credentials authenticators can make
    NoOne,       \* no user named
    Workloads    \* what each behaviour starts with and who asks for what

Requirements == {"login", "register", "invitation_accept", "register_activation_resend"}
Steps == {"new", "list", "store", "take", "user", "find", "insert", "update", "reread", "delete", "issue",
          "drop", "drop passed", "drop failed", "again", "passed", "failed", "done", "refused"}

\* What a visitor sends; a passkey row; a workload.
Sent == [op: STRING, user: Persons \cup {NoOne}, of: Nat, cred: Creds, signs: Nat, count: Nat, verified: BOOLEAN,
            discoverable: BOOLEAN, name: STRING, right: BOOLEAN, need: Requirements]
Row == [user: Persons, cred: Creds, handle: Nat, count: Nat, used: BOOLEAN, name: STRING]

\* The passkeys a behaviour starts with are numbered, as are their handles; max_attempts is
\* normalised to at least 1 (MIN_AUTH_CAPTCHA_MAX_ATTEMPTS).
ASSUME ChallengesAssumption ==
    /\ NoOne \notin Persons
    /\ \A l \in Workloads :
         /\ IsFiniteSet(DOMAIN l.jobs) /\ DOMAIN l.jobs \subseteq Nat
         /\ \A j \in DOMAIN l.jobs :
              l.jobs[j] \in Sent /\ (l.jobs[j].op = "finish registration" => l.jobs[j].user \in Persons)
         /\ IsFiniteSet(DOMAIN l.keys) /\ DOMAIN l.keys = 1 .. Cardinality(DOMAIN l.keys)
         /\ l.keys = [i \in DOMAIN l.keys |-> l.keys[i]]
         /\ \A i \in DOMAIN l.keys : l.keys[i] \in Row /\ l.keys[i].handle = i
         /\ \A i, k \in DOMAIN l.keys : l.keys[i].cred = l.keys[k].cred => i = k
         /\ l.max_attempts \in Nat \ {0}

VARIABLES
    load,
    user,      \* users: user -> [active, activated]
    keys,      \* passkeys: id -> row
    next,      \* the next passkey id and user handle
    chal,      \* passkey challenges in the cache: request -> challenge
    cap,       \* captchas in the cache: request -> [attempts, max_attempts]
    aged,      \* captchas past expires_at
    enabled,   \* auth_allow_local_login and auth_passkey_login_enabled
    device,    \* authenticators: credential -> user handle
    request,   \* requests: step and what they hold
    owner,     \* history: the user a handle was made for
    tangled    \* history: passkeys and captchas two requests were working on at once

challengeVars == <<load, user, keys, next, chal, cap, aged, enabled, device, request, owner, tangled>>
accounts == <<user, enabled>>
captchas == <<cap, aged>>
passkeys == <<keys, next, chal, device, owner>>

Jobs == DOMAIN load.jobs
Ask(j) == load.jobs[j]
None == [k \in {} |-> 0]
With(f, k, v) == [x \in DOMAIN f \cup {k} |-> IF x = k THEN v ELSE f[x]]
Passkey(u, c, h, n, name) == [user |-> u, cred |-> c, handle |-> h, count |-> n, used |-> FALSE, name |-> name]

ChallengeInit ==
    /\ load \in Workloads
    /\ user = load.users
    /\ keys = load.keys
    /\ next = [id |-> Cardinality(DOMAIN load.keys) + 1, handle |-> Cardinality(DOMAIN load.keys) + 1]
    /\ chal = None /\ cap = None /\ aged = {} /\ enabled = TRUE
    /\ device = [c \in {load.keys[i].cred : i \in DOMAIN load.keys} |->
                   (CHOOSE i \in DOMAIN load.keys : load.keys[i].cred = c)]
    /\ request = [j \in Jobs |-> [at |-> "new", key |-> 0, handle |-> 0, row |-> {}, chal |-> {}]]
    /\ owner = [h \in DOMAIN load.keys |-> load.keys[h].user]
    /\ tangled = {}

-----------------------------------------------------------------------------
(* Requests.                                                               *)

At(j, op, s) == Ask(j).op = op /\ request[j].at = s
To(j, s) == request' = [request EXCEPT ![j].at = s]
Signed(j) == user[Ask(j).user].active
\* Requests between reading a passkey or a captcha and writing it back.
Working == {<<"key", j>> : j \in {i \in Jobs : Ask(i).op = "finish login" /\ request[i].at \in {"user", "update"}}}
             \cup {<<"captcha", j>> : j \in {i \in Jobs : request[i].at \in {"drop", "drop passed", "drop failed", "again"}}}
On(w) == IF w[1] = "key" THEN <<"key", request[w[2]].key>> ELSE <<"captcha", Ask(w[2]).of>>
Watch ==
    /\ UNCHANGED load
    /\ tangled' = tangled \cup {On(w)' : w \in {v \in Working' : \E x \in Working' : x # v /\ On(x)' = On(v)'}}

\* routes: the passkey requests of a signed-in user and of a visitor
start_passkey_registration(j) == At(j, "start registration", "new")
finish_passkey_registration(j) == At(j, "finish registration", "new")
rename_passkey(j) == At(j, "rename", "new")
delete_passkey(j) == At(j, "delete", "new")
start_passkey_login(j) == At(j, "start login", "new")
finish_passkey_login(j) == At(j, "finish login", "new")
issue_captcha(j) == At(j, "issue captcha", "new")

list_for_user(u) == {i \in DOMAIN keys : keys[i].user = u}
find_by_id_for_user(i, u) == i \in list_for_user(u)
find_by_credential_id(c) == {i \in DOMAIN keys : keys[i].cred = c}
find_by_user_handle_and_credential_id(h, c) == {i \in find_by_credential_id(c) : keys[i].handle = h}

-----------------------------------------------------------------------------
(* Registration of a passkey.                                              *)

\* Too long a name, or one with control characters, is refused.
normalize_passkey_name(name) == name # "too long"

start_registration(j) ==
    /\ start_passkey_registration(j)
    /\ To(j, IF load.https /\ Signed(j) THEN "list" ELSE "refused")
    /\ UNCHANGED <<accounts, captchas, passkeys>>

\* All passkeys of a user share one handle: that of the first, or a new one. Handles are listed by
\* the last use, so that any of the user's is the first.
user_handle_for_registration(j) ==
    /\ At(j, "start registration", "list")
    /\ LET mine == {keys[i].handle : i \in list_for_user(Ask(j).user)} IN
         \E h \in IF mine = {} THEN {next.handle} ELSE mine :
           /\ request' = [request EXCEPT ![j].at = "store",
                                 ![j].chal = {[user |-> Ask(j).user, handle |-> h, ident |-> NoOne]}]
           /\ next' = [next EXCEPT !.handle = IF mine = {} THEN @ + 1 ELSE @]
           /\ owner' = IF mine = {} THEN With(owner, h, Ask(j).user) ELSE owner
    /\ UNCHANGED <<accounts, captchas, keys, chal, device>>

store_registration_challenge(j) ==
    /\ At(j, "start registration", "store")
    /\ IF normalize_passkey_name(Ask(j).name)
         THEN (\E c \in request[j].chal : chal' = With(chal, j, c)) /\ To(j, "done")
         ELSE UNCHANGED chal /\ To(j, "refused")
    /\ UNCHANGED <<accounts, captchas, keys, next, device, owner>>

\* The challenge is taken out of the cache in one step, whatever becomes of the request.
take_registration_challenge(j) ==
    /\ finish_passkey_registration(j)
    /\ IF Signed(j) /\ Ask(j).of \in DOMAIN chal
         THEN /\ chal' = [f \in DOMAIN chal \ {Ask(j).of} |-> chal[f]]
              /\ request' = [request EXCEPT ![j].at = IF chal[Ask(j).of].user = Ask(j).user THEN "user" ELSE "refused",
                                    ![j].chal = {chal[Ask(j).of]}]
         ELSE UNCHANGED chal /\ To(j, "refused")
    /\ UNCHANGED <<accounts, captchas, keys, next, device, owner>>

\* The account is looked up again and the answer of the authenticator verified.
finish_registration(j) ==
    /\ At(j, "finish registration", "user")
    /\ To(j, IF Signed(j) /\ Ask(j).signs = Ask(j).of /\ Ask(j).discoverable THEN "find" ELSE "refused")
    /\ UNCHANGED <<accounts, captchas, passkeys>>

FindCredential(j) ==
    /\ At(j, "finish registration", "find")
    /\ To(j, IF find_by_credential_id(Ask(j).cred) = {} THEN "insert" ELSE "refused")
    /\ UNCHANGED <<accounts, captchas, passkeys>>

\* The unique index on credential_id has the last word.
InsertPasskey(j) ==
    /\ At(j, "finish registration", "insert")
    /\ IF normalize_passkey_name(Ask(j).name) /\ find_by_credential_id(Ask(j).cred) = {}
         THEN \E c \in request[j].chal :
                /\ keys' = With(keys, next.id, Passkey(Ask(j).user, Ask(j).cred, c.handle, 0, Ask(j).name))
                /\ next' = [next EXCEPT !.id = @ + 1]
                /\ device' = With(device, Ask(j).cred, c.handle)
                /\ request' = [request EXCEPT ![j].at = "done", ![j].key = next.id]
         ELSE UNCHANGED <<keys, next, device>> /\ To(j, "refused")
    /\ UNCHANGED <<accounts, captchas, chal, owner>>

-----------------------------------------------------------------------------
(* Renaming and deleting.                                                  *)

RenameFind(j) ==
    /\ rename_passkey(j)
    /\ To(j, IF Signed(j) /\ find_by_id_for_user(Ask(j).of, Ask(j).user) THEN "update" ELSE "refused")
    /\ UNCHANGED <<accounts, captchas, passkeys>>

update_name_for_user(j) ==
    /\ At(j, "rename", "update")
    /\ IF normalize_passkey_name(Ask(j).name) /\ find_by_id_for_user(Ask(j).of, Ask(j).user)
         THEN keys' = [keys EXCEPT ![Ask(j).of].name = Ask(j).name] /\ To(j, "reread")
         ELSE UNCHANGED keys /\ To(j, "refused")
    /\ UNCHANGED <<accounts, captchas, next, chal, device, owner>>

RenameReread(j) ==
    /\ At(j, "rename", "reread")
    /\ To(j, IF find_by_id_for_user(Ask(j).of, Ask(j).user) THEN "done" ELSE "refused")
    /\ UNCHANGED <<accounts, captchas, passkeys>>

DeleteFind(j) ==
    /\ delete_passkey(j)
    /\ To(j, IF Signed(j) /\ find_by_id_for_user(Ask(j).of, Ask(j).user) THEN "delete" ELSE "refused")
    /\ UNCHANGED <<accounts, captchas, passkeys>>

delete_for_user(j) ==
    /\ At(j, "delete", "delete")
    /\ IF find_by_id_for_user(Ask(j).of, Ask(j).user)
         THEN keys' = [i \in DOMAIN keys \ {Ask(j).of} |-> keys[i]] /\ To(j, "done")
         ELSE UNCHANGED keys /\ To(j, "refused")
    /\ UNCHANGED <<accounts, captchas, next, chal, device, owner>>

-----------------------------------------------------------------------------
(* Signing in with a passkey.                                              *)

ensure_passkey_login_enabled == enabled

start_login(j) ==
    /\ start_passkey_login(j)
    /\ IF ensure_passkey_login_enabled /\ load.https
         THEN chal' = With(chal, j, [user |-> NoOne, handle |-> 0, ident |-> Ask(j).user]) /\ To(j, "done")
         ELSE UNCHANGED chal /\ To(j, "refused")
    /\ UNCHANGED <<accounts, captchas, keys, next, device, owner>>

\* mutant: the challenge is read and stays in the cache
PeekLogin(j) ==
    /\ finish_passkey_login(j)
    /\ IF ensure_passkey_login_enabled /\ Ask(j).of \in DOMAIN chal
         THEN request' = [request EXCEPT ![j].at = "find", ![j].chal = {chal[Ask(j).of]}]
         ELSE To(j, "refused")
    /\ UNCHANGED <<accounts, captchas, passkeys>>

take_login_challenge(j) ==
    /\ finish_passkey_login(j)
    /\ IF ensure_passkey_login_enabled /\ Ask(j).of \in DOMAIN chal
         THEN /\ chal' = [f \in DOMAIN chal \ {Ask(j).of} |-> chal[f]]
              /\ request' = [request EXCEPT ![j].at = "find", ![j].chal = {chal[Ask(j).of]}]
         ELSE UNCHANGED chal /\ To(j, "refused")
    /\ UNCHANGED <<accounts, captchas, keys, next, device, owner>>

\* The answer carries the user handle the authenticator keeps with the credential.
FindPasskey(j) ==
    /\ At(j, "finish login", "find")
    /\ LET found == IF Ask(j).cred \in DOMAIN device
                      THEN find_by_user_handle_and_credential_id(device[Ask(j).cred], Ask(j).cred) ELSE {}
       IN \/ found = {} /\ To(j, "refused")
          \/ \E i \in found : request' = [request EXCEPT ![j] = [@ EXCEPT !.at = "user", !.key = i, !.row = {keys[i]},
                                                               !.handle = device[Ask(j).cred]]]
    /\ UNCHANGED <<accounts, captchas, passkeys>>

ensure_login_identifier_matches(u, ident) == ident \in {NoOne, u}
ensure_login_user(u) == user[u].active /\ user[u].activated
\* external: webauthn-rs takes a counter only if it has grown, unless the authenticator has none
finish_discoverable_authentication(j, row) ==
    Ask(j).signs = Ask(j).of /\ Ask(j).verified /\ (Ask(j).count > row.count \/ (Ask(j).count = 0 /\ row.count = 0))

finish_login(j) ==
    /\ At(j, "finish login", "user")
    /\ \E row \in request[j].row, c \in request[j].chal :
         To(j, IF /\ ensure_login_identifier_matches(row.user, c.ident)
                  /\ ensure_login_user(row.user)
                  /\ finish_discoverable_authentication(j, row) THEN "update" ELSE "refused")
    /\ UNCHANGED <<accounts, captchas, passkeys>>

\* mutant: a passkey that is gone does not matter any more
UpdateOrNot(j) ==
    /\ At(j, "finish login", "update") /\ To(j, "issue")
    /\ keys' = [i \in DOMAIN keys |-> IF i = request[j].key THEN [keys[i] EXCEPT !.used = TRUE, !.count = Ask(j).count] ELSE keys[i]]
    /\ UNCHANGED <<accounts, captchas, next, chal, device, owner>>

\* The counter if it has grown, and the time of the last use; the row may be gone by now.
update_credential_after_auth(j) ==
    /\ At(j, "finish login", "update")
    /\ IF request[j].key \in DOMAIN keys
         THEN /\ \E row \in request[j].row :
                   keys' = [keys EXCEPT ![request[j].key].used = TRUE,
                                        ![request[j].key].count = IF Ask(j).count > row.count THEN Ask(j).count ELSE @]
              /\ To(j, "issue")
         ELSE UNCHANGED keys /\ To(j, "refused")
    /\ UNCHANGED <<accounts, captchas, next, chal, device, owner>>

\* external to this module: AuthSession models the session
IssueLoginTokens(j) ==
    /\ At(j, "finish login", "issue") /\ To(j, "done")
    /\ UNCHANGED <<accounts, captchas, passkeys>>

-----------------------------------------------------------------------------
(* Visual captchas.                                                        *)

issue_challenge(j) ==
    /\ issue_captcha(j) /\ To(j, "done")
    /\ cap' = With(cap, j, [attempts |-> 0, max_attempts |-> load.max_attempts])
    /\ UNCHANGED <<accounts, aged, passkeys>>

is_required(need) == need \in load.required

\* mutant: one wrong answer more than allowed
AnswerOnceMore(j) ==
    /\ At(j, "answer", "new")
    /\ LET c == Ask(j).of
           decided(s, held) == request' = [request EXCEPT ![j].at = s, ![j].row = held]
       IN \/ ~is_required(Ask(j).need) /\ decided("passed", {})
          \/ is_required(Ask(j).need) /\ c \notin DOMAIN cap /\ decided("refused", {})
          \/ /\ is_required(Ask(j).need) /\ c \in DOMAIN cap
             /\ CASE c \in aged -> decided("drop", {})
                  [] c \notin aged /\ Ask(j).right -> decided("drop passed", {})
                  [] OTHER -> decided(IF cap[c].attempts + 1 > cap[c].max_attempts THEN "drop failed" ELSE "again",
                                      {[cap[c] EXCEPT !.attempts = @ + 1]})
    /\ UNCHANGED <<accounts, captchas, passkeys>>

\* The captcha is read; the answer decides what is written back.
verify_answer(j) ==
    /\ At(j, "answer", "new")
    /\ LET c == Ask(j).of
           decided(s, held) == request' = [request EXCEPT ![j].at = s, ![j].row = held]
       IN \/ ~is_required(Ask(j).need) /\ decided("passed", {})
          \/ is_required(Ask(j).need) /\ c \notin DOMAIN cap /\ decided("refused", {})
          \/ /\ is_required(Ask(j).need) /\ c \in DOMAIN cap
             /\ CASE c \in aged -> decided("drop", {})
                  [] c \notin aged /\ Ask(j).right -> decided("drop passed", {})
                  [] OTHER -> decided(IF cap[c].attempts + 1 >= cap[c].max_attempts THEN "drop failed" ELSE "again",
                                      {[cap[c] EXCEPT !.attempts = @ + 1]})
    /\ UNCHANGED <<accounts, captchas, passkeys>>

delete_challenge(j) ==
    /\ Ask(j).op = "answer" /\ request[j].at \in {"drop", "drop passed", "drop failed"}
    /\ cap' = [c \in DOMAIN cap \ {Ask(j).of} |-> cap[c]]
    /\ To(j, CASE request[j].at = "drop passed" -> "passed" [] request[j].at = "drop failed" -> "failed" [] OTHER -> "refused")
    /\ UNCHANGED <<accounts, aged, passkeys>>

store_challenge(j) ==
    /\ At(j, "answer", "again") /\ To(j, "failed")
    /\ \E held \in request[j].row : cap' = With(cap, Ask(j).of, held)
    /\ UNCHANGED <<accounts, aged, passkeys>>

-----------------------------------------------------------------------------
(* Time and administrators.                                                *)

\* PASSKEY_CHALLENGE_TTL_SECS is over.
ExpireChallenge(f) ==
    /\ load.ageing /\ f \in DOMAIN chal /\ chal' = [g \in DOMAIN chal \ {f} |-> chal[g]]
    /\ UNCHANGED <<accounts, captchas, request, keys, next, device, owner>>
\* expires_at is over; the cache may still have the captcha, or drop it.
ExpireCaptcha(c) ==
    /\ load.ageing /\ c \in DOMAIN cap \ aged /\ aged' = aged \cup {c}
    /\ UNCHANGED <<accounts, cap, passkeys, request>>
EvictCaptcha(c) ==
    /\ c \in DOMAIN cap \cap aged /\ cap' = [d \in DOMAIN cap \ {c} |-> cap[d]]
    /\ UNCHANGED <<accounts, aged, passkeys, request>>
DisableUser(u) ==
    /\ u \in load.disabled /\ user[u].active /\ user' = [user EXCEPT ![u].active = FALSE]
    /\ UNCHANGED <<enabled, captchas, passkeys, request>>
DisableLogin ==
    /\ load.closing /\ enabled /\ enabled' = FALSE
    /\ UNCHANGED <<user, captchas, passkeys, request>>

Registration(j) ==
    start_registration(j) \/ user_handle_for_registration(j) \/ store_registration_challenge(j)
      \/ take_registration_challenge(j) \/ finish_registration(j) \/ FindCredential(j) \/ InsertPasskey(j)
Management(j) == RenameFind(j) \/ update_name_for_user(j) \/ RenameReread(j) \/ DeleteFind(j) \/ delete_for_user(j)
Login(j) ==
    start_login(j) \/ take_login_challenge(j) \/ FindPasskey(j) \/ finish_login(j) \/ update_credential_after_auth(j)
      \/ IssueLoginTokens(j)
Captcha(j) == issue_challenge(j) \/ verify_answer(j) \/ delete_challenge(j) \/ store_challenge(j)

Step ==
    \/ \E j \in Jobs : Registration(j) \/ Management(j) \/ Login(j) \/ Captcha(j)
    \/ \E f \in Jobs : ExpireChallenge(f) \/ ExpireCaptcha(f) \/ EvictCaptcha(f)
    \/ (\E u \in Persons : DisableUser(u)) \/ DisableLogin
ChallengeNext == Step /\ Watch

ChallengeSpec == ChallengeInit /\ [][ChallengeNext]_challengeVars

-----------------------------------------------------------------------------
(* Properties.                                                             *)

Entered(j) == Ask(j).op = "finish login" /\ request[j].at \in {"issue", "done"}
Registered(j) == Ask(j).op = "finish registration" /\ request[j].at = "done"

\* Requests are at one of their steps, and no two passkeys have one credential.
ChallengeTypeOK ==
    /\ \A j \in Jobs : request[j].at \in Steps
    /\ DOMAIN chal \cup DOMAIN cap \subseteq Jobs /\ aged \subseteq Jobs /\ DOMAIN device \subseteq Creds
    /\ \A i, k \in DOMAIN keys : keys[i].cred = keys[k].cred => i = k

\* One challenge lets one request through: of two requests that finish the same flow at once, or of
\* one that is sent again, at most one registers a passkey or signs in (take_*_challenge).
ChallengeOnce ==
    \A i, j \in Jobs : i # j /\ Ask(i).of = Ask(j).of /\ Ask(i).op = Ask(j).op =>
        ~(Entered(i) /\ Entered(j)) /\ ~(Registered(i) /\ Registered(j))

\* A user handle stands for one user: every passkey with it is a passkey of the user it was made for
\* (finish_registration), however registrations of several users are mixed up.
HandleNamesUser == \A i \in DOMAIN keys : keys[i].user = owner[keys[i].handle]

\* Whoever signs in is the user the handle in the answer was made for, and the one that was
\* named when the login was started (finish_login).
LoginIsOwner ==
    \A j \in Jobs : Entered(j) => \A row \in request[j].row : \A c \in request[j].chal :
        row.user = owner[request[j].handle] /\ (c.ident # NoOne => row.user = c.ident)

\* Two copies of an authenticator are told apart: of two answers with one counter, given one after
\* the other, the second is refused, because the first one's counter was stored.
CloneRefused ==
    \A i, j \in Jobs : i # j /\ Entered(i) /\ Entered(j) /\ request[i].key = request[j].key /\ <<"key", request[i].key>> \notin tangled =>
        Ask(i).count # Ask(j).count \/ Ask(i).count = 0

\* A captcha that one request at a time works on lets one request through, takes at most max_attempts
\* wrong answers, and after those nothing (verify_answer).
CaptchaHolds ==
    \A c \in Jobs : Ask(c).op = "issue captcha" /\ <<"captcha", c>> \notin tangled =>
        LET said(s) == {j \in Jobs : Ask(j).op = "answer" /\ Ask(j).of = c /\ is_required(Ask(j).need) /\ request[j].at = s}
        IN Cardinality(said("passed")) <= 1
             /\ Cardinality(said("failed")) + Cardinality(said("passed")) <= load.max_attempts

\* Nobody signs in with a passkey that is deleted while the login is under way: the row is there in
\* the step that records its use (update_credential_after_auth, touch_last_used).
DeletedKeyStaysOut ==
    [][\A j \in Jobs : request[j].at = "update" /\ request'[j].at = "issue" => request[j].key \in DOMAIN keys /\ request[j].key \in DOMAIN keys']_challengeVars

\* Passkeys: a challenge is spent once, who signs in is who registered, a copied authenticator is refused.
PasskeysHold == ChallengeTypeOK /\ ChallengeOnce /\ HandleNamesUser /\ LoginIsOwner /\ CloneRefused
=============================================================================
