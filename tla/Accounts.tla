------------------------------- MODULE Accounts -------------------------------
(***************************************************************************)
(* Accounts: set-up, registration, activation, change of address, password *)
(* reset, invitations and the administration of users.                     *)
(*                                                                         *)
(* A request is a list of statements, todo[c]; other requests run between  *)
(* two of them.  A transaction reads committed rows and its writes appear  *)
(* together at its commit, which is one statement here.  Links sent by     *)
(* mail outlive the rows they name, so token ids are never reused.         *)
(*                                                                         *)
(* Sessions and passwords are AuthSession's.  A user name that is taken    *)
(* ends a request like any failing statement (Lose).                       *)
(***************************************************************************)
EXTENDS Naturals, Sequences, FiniteSets

CONSTANTS
    Emails,       \* normalised addresses
    Clients,      \* requests in flight
    MaxUser,      \* bound: users ever created
    MaxTok,       \* bound: verification tokens ever issued
    MaxInv,       \* bound: invitations ever created
    Workloads,    \* sets of operations issued together
    None

UserIds == 1..MaxUser
TokIds == 1..MaxTok
InvIds == 1..MaxInv
SUPER_ADMIN_USER_ID == 1
First == 0    \* origin of an account created as the first one
Roles == {"user", "operator", "admin"}
Purposes == {"activation", "change", "reset"}
\* Time as far as it is compared: within the cooldown, within the lifetime, over.
Ages == {"fresh", "old", "expired"}
InvStatuses == {"pending", "accepted", "expired", "revoked"}
Ops == {"setup", "register", "activation", "change", "resend", "reset", "contact", "newpassword",
        "invite", "revoke", "verify", "accept", "create", "update", "delete"}

User == [email : Emails \cup {None}, pending : Emails \cup {None}, verified : BOOLEAN,
         role : Roles, scopes : BOOLEAN, active : BOOLEAN]
Token == [user : UserIds, purpose : Purposes, target : Emails, used : BOOLEAN, age : Ages]
Invitation == [email : Emails, status : InvStatuses, over : BOOLEAN, by : UserIds]

ASSUME AccountsAssumption ==
    /\ MaxUser \in Nat /\ MaxTok \in Nat /\ MaxInv \in Nat
    /\ None \notin Nat \cup Emails \cup User \cup Token \cup Invitation
    /\ Workloads \subseteq [ops : [Clients -> SUBSET Ops], serial : BOOLEAN, faults : Nat,
                            activation : BOOLEAN, time : BOOLEAN, users : Seq(User),
                            emails : SUBSET Emails, max : [user : UserIds, tok : 0..MaxTok, inv : 0..MaxInv]]
    \* The accounts a workload starts with are as this code leaves them.
    /\ \A w \in Workloads :
          /\ Len(w.users) <= w.max.user
          /\ \A u \in 1..Len(w.users) :
                /\ w.users[u].scopes => w.users[u].role = "operator"
                /\ u = SUPER_ADMIN_USER_ID => w.users[u].role = "admin" /\ w.users[u].active

VARIABLES
    users,     \* users: id -> row or None
    tokens,    \* contact_verification_tokens: id -> row or None
    invites,   \* user_invitations: id -> row or None
    last,      \* ids handed out so far: [user, tok, inv]
    todo, load, faults,
    proven,    \* history: <<user, address>> confirmed by mail or vouched for at creation
    uses,      \* history: token -> how often it was redeemed
    origin,    \* history: user -> invitation it came from, First, or None
    withdrawn  \* history: invitations whose revocation was answered

vars == <<users, tokens, invites, last, todo, load, faults, proven, uses, origin, withdrawn>>
db == <<users, tokens, invites, last>>
hist == <<proven, uses, origin, withdrawn>>
env == <<load, faults>>

Live == {u \in UserIds : users[u] # None}
LiveTokens == {k \in TokIds : tokens[k] # None}
LiveInvites == {i \in InvIds : invites[i] # None}

Init ==
    /\ load \in Workloads
    /\ users = [u \in UserIds |-> IF u \in DOMAIN load.users THEN load.users[u] ELSE None]
    /\ tokens = [k \in TokIds |-> None] /\ invites = [i \in InvIds |-> None]
    /\ last = [user |-> Len(load.users), tok |-> 0, inv |-> 0]
    /\ todo = [c \in Clients |-> <<>>] /\ faults = load.faults
    /\ proven = {<<u, load.users[u].email>> : u \in DOMAIN load.users}
    /\ uses = [k \in TokIds |-> 0] /\ origin = [u \in UserIds |-> None] /\ withdrawn = {}

-----------------------------------------------------------------------------
(* Requests.                                                               *)

At(c, j) == todo[c] # <<>> /\ Head(todo[c]).j = j
Job(c) == Head(todo[c])
Then(c, s) == todo' = [todo EXCEPT ![c] = s \o Tail(@)]
Stop(c) == todo' = [todo EXCEPT ![c] = <<>>]
Go(c, ok, s) == IF ok THEN Then(c, s) ELSE Stop(c)
Idle(c) == todo[c] = <<>> /\ (load.serial => \A d \in Clients : todo[d] = <<>>)

Start(c, op, s) ==
    /\ Idle(c) /\ op \in load.ops[c]
    /\ todo' = [todo EXCEPT ![c] = s]
    /\ UNCHANGED <<db, env, hist>>

SetupFirstAdmin(c) == \E e \in load.emails : Start(c, "setup", <<[j |-> "scount", e |-> e]>>)
Register(c) == \E e \in load.emails : Start(c, "register", <<[j |-> "rcount", e |-> e]>>)
ResendActivation(c) == \E u \in Live : Start(c, "activation", <<[j |-> "aread", u |-> u]>>)
RequestEmailChange(c) == \E u \in Live, e \in load.emails : Start(c, "change", <<[j |-> "cread", u |-> u, e |-> e]>>)
ResendEmailChange(c) == \E u \in Live : Start(c, "resend", <<[j |-> "sread", u |-> u]>>)
RequestPasswordReset(c) == \E e \in load.emails : Start(c, "reset", <<[j |-> "pread", e |-> e]>>)
ConfirmContactVerification(c) == \E k \in 1..last.tok : Start(c, "contact", <<[j |-> "record", k |-> k, reset |-> FALSE]>>)
ConfirmPasswordReset(c) == \E k \in 1..last.tok : Start(c, "newpassword", <<[j |-> "record", k |-> k, reset |-> TRUE]>>)
CreateUserInvitation(c) == \E e \in load.emails, u \in Live :
    users[u].role = "admin" /\ Start(c, "invite", <<[j |-> "iread", e |-> e, by |-> u]>>)
RevokeUserInvitation(c) == \E i \in LiveInvites :
    Start(c, "revoke", <<[j |-> "refresh", i |-> i], [j |-> "revoke", i |-> i]>>)
VerifyUserInvitation(c) == \E i \in LiveInvites : Start(c, "verify", <<[j |-> "refresh", i |-> i]>>)
AcceptUserInvitation(c) == \E i \in LiveInvites : Start(c, "accept", <<[j |-> "tread", i |-> i]>>)
CreateUser(c) == \E e \in load.emails, r \in Roles, s, a \in BOOLEAN : Live # {} /\
    Start(c, "create", <<[j |-> "ucreate", e |-> e, role |-> r, asked |-> s, active |-> a]>>)
\* Bound: a request changes the address, the status, or role and scopes.
UpdateUser(c) == \E u \in Live, e \in load.emails \cup {None}, r \in Roles \cup {None}, s \in {None, TRUE}, a \in BOOLEAN \cup {None} :
    /\ Cardinality({n \in 1..3 : <<e # None, a # None, r # None \/ s # None>>[n]}) = 1
    /\ Start(c, "update", <<[j |-> "uread", u |-> u, e |-> e, role |-> r, asked |-> s, active |-> a]>>)
DeleteUser(c) == \E u \in Live \ {SUPER_ADMIN_USER_ID} : Start(c, "delete", <<[j |-> "udel", u |-> u]>>)

-----------------------------------------------------------------------------
(* Creation.                                                               *)

HasEmail(e) == {u \in Live : users[u].email = e}
\* idx_users_email_unique
Free(e, u) == HasEmail(e) \subseteq {u}
HasPending(e) == {u \in Live : users[u].pending = e}
\* ensure_email_available: no other account has the address or waits for it
Available(e, u) == Free(e, u) /\ HasPending(e) \subseteq {u}
\* normalize_role_and_scopes: scopes make an administrator an operator
RoleWith(r, asked) == IF asked /\ r # "user" THEN "operator" ELSE r
ScopesWith(r, asked) == asked /\ r # "user"

NewUser(e, role, scopes, active) ==
    [email |-> e, pending |-> None, verified |-> TRUE, role |-> role, scopes |-> scopes, active |-> active]
Insert(row, from) ==
    /\ last.user < load.max.user
    /\ LET u == last.user + 1 IN
          /\ users' = [users EXCEPT ![u] = row]
          /\ last' = [last EXCEPT !.user = u]
          /\ proven' = IF row.verified THEN proven \cup {<<u, row.email>>} ELSE proven
          /\ origin' = [origin EXCEPT ![u] = from]

FirstAdmin(e) == [j |-> "insert", e |-> e, role |-> "admin", from |-> First]
\* The count and the insert are two statements.
CountForSetup(c) ==
    /\ At(c, "scount")
    /\ Go(c, Live = {}, <<FirstAdmin(Job(c).e)>>)
    /\ UNCHANGED <<db, env, hist>>
\* The first account is the administrator's and needs no activation.
CountForRegister(c) ==
    /\ At(c, "rcount")
    /\ LET e == Job(c).e IN
          Then(c, IF Live = {} THEN <<FirstAdmin(e)>>
                  ELSE IF load.activation
                       THEN <<[j |-> "avail", e |-> e, u |-> None], [j |-> "rcommit", e |-> e]>>
                       ELSE <<[j |-> "insert", e |-> e, role |-> "user", from |-> None]>>)
    /\ UNCHANGED <<db, env, hist>>
\* create_with_options: verified at once; only the unique index looks at the address.
InsertUser(c) ==
    /\ At(c, "insert")
    /\ LET x == Job(c) IN
          IF Free(x.e, None)
          THEN Insert(NewUser(x.e, x.role, FALSE, TRUE), x.from) /\ Then(c, <<>>)
          ELSE Stop(c) /\ UNCHANGED <<users, last, proven, origin>>
    /\ UNCHANGED <<tokens, invites, uses, withdrawn, env>>
\* The administrator's create_user: account and scopes in one transaction.
CreateCommit(c) ==
    /\ At(c, "ucreate")
    /\ LET x == Job(c) IN
          IF Free(x.e, None)
          THEN Insert(NewUser(x.e, RoleWith(x.role, x.asked), ScopesWith(x.role, x.asked), x.active), None) /\ Then(c, <<>>)
          ELSE Stop(c) /\ UNCHANGED <<users, last, proven, origin>>
    /\ UNCHANGED <<tokens, invites, uses, withdrawn, env>>
\* ensure_email_available, inside or outside a transaction
CheckAvailable(c) ==
    /\ At(c, "avail")
    /\ Go(c, Available(Job(c).e, Job(c).u), <<>>)
    /\ UNCHANGED <<db, env, hist>>

-----------------------------------------------------------------------------
(* Verification tokens.                                                    *)

ActiveTokens(u, p) == {k \in LiveTokens : tokens[k].user = u /\ tokens[k].purpose = p /\ ~ tokens[k].used}
\* issue_contact_verification_token: the earlier unused links of this purpose die.
Issued(u, p, k, target) ==
    [n \in TokIds |-> IF n = k THEN [user |-> u, purpose |-> p, target |-> target, used |-> FALSE, age |-> "fresh"]
                      ELSE IF n \in ActiveTokens(u, p) THEN None ELSE tokens[n]]
NewToken(u, p, target) ==
    /\ last.tok < load.max.tok
    /\ tokens' = Issued(u, p, last.tok + 1, target)
    /\ last' = [last EXCEPT !.tok = @ + 1]
\* The cooldown since the newest unused link.
ActivationCooling(u) == \E k \in ActiveTokens(u, "activation") : tokens[k].age = "fresh"
ResetCooling(u) == \E k \in ActiveTokens(u, "reset") : tokens[k].age = "fresh"
\* is_email_activation_satisfied
Activated(u) == users[u].email = None \/ users[u].verified

\* The account and its link appear together.
RegisterCommit(c) ==
    /\ At(c, "rcommit")
    /\ LET x == Job(c) IN
          IF ~ Free(x.e, None)
          THEN Stop(c) /\ UNCHANGED <<users, tokens, last, proven, origin>>
          ELSE /\ last.user < load.max.user /\ last.tok < load.max.tok
               /\ users' = [users EXCEPT ![last.user + 1] =
                       [NewUser(x.e, "user", FALSE, TRUE) EXCEPT !.verified = FALSE]]
               /\ tokens' = Issued(last.user + 1, "activation", last.tok + 1, x.e)
               /\ last' = [last EXCEPT !.user = @ + 1, !.tok = @ + 1]
               /\ Then(c, <<>>)
               /\ UNCHANGED <<proven, origin>>
    /\ UNCHANGED <<invites, uses, withdrawn, env>>
ReadForActivation(c) ==
    /\ At(c, "aread")
    /\ LET u == Job(c).u IN
          Go(c, u \in Live /\ users[u].active /\ ~ users[u].verified /\ users[u].email # None /\ ~ ActivationCooling(u),
             <<[j |-> "issue", u |-> u, p |-> "activation", e |-> users[u].email]>>)
    /\ UNCHANGED <<db, env, hist>>
\* find_by_email; the answer is the same when there is no such account
ReadForReset(c) ==
    /\ At(c, "pread")
    /\ \/ /\ \A u \in HasEmail(Job(c).e) : ~ users[u].active \/ ~ users[u].verified \/ ResetCooling(u)
          /\ Stop(c)
       \/ \E u \in HasEmail(Job(c).e) :
             /\ users[u].active /\ users[u].verified /\ ~ ResetCooling(u)
             /\ Then(c, <<[j |-> "issue", u |-> u, p |-> "reset", e |-> Job(c).e]>>)
    /\ UNCHANGED <<db, env, hist>>
ReadForChange(c) ==
    /\ At(c, "cread")
    /\ LET x == Job(c) IN
          Go(c, /\ x.u \in Live /\ users[x.u].active /\ Activated(x.u) /\ users[x.u].email # x.e
                /\ users[x.u].pending = x.e => ~ ActivationCooling(x.u),
             <<[j |-> "avail", e |-> x.e, u |-> x.u], [j |-> "ccommit", u |-> x.u, e |-> x.e]>>)
    /\ UNCHANGED <<db, env, hist>>
ReadForResend(c) ==
    /\ At(c, "sread")
    /\ LET u == Job(c).u IN
          Go(c, /\ u \in Live /\ users[u].pending # None /\ users[u].active /\ Activated(u)
                /\ ~ ActivationCooling(u),
             <<[j |-> "avail", e |-> users[u].pending, u |-> u],
               [j |-> "issue", u |-> u, p |-> "change", e |-> users[u].pending]>>)
    /\ UNCHANGED <<db, env, hist>>
\* The pending address and its link; idx_users_pending_email is unique.
ChangeCommit(c) ==
    /\ At(c, "ccommit")
    /\ LET x == Job(c) IN
          IF users[x.u] = None \/ HasPending(x.e) \ {x.u} # {}
          THEN Stop(c) /\ UNCHANGED <<users, tokens, last>>
          ELSE /\ users' = [users EXCEPT ![x.u].pending = x.e]
               /\ NewToken(x.u, "change", x.e)
               /\ Then(c, <<>>)
    /\ UNCHANGED <<invites, env, hist>>
IssueToken(c) ==
    /\ At(c, "issue")
    /\ LET x == Job(c) IN
          IF users[x.u] = None THEN Stop(c) /\ UNCHANGED <<tokens, last>>
          ELSE NewToken(x.u, x.p, x.e) /\ Then(c, <<>>)
    /\ UNCHANGED <<users, invites, env, hist>>

\* find_by_token_hash and what both confirmations ask of the record
ReadRecord(c) ==
    /\ At(c, "record")
    /\ LET x == Job(c) t == tokens[x.k] IN
          Go(c, t # None /\ ~ t.used /\ t.age # "expired" /\ (t.purpose = "reset") = x.reset,
             <<[j |-> IF t.purpose = "reset" THEN "rreset" ELSE "rlink", k |-> x.k, t |-> t]>>)
    /\ UNCHANGED <<db, env, hist>>
\* Mutant: a link changes the address whatever was requested since.
ReadForLinkAny(c) ==
    /\ At(c, "rlink")
    /\ LET x == Job(c) u == x.t.user IN
          Go(c, users[u] # None /\ users[u].active /\ users[u].email # None,
             <<[j |-> "link", k |-> x.k, t |-> x.t, same |-> FALSE]>>)
    /\ UNCHANGED <<db, env, hist>>
\* Without an address the notice to the previous one cannot be queued.
ReadForLink(c) ==
    /\ At(c, "rlink")
    /\ LET x == Job(c)
           u == x.t.user
           same == users[u] # None /\ users[u].email = x.t.target
       IN  Go(c, /\ users[u] # None /\ users[u].active
                 /\ \/ same
                    \/ x.t.purpose = "change" /\ users[u].pending = x.t.target /\ users[u].email # None,
              (IF x.t.purpose = "change" THEN <<[j |-> "avail", e |-> x.t.target, u |-> u]>> ELSE <<>>)
              \o <<[j |-> "link", k |-> x.k, t |-> x.t, same |-> same]>>)
    /\ UNCHANGED <<db, env, hist>>
\* Mutant: mark_consumed without the filter on consumed_at.
RedeemableAgain(k) == tokens[k] # None
Redeemable(k) == tokens[k] # None /\ ~ tokens[k].used
Redeem(k) ==
    /\ tokens' = [tokens EXCEPT ![k].used = TRUE]
    /\ uses' = [uses EXCEPT ![k] = @ + 1]
\* mark_consumed_if_unused and the columns the link is for, by id
LinkCommit(c) ==
    /\ At(c, "link")
    /\ LET x == Job(c) u == x.t.user IN
          IF ~ Redeemable(x.k) \/ users[u] = None \/ (~ x.same /\ ~ Free(x.t.target, u))
          THEN Stop(c) /\ UNCHANGED <<users, tokens, uses, proven>>
          ELSE /\ Redeem(x.k)
               /\ users' = IF x.t.purpose = "activation" THEN [users EXCEPT ![u].verified = TRUE]
                           ELSE IF x.same THEN users
                           ELSE [users EXCEPT ![u].email = x.t.target, ![u].pending = None, ![u].verified = TRUE]
               /\ proven' = proven \cup {<<u, x.t.target>>}
               /\ Then(c, <<>>)
    /\ UNCHANGED <<invites, last, origin, withdrawn, env>>
ReadForNewPassword(c) ==
    /\ At(c, "rreset")
    /\ LET x == Job(c) u == x.t.user IN
          Go(c, users[u] # None /\ users[u].active /\ users[u].verified /\ users[u].email = x.t.target,
             <<[j |-> "password", k |-> x.k, u |-> u]>>)
    /\ UNCHANGED <<db, env, hist>>
PasswordCommit(c) ==
    /\ At(c, "password")
    /\ IF Redeemable(Job(c).k) /\ users[Job(c).u] # None
       THEN Redeem(Job(c).k) /\ Then(c, <<>>)
       ELSE Stop(c) /\ UNCHANGED <<tokens, uses>>
    /\ UNCHANGED <<users, invites, last, proven, origin, withdrawn, env>>

-----------------------------------------------------------------------------
(* Invitations.                                                            *)

\* ensure_email_available of the invitations looks at accounts only.
ReadForInvitation(c) ==
    /\ At(c, "iread")
    /\ Go(c, HasEmail(Job(c).e) = {},
          <<[j |-> "icommit", e |-> Job(c).e, by |-> Job(c).by,
             old |-> {i \in LiveInvites : invites[i].email = Job(c).e /\ invites[i].status = "pending"}]>>)
    /\ UNCHANGED <<db, env, hist>>
InvitationCommit(c) ==
    /\ At(c, "icommit")
    /\ IF users[Job(c).by] = None THEN Stop(c) /\ UNCHANGED <<invites, last>>
       ELSE /\ last.inv < load.max.inv
            /\ invites' = [i \in InvIds |->
                  IF i = last.inv + 1 THEN [email |-> Job(c).e, status |-> "pending", over |-> FALSE, by |-> Job(c).by]
                  ELSE IF i \in Job(c).old /\ invites[i] # None /\ invites[i].status = "pending"
                       THEN [invites[i] EXCEPT !.status = "revoked"] ELSE invites[i]]
            /\ last' = [last EXCEPT !.inv = @ + 1]
            /\ Then(c, <<>>)
    /\ UNCHANGED <<users, tokens, env, hist>>
Pending(i) == invites[i] # None /\ invites[i].status = "pending"
\* refresh_expired_status and ensure_invitation_pending
RefreshExpired(c) ==
    /\ At(c, "refresh")
    /\ LET i == Job(c).i IN
          /\ Go(c, Pending(i) /\ ~ invites[i].over, <<>>)
          /\ invites' = IF Pending(i) /\ invites[i].over THEN [invites EXCEPT ![i].status = "expired"] ELSE invites
    /\ UNCHANGED <<users, tokens, last, env, hist>>
\* mark_revoked_if_pending
MarkRevoked(c) ==
    /\ At(c, "revoke")
    /\ LET i == Job(c).i IN
          IF Pending(i)
          THEN /\ invites' = [invites EXCEPT ![i].status = "revoked"]
               /\ withdrawn' = withdrawn \cup {i} /\ Then(c, <<>>)
          ELSE Stop(c) /\ UNCHANGED <<invites, withdrawn>>
    /\ UNCHANGED <<users, tokens, last, env, proven, uses, origin>>
\* An expired invitation fails and its transaction rolls the mark back.
ReadForAccept(c) ==
    /\ At(c, "tread")
    /\ LET i == Job(c).i IN
          Go(c, Pending(i) /\ ~ invites[i].over /\ Available(invites[i].email, None),
             <<[j |-> "accept", i |-> i, e |-> invites[i].email]>>)
    /\ UNCHANGED <<db, env, hist>>
\* mark_accepted_if_pending
Acceptable(i) == Pending(i) /\ ~ invites[i].over
AcceptCommit(c) ==
    /\ At(c, "accept")
    /\ LET x == Job(c) IN
          IF Acceptable(x.i) /\ Free(x.e, None)
          THEN /\ Insert(NewUser(x.e, "user", FALSE, TRUE), x.i)
               /\ invites' = [invites EXCEPT ![x.i].status = "accepted"] /\ Then(c, <<>>)
          ELSE Stop(c) /\ UNCHANGED <<users, last, invites, proven, origin>>
    /\ UNCHANGED <<tokens, uses, withdrawn, env>>

-----------------------------------------------------------------------------
(* Administration.                                                         *)

\* Mutant: the role is written and the scopes are left alone.
UpdatedRoleOnly(old, x) == [role |-> IF x.role = None THEN old.role ELSE x.role, scopes |-> old.scopes \/ x.asked = TRUE]
\* normalize_update_role_and_scopes
UpdatedRole(old, x) ==
    LET base == IF x.role = None THEN old.role ELSE x.role IN
    [role |-> IF x.asked = TRUE /\ base = "admin" THEN "operator" ELSE base,
     scopes |-> base # "user" /\ (x.asked = TRUE \/ (base = "operator" /\ old.role = "operator" /\ old.scopes))]
\* The super administrator keeps role, status and permissions.
SuperAdminGuard(x) ==
    /\ x.u = SUPER_ADMIN_USER_ID
    /\ \/ x.role \notin {None, users[x.u].role}
       \/ x.active \notin {None, users[x.u].active}
       \/ x.asked = TRUE
ReadForUpdate(c) ==
    /\ At(c, "uread")
    /\ LET x == Job(c) IN
          Go(c, users[x.u] # None /\ ~ SuperAdminGuard(x),
             <<[j |-> "ucommit", u |-> x.u, e |-> x.e, active |-> x.active,
                to |-> IF users[x.u] = None THEN None ELSE UpdatedRole(users[x.u], x)]>>)
    /\ UNCHANGED <<db, env, hist>>
Edited(row, x) == [row EXCEPT !.email = IF x.e = None THEN @ ELSE x.e,
                              !.active = IF x.active = None THEN @ ELSE x.active,
                              !.role = x.to.role, !.scopes = x.to.scopes]
\* update_admin: role and scopes always, from the row read before the
\* transaction; the address without its verification.
UpdateCommit(c) ==
    /\ At(c, "ucommit")
    /\ LET x == Job(c) u == x.u IN
          IF users[u] = None \/ (x.e # None /\ ~ Free(x.e, u))
          THEN Stop(c) /\ UNCHANGED <<users, proven>>
          ELSE /\ users' = [users EXCEPT ![u] = Edited(@, x)]
               /\ proven' = IF x.e # None /\ users[u].verified THEN proven \cup {<<u, x.e>>} ELSE proven
               /\ Then(c, <<>>)
    /\ UNCHANGED <<tokens, invites, last, uses, origin, withdrawn, env>>
\* delete_by_id: tokens and invitations of the account go with it.
DeleteCommit(c) ==
    /\ At(c, "udel")
    /\ LET u == Job(c).u IN
          /\ users' = [users EXCEPT ![u] = None]
          /\ tokens' = [k \in TokIds |-> IF tokens[k] # None /\ tokens[k].user = u THEN None ELSE tokens[k]]
          /\ invites' = [i \in InvIds |-> IF invites[i] # None /\ invites[i].by = u THEN None ELSE invites[i]]
    /\ Then(c, <<>>)
    /\ UNCHANGED <<last, env, hist>>

-----------------------------------------------------------------------------
(* Time, cleanup and failures.                                             *)

\* The cooldown of a link, then its lifetime, passes.
AgeToken == \E k \in LiveTokens :
    /\ load.time /\ tokens[k].age # "expired"
    /\ tokens' = [tokens EXCEPT ![k].age = IF @ = "fresh" THEN "old" ELSE "expired"]
    /\ UNCHANGED <<users, invites, last, todo, env, hist>>
ExpireInvitation == \E i \in LiveInvites :
    /\ load.time /\ ~ invites[i].over
    /\ invites' = [invites EXCEPT ![i].over = TRUE]
    /\ UNCHANGED <<users, tokens, last, todo, env, hist>>
CleanupTokens ==
    /\ \E k \in LiveTokens : tokens[k].age = "expired"
    /\ tokens' = [k \in TokIds |-> IF tokens[k] # None /\ tokens[k].age = "expired" THEN None ELSE tokens[k]]
    /\ UNCHANGED <<users, invites, last, todo, env, hist>>
\* A failing statement or a crash; an open transaction leaves nothing.
Lose(c) ==
    /\ todo[c] # <<>> /\ faults > 0
    /\ faults' = faults - 1
    /\ Stop(c)
    /\ UNCHANGED <<db, load, hist>>

Request(c) ==
    \/ SetupFirstAdmin(c) \/ Register(c) \/ ResendActivation(c) \/ RequestEmailChange(c) \/ ResendEmailChange(c)
    \/ RequestPasswordReset(c) \/ ConfirmContactVerification(c) \/ ConfirmPasswordReset(c)
    \/ CreateUserInvitation(c) \/ RevokeUserInvitation(c) \/ VerifyUserInvitation(c) \/ AcceptUserInvitation(c)
    \/ CreateUser(c) \/ UpdateUser(c) \/ DeleteUser(c)
Work(c) ==
    \/ CountForSetup(c) \/ CountForRegister(c) \/ InsertUser(c) \/ CreateCommit(c) \/ CheckAvailable(c) \/ RegisterCommit(c) \/ ReadForActivation(c)
    \/ ReadForReset(c) \/ ReadForChange(c) \/ ReadForResend(c) \/ ChangeCommit(c) \/ IssueToken(c)
    \/ ReadRecord(c) \/ ReadForLink(c) \/ LinkCommit(c) \/ ReadForNewPassword(c) \/ PasswordCommit(c)
    \/ ReadForInvitation(c) \/ InvitationCommit(c) \/ RefreshExpired(c) \/ MarkRevoked(c)
    \/ ReadForAccept(c) \/ AcceptCommit(c) \/ ReadForUpdate(c) \/ UpdateCommit(c) \/ DeleteCommit(c)
Next ==
    \/ \E c \in Clients : Request(c) \/ Work(c) \/ Lose(c)
    \/ AgeToken \/ ExpireInvitation \/ CleanupTokens
Spec == Init /\ [][Next]_vars

-----------------------------------------------------------------------------
(* Properties.                                                             *)

(* Types of the tables and of the history.                                 *)
TypeOK ==
    /\ users \in [UserIds -> User \cup {None}] /\ tokens \in [TokIds -> Token \cup {None}]
    /\ invites \in [InvIds -> Invitation \cup {None}]
    /\ last \in [user : 0..MaxUser, tok : 0..MaxTok, inv : 0..MaxInv]
    /\ load \in Workloads /\ faults \in Nat /\ withdrawn \subseteq InvIds

\* No request of the workload is this operation.
Without(op) == \A c \in Clients : op \notin load.ops[c]

(* An address counts as verified only for the account it was proven for:   *)
(* its owner followed a link sent to it, it came with an invitation, or    *)
(* whoever created the account or edited it while it was verified vouched  *)
(* for it, however many changes were requested, confirmed late or          *)
(* abandoned (confirm_contact_verification), as long as no administrator   *)
(* edits the account between the statements of another request.            *)
VerifiedWasProven == load.serial \/ Without("update") =>
    \A u \in Live : users[u].verified => <<u, users[u].email>> \in proven

(* A link is redeemed at most once, also when it is opened twice at the    *)
(* same time (mark_consumed_if_unused behind confirm_contact_verification  *)
(* and confirm_password_reset).                                            *)
LinkUsedOnce == \A k \in TokIds : uses[k] <= 1

(* An account that waits for a new address is not sent elsewhere: its      *)
(* unused links are for that address, unless the last one was sent again   *)
(* while another change was requested (request_email_change).              *)
PendingHasLink == load.serial \/ Without("resend") =>
    \A u \in Live : users[u].pending # None =>
        \A k \in ActiveTokens(u, "change") : tokens[k].target = users[u].pending

(* An invitation makes at most one account, and none once its revocation   *)
(* was answered (accept_invitation, revoke_invitation).                    *)
InvitationOnce == \A i \in InvIds :
    LET made == {u \in UserIds : origin[u] = i} IN
    Cardinality(made) <= 1 /\ (i \in withdrawn => made = {})

(* With one request at a time, an address has at most one open invitation  *)
(* (create_invitation revokes the earlier ones).                           *)
OneOpenInvitation == load.serial => \A i, n \in LiveInvites :
    invites[i].email = invites[n].email /\ Pending(i) /\ Pending(n) => i = n

(* With one request at a time, one account is made administrator by being  *)
(* the first (setup_first_admin, register).                                *)
OneFirstAdmin == load.serial => Cardinality({u \in UserIds : origin[u] = First}) <= 1

(* The system keeps its super administrator: account 1 exists as soon as   *)
(* any does, is an active administrator and holds no operator scopes,      *)
(* although update_user decides on a row it read before its transaction.   *)
SuperAdminStays == Live # {} =>
    /\ users[SUPER_ADMIN_USER_ID] # None
    /\ users[SUPER_ADMIN_USER_ID].role = "admin"
    /\ users[SUPER_ADMIN_USER_ID].active /\ ~ users[SUPER_ADMIN_USER_ID].scopes

(* Only operators hold operator scopes, whichever updates overlap (role    *)
(* and scopes are normalised and written together).                        *)
ScopesNeedOperator == \A u \in Live : users[u].scopes => users[u].role = "operator"

(* What lets somebody in is spent once: a mailed link, an invitation.      *)
SpentOnce == LinkUsedOnce /\ InvitationOnce /\ OneOpenInvitation

(* Addresses: verified ones were proven, pending ones can be confirmed.    *)
AddressProven == VerifiedWasProven /\ PendingHasLink

(* Roles, scopes and the first administrator agree whatever edits overlap. *)
AccountsConsistent == TypeOK /\ OneFirstAdmin /\ SuperAdminStays /\ ScopesNeedOperator
==============================================================================
