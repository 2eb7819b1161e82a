---------------------------- MODULE AuthSession ----------------------------
(***************************************************************************)
(* Site sessions (auth_service.rs, auth_service/password_change.rs,        *)
(* admin_user_service.rs, user_repo.rs, auth_session_repo.rs): JWT token   *)
(* pairs, the auth_sessions table that rotates refresh identifiers (jti),  *)
(* and the users.session_version column that invalidates every token of a  *)
(* user at once.                                                           *)
(*                                                                         *)
(* A request is a process of Proc.  Each database statement whose result   *)
(* the handler keeps across an await is a step of its own, so that other   *)
(* requests run between a handler's read and its write; the writes of one  *)
(* transaction are one step (its commit).  The transactions set no         *)
(* isolation level and take no row lock, so a read inside a transaction    *)
(* may be stale when the transaction writes.                               *)
(***************************************************************************)
EXTENDS Naturals

CONSTANTS
    Users,        \* user ids
    Proc,         \* requests being served at the same time
    Jti,          \* refresh token identifiers (random UUIDs, drawn fresh)
    Sid,          \* session ids (random UUIDs, drawn fresh)
    NULL,
    SuperAdmin,   \* SUPER_ADMIN_USER_ID, whose status and row are protected
    MaxEpoch,     \* bound: invalidating operations started per user
    SerialBumps   \* TRUE: session_version writers of a user never overlap

AdminInput == [status: {"keep", "active", "disabled"},
               must: {"keep", "set", "clear"},
               password: BOOLEAN]

NoInput == [status |-> "keep", must |-> "keep", password |-> FALSE]

UserRow == [exists: BOOLEAN, active: BOOLEAN, mustChange: BOOLEAN, ver: Nat]

\* auth_sessions row; "expired" is refresh_expires_at <= now
SessionRow == [user: Users, cur: Jti, prev: Jti \cup {NULL},
               expired: BOOLEAN, revoked: BOOLEAN]

\* A token pair: the claims both tokens carry (user, ver, pc), the refresh
\* token's jti (its index), and history: the session it was issued for, the
\* jti it was redeemed from and the epoch its user row was read in ("seen").
Token == [user: Users, ver: Nat, pc: BOOLEAN, sid: Sid,
          parent: Jti \cup {NULL}, seen: Nat]

Label == {"idle", "issue", "reissue", "refresh", "rotate", "others",
          "password", "reset", "admin", "bump", "purge", "delete"}

Job == [at: Label, user: Users \cup {NULL}, ver: Nat, must: BOOLEAN,
        seen: Nat, sid: Sid \cup {NULL}, jti: Jti \cup {NULL},
        input: AdminInput]

ASSUME AuthAssumption ==
    /\ MaxEpoch \in Nat
    /\ SerialBumps \in BOOLEAN
    /\ NULL \notin Users /\ NULL \notin Jti /\ NULL \notin Sid
    /\ NULL \notin SessionRow /\ NULL \notin Token

VARIABLES
    users,     \* [Users -> UserRow], the users table
    sessions,  \* [Sid -> SessionRow or NULL], the auth_sessions table
    tokens,    \* [Jti -> Token or NULL], every token pair ever handed out
    job,       \* [Proc -> Job], the handler state of each request
    epoch      \* [Users -> Nat], history: invalidations committed so far

vars == <<users, sessions, tokens, job, epoch>>

IdleJob == [at |-> "idle", user |-> NULL, ver |-> 0, must |-> FALSE,
            seen |-> 0, sid |-> NULL, jti |-> NULL, input |-> NoInput]

Init ==
    /\ users = [u \in Users |-> [exists |-> TRUE, active |-> TRUE,
                                 mustChange |-> FALSE, ver |-> 1]]
    /\ sessions = [s \in Sid |-> NULL]
    /\ tokens = [j \in Jti |-> NULL]
    /\ job = [p \in Proc |-> IdleJob]
    /\ epoch = [u \in Users |-> 0]

----------------------------------------------------------------------------
(* Reads and single statements *)

\* user_repo::find_by_id: the model the handler keeps
ReadUser(at, u) ==
    [IdleJob EXCEPT !.at = at, !.user = u, !.ver = users[u].ver,
                    !.must = users[u].mustChange, !.seen = epoch[u]]

FreshJti == {j \in Jti : tokens[j] = NULL}

FreshSid == {s \in Sid : /\ sessions[s] = NULL
                         /\ \A j \in Jti : tokens[j] # NULL => tokens[j].sid # s}

\* revoke_sessions_for_user
RevokeSessionsForUser(u) ==
    [s \in Sid |-> IF sessions[s] # NULL /\ sessions[s].user = u
                   THEN [sessions[s] EXCEPT !.revoked = TRUE]
                   ELSE sessions[s]]

\* the session rows after on_delete(Cascade) of a user row
CascadeDelete(u) ==
    [s \in Sid |-> IF sessions[s] # NULL /\ sessions[s].user = u
                   THEN NULL ELSE sessions[s]]

\* Mutant: setting must_change_password does not bump.
BumpsVersionUnlessScope(input) ==
    input.password \/ input.status = "disabled"

\* update_user: which admin edits bump session_version
BumpsVersion(input) ==
    input.password \/ input.status = "disabled" \/ input.must # "keep"

\* The request holds a session_version read that it will write back.
Bumping(p) ==
    \/ job[p].at \in {"password", "reset", "bump"}
    \/ job[p].at = "admin" /\ BumpsVersion(job[p].input)

CanStartBump(u) ==
    /\ epoch[u] < MaxEpoch
    /\ SerialBumps => \A q \in Proc : ~(Bumping(q) /\ job[q].user = u)

Finish(p) == job' = [job EXCEPT ![p] = IdleJob]

----------------------------------------------------------------------------
(* login, and the external-auth and passkey logins, which read the user    *)
(* and issue in the same way                                               *)

LoginRead(p, u) ==
    /\ job[p].at = "idle"
    /\ users[u].exists /\ users[u].active
    /\ job' = [job EXCEPT ![p] = ReadUser("issue", u)]
    /\ UNCHANGED <<users, sessions, tokens, epoch>>

\* issue_tokens: create_token_pair from the model read before, then
\* persist_auth_session; the foreign key refuses a deleted user.
IssueTokens(p) ==
    /\ job[p].at = "issue"
    /\ users[job[p].user].exists
    /\ \E j \in FreshJti, s \in FreshSid :
        /\ tokens' = [tokens EXCEPT ![j] =
                        [user |-> job[p].user, ver |-> job[p].ver,
                         pc |-> job[p].must, sid |-> s, parent |-> NULL,
                         seen |-> job[p].seen]]
        /\ sessions' = [sessions EXCEPT ![s] =
                        [user |-> job[p].user, cur |-> j, prev |-> NULL,
                         expired |-> FALSE, revoked |-> FALSE]]
    /\ Finish(p)
    /\ UNCHANGED <<users, epoch>>

IssueFails(p) ==
    /\ job[p].at = "issue"
    /\ ~users[job[p].user].exists
    /\ Finish(p)
    /\ UNCHANGED <<users, sessions, tokens, epoch>>

\* issue_tokens_for_user_id, called by the route after a password change:
\* it reads the user again and checks neither status nor version.
ReissueRead(p) ==
    /\ job[p].at = "reissue"
    /\ job' = [job EXCEPT ![p] = IF users[job[p].user].exists
                                 THEN ReadUser("issue", job[p].user)
                                 ELSE IdleJob]
    /\ UNCHANGED <<users, sessions, tokens, epoch>>

----------------------------------------------------------------------------
(* refresh: session lookup, user lookup, compare-and-set rotation          *)

\* find_by_refresh_jti, the revoked and expired filters, the user match
RefreshReadSession(p, j) ==
    /\ job[p].at = "idle"
    /\ tokens[j] # NULL
    /\ \E s \in Sid :
        /\ sessions[s] # NULL
        /\ sessions[s].cur = j
        /\ ~sessions[s].revoked
        /\ ~sessions[s].expired
        /\ sessions[s].user = tokens[j].user
        /\ job' = [job EXCEPT ![p] = [IdleJob EXCEPT !.at = "refresh",
                        !.user = tokens[j].user, !.sid = s, !.jti = j]]
    /\ UNCHANGED <<users, sessions, tokens, epoch>>

\* the user checks of refresh
RefreshAllowed(u, t) ==
    /\ users[u].exists /\ users[u].active
    /\ t.ver = users[u].ver
    /\ ~users[u].mustChange
    /\ ~t.pc

RefreshReadUser(p) ==
    LET u == job[p].user
    IN  /\ job[p].at = "refresh"
        /\ job' = [job EXCEPT ![p] =
                     IF RefreshAllowed(u, tokens[job[p].jti])
                     THEN [ReadUser("rotate", u) EXCEPT !.sid = job[p].sid,
                                                        !.jti = job[p].jti]
                     ELSE IdleJob]
        /\ UNCHANGED <<users, sessions, tokens, epoch>>

\* Mutant: the row is selected by session id, not by its current jti.
RotateMatchesById(s, j) ==
    /\ sessions[s] # NULL
    /\ s = tokens[j].sid
    /\ ~sessions[s].revoked

\* Mutant: the filter revoked_at IS NULL is missing.
RotateMatchesRevoked(s, j) ==
    /\ sessions[s] # NULL
    /\ sessions[s].cur = j

\* rotate_refresh: the row the UPDATE's filter selects
RotateMatches(s, j) ==
    /\ sessions[s] # NULL
    /\ sessions[s].cur = j
    /\ ~sessions[s].revoked

\* Mutant: previous_refresh_jti is not set.
RotateTokensNoPrevious(p) ==
    /\ job[p].at = "rotate"
    /\ \E s \in Sid, j \in FreshJti :
        /\ RotateMatches(s, job[p].jti)
        /\ sessions' = [sessions EXCEPT ![s].cur = j, ![s].expired = FALSE]
        /\ tokens' = [tokens EXCEPT ![j] =
                        [user |-> job[p].user, ver |-> job[p].ver,
                         pc |-> FALSE, sid |-> s, parent |-> job[p].jti,
                         seen |-> job[p].seen]]
    /\ Finish(p)
    /\ UNCHANGED <<users, epoch>>

\* rotate_tokens when the update hits its row
RotateTokens(p) ==
    /\ job[p].at = "rotate"
    /\ \E s \in Sid, j \in FreshJti :
        /\ RotateMatches(s, job[p].jti)
        /\ sessions' = [sessions EXCEPT ![s] =
               [@ EXCEPT !.cur = j, !.prev = job[p].jti, !.expired = FALSE]]
        /\ tokens' = [tokens EXCEPT ![j] =
                        [user |-> job[p].user, ver |-> job[p].ver,
                         pc |-> FALSE, sid |-> s, parent |-> job[p].jti,
                         seen |-> job[p].seen]]
    /\ Finish(p)
    /\ UNCHANGED <<users, epoch>>

\* rotate_tokens when it lost the race: "refresh token is stale"
RotateLost(p) ==
    /\ job[p].at = "rotate"
    /\ \A s \in Sid : ~RotateMatches(s, job[p].jti)
    /\ Finish(p)
    /\ UNCHANGED <<users, sessions, tokens, epoch>>

----------------------------------------------------------------------------
(* logout, revoke_session, revoke_other_sessions                           *)

\* revoke_by_refresh_jti
Logout(j) ==
    /\ tokens[j] # NULL
    /\ \E s \in Sid :
        /\ RotateMatches(s, j)
        /\ sessions' = [sessions EXCEPT ![s].revoked = TRUE]
    /\ UNCHANGED <<users, tokens, job, epoch>>

\* revoke_by_id_for_user
RevokeSession(s) ==
    /\ sessions[s] # NULL
    /\ ~sessions[s].revoked
    /\ sessions' = [sessions EXCEPT ![s].revoked = TRUE]
    /\ UNCHANGED <<users, tokens, job, epoch>>

\* revoke_other_sessions, first statement: the caller's own session
OthersRead(p, j) ==
    /\ job[p].at = "idle"
    /\ tokens[j] # NULL
    /\ \E s \in Sid :
        /\ RotateMatches(s, j)
        /\ sessions[s].user = tokens[j].user
        /\ job' = [job EXCEPT ![p] = [IdleJob EXCEPT !.at = "others",
                        !.user = tokens[j].user, !.sid = s]]
    /\ UNCHANGED <<users, sessions, tokens, epoch>>

\* revoke_all_for_user_except_id
OthersRevoke(p) ==
    /\ job[p].at = "others"
    /\ sessions' = [s \in Sid |-> IF s = job[p].sid THEN sessions[s]
                                  ELSE RevokeSessionsForUser(job[p].user)[s]]
    /\ Finish(p)
    /\ UNCHANGED <<users, tokens, epoch>>

----------------------------------------------------------------------------
(* Writers of session_version                                              *)

\* The read of a session_version writer: change_password and
\* set_local_password ("password"), confirm_password_reset ("reset") inside
\* their transactions, bump_session_version of revoke_user_sessions ("bump").
BumpRead(p, u, at) ==
    /\ job[p].at = "idle"
    /\ CanStartBump(u)
    /\ users[u].exists
    /\ at # "bump" => users[u].active
    /\ job' = [job EXCEPT ![p] = ReadUser(at, u)]
    /\ UNCHANGED <<users, sessions, tokens, epoch>>

\* Mutant: the password is written, session_version is not.
PasswordCommitNoBump(p) ==
    LET u == job[p].user
    IN  /\ job[p].at \in {"password", "reset"}
        /\ users[u].exists
        /\ users' = [users EXCEPT ![u].mustChange = FALSE]
        /\ epoch' = [epoch EXCEPT ![u] = @ + 1]
        /\ sessions' = RevokeSessionsForUser(u)
        /\ Finish(p)
        /\ UNCHANGED tokens

\* update_password_in_connection and the rest of its transaction: a password
\* change also revokes the session rows, a reset does not.
PasswordCommit(p) ==
    LET u == job[p].user
    IN  /\ job[p].at \in {"password", "reset"}
        /\ users[u].exists
        /\ users' = [users EXCEPT ![u] =
                       [@ EXCEPT !.ver = job[p].ver + 1, !.mustChange = FALSE]]
        /\ epoch' = [epoch EXCEPT ![u] = @ + 1]
        /\ sessions' = IF job[p].at = "password"
                       THEN RevokeSessionsForUser(u) ELSE sessions
        /\ job' = [job EXCEPT ![p] =
                     IF job[p].at = "password"
                     THEN [IdleJob EXCEPT !.at = "reissue", !.user = u]
                     ELSE IdleJob]
        /\ UNCHANGED tokens

\* revoke_user_sessions: the write of bump_session_version, outside any
\* transaction, then (its own statement) revoke_sessions_for_user
BumpCommit(p) ==
    LET u == job[p].user
    IN  /\ job[p].at = "bump"
        /\ users[u].exists
        /\ users' = [users EXCEPT ![u].ver = job[p].ver + 1]
        /\ epoch' = [epoch EXCEPT ![u] = @ + 1]
        /\ job' = [job EXCEPT ![p] = [IdleJob EXCEPT !.at = "purge", !.user = u]]
        /\ UNCHANGED <<sessions, tokens>>

BumpPurge(p) ==
    /\ job[p].at = "purge"
    /\ sessions' = RevokeSessionsForUser(job[p].user)
    /\ Finish(p)
    /\ UNCHANGED <<users, tokens, epoch>>

\* update_user: the super administrator check, then update_admin's read
AdminRead(p, u, input) ==
    /\ job[p].at = "idle"
    /\ users[u].exists
    /\ BumpsVersion(input) => CanStartBump(u)
    /\ u = SuperAdmin =>
         input.status \in {"keep", IF users[u].active THEN "active" ELSE "disabled"}
    /\ job' = [job EXCEPT ![p] = [ReadUser("admin", u) EXCEPT !.input = input]]
    /\ UNCHANGED <<users, sessions, tokens, epoch>>

\* update_admin's UPDATE writes the columns that were set, and no others;
\* "read" is the session_version it read.
AdminEdit(row, input, read) ==
    [exists     |-> row.exists,
     active     |-> IF input.status = "keep" THEN row.active
                    ELSE input.status = "active",
     mustChange |-> IF input.must = "keep" THEN row.mustChange
                    ELSE input.must = "set",
     ver        |-> IF BumpsVersion(input) THEN read + 1 ELSE row.ver]

AdminCommit(p) ==
    LET u == job[p].user
        input == job[p].input
    IN  /\ job[p].at = "admin"
        /\ users[u].exists
        /\ users' = [users EXCEPT ![u] = AdminEdit(users[u], input, job[p].ver)]
        /\ epoch' = IF BumpsVersion(input) THEN [epoch EXCEPT ![u] = @ + 1] ELSE epoch
        /\ Finish(p)
        /\ UNCHANGED <<sessions, tokens>>

\* The UPDATE finds no row because the user was deleted: error, rollback.
CommitFails(p) ==
    /\ job[p].at \in {"password", "reset", "bump", "admin"}
    /\ ~users[job[p].user].exists
    /\ Finish(p)
    /\ UNCHANGED <<users, sessions, tokens, epoch>>

\* delete_user: revoke the session rows ...
DeleteRevoke(p, u) ==
    /\ job[p].at = "idle"
    /\ u # SuperAdmin
    /\ users[u].exists
    /\ sessions' = RevokeSessionsForUser(u)
    /\ job' = [job EXCEPT ![p] = [IdleJob EXCEPT !.at = "delete", !.user = u]]
    /\ UNCHANGED <<users, tokens, epoch>>

\* ... and later delete the row, which cascades to auth_sessions
DeleteCommit(p) ==
    LET u == job[p].user
    IN  /\ job[p].at = "delete"
        /\ users' = [users EXCEPT ![u].exists = FALSE]
        /\ sessions' = CascadeDelete(u)
        /\ Finish(p)
        /\ UNCHANGED <<tokens, epoch>>

----------------------------------------------------------------------------
(* Time, the cleanup task and crashes                                      *)

Expire(s) ==
    /\ sessions[s] # NULL
    /\ ~sessions[s].expired
    /\ sessions' = [sessions EXCEPT ![s].expired = TRUE]
    /\ UNCHANGED <<users, tokens, job, epoch>>

\* cleanup_expired_auth_sessions
Cleanup ==
    /\ \E s \in Sid : sessions[s] # NULL /\ sessions[s].expired
    /\ sessions' = [s \in Sid |-> IF sessions[s] # NULL /\ sessions[s].expired
                                  THEN NULL ELSE sessions[s]]
    /\ UNCHANGED <<users, tokens, job, epoch>>

\* The connection drops or the server dies: an open transaction rolls back,
\* committed statements stay.
Crash(p) ==
    /\ job[p].at # "idle"
    /\ Finish(p)
    /\ UNCHANGED <<users, sessions, tokens, epoch>>

Request(p) ==
    \/ \E u \in Users : LoginRead(p, u)
    \/ IssueTokens(p) \/ IssueFails(p) \/ ReissueRead(p)
    \/ \E j \in Jti : RefreshReadSession(p, j)
    \/ RefreshReadUser(p) \/ RotateTokens(p) \/ RotateLost(p)
    \/ \E j \in Jti : OthersRead(p, j)
    \/ OthersRevoke(p)
    \/ \E u \in Users, at \in {"password", "reset", "bump"} : BumpRead(p, u, at)
    \/ PasswordCommit(p) \/ BumpCommit(p) \/ BumpPurge(p)
    \/ \E u \in Users, input \in AdminInput : AdminRead(p, u, input)
    \/ AdminCommit(p) \/ CommitFails(p)
    \/ \E u \in Users : DeleteRevoke(p, u)
    \/ DeleteCommit(p)
    \/ Crash(p)

Next ==
    \/ \E p \in Proc : Request(p)
    \/ \E j \in Jti : Logout(j)
    \/ \E s \in Sid : RevokeSession(s) \/ Expire(s)
    \/ Cleanup

Spec == Init /\ [][Next]_vars

----------------------------------------------------------------------------
(* Properties *)

\* Types of the tables, the tokens and the handlers' local state.
TypeOK ==
    /\ users \in [Users -> UserRow]
    /\ sessions \in [Sid -> SessionRow \cup {NULL}]
    /\ tokens \in [Jti -> Token \cup {NULL}]
    /\ job \in [Proc -> Job]
    /\ \A p \in Proc : job[p].at # "idle" => job[p].user \in Users
    /\ epoch \in [Users -> Nat]

\* current_user_and_claims_from_token accepts the access token of pair j
\* (before its own expiry, which only removes tokens).
Accepted(j) ==
    /\ tokens[j] # NULL
    /\ LET u == users[tokens[j].user]
       IN  /\ u.exists /\ u.active
           /\ u.ver = tokens[j].ver
           /\ u.mustChange = tokens[j].pc

\* refresh: however many requests present a refresh token at once, it is
\* redeemed for at most one new token pair.
RedeemedOnce ==
    \A i, j \in Jti :
        /\ tokens[i] # NULL /\ tokens[j] # NULL
        /\ tokens[i].parent = tokens[j].parent
        /\ tokens[i].parent # NULL
        => i = j

\* rotate_refresh keeps each session row at the head of its rotation chain:
\* the current jti was issued for this row and user, was redeemed from the
\* previous jti, has not been redeemed itself, and heads no other row.
RowHeadsItsChain ==
    \A s \in Sid : sessions[s] # NULL =>
        LET j == sessions[s].cur
        IN  /\ tokens[j] # NULL
            /\ tokens[j].user = sessions[s].user
            /\ tokens[j].sid = s
            /\ tokens[j].parent = sessions[s].prev
            /\ \A i \in Jti : tokens[i] # NULL => tokens[i].parent # j

\* A revoked session row never becomes live again and never hands out
\* another token pair, whatever refresh was already past its checks: a row
\* stays revoked until it is deleted, and a token issued in a step for an
\* existing row finds that row unrevoked.
RevokedIsFinal ==
    [][ /\ \A s \in Sid :
             sessions[s] # NULL /\ sessions[s].revoked
             => \/ sessions'[s] = NULL
                \/ sessions'[s].revoked /\ sessions'[s].cur = sessions[s].cur
        /\ \A j \in Jti :
             tokens[j] = NULL /\ tokens'[j] # NULL
             => LET s == tokens'[j].sid
                IN  sessions[s] # NULL => ~sessions[s].revoked
      ]_vars

\* session_version: once a password change, a reset, a disabling or an admin
\* revocation of a user has committed, no token whose issuing handler had
\* read the user row before that commit is accepted any more - be it already
\* handed out or still in flight at the commit.
StaleTokenRejected ==
    \A j \in Jti : Accepted(j) => tokens[j].seen = epoch[tokens[j].user]

\* A token of the current session_version carries the current password-change
\* scope: no interleaving leaves a full token beside must_change_password, or
\* a restricted one beside a completed change.
ScopeMatchesVersion ==
    \A j \in Jti : tokens[j] # NULL =>
        LET u == users[tokens[j].user]
        IN  u.ver = tokens[j].ver => u.mustChange = tokens[j].pc
=============================================================================
