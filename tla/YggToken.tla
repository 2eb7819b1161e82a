------------------------------ MODULE YggToken ------------------------------
(***************************************************************************)
(* Yggdrasil access tokens (yggdrasil_service/token.rs, auth.rs, cache.rs, *)
(* profile.rs, yggdrasil_token_repo.rs, admin_user_service::delete_user):  *)
(* the yggdrasil_tokens table, the 60 second cache of token rows in front  *)
(* of it, and every operation that issues, resolves, replaces, revokes or  *)
(* temporarily invalidates a token.                                        *)
(*                                                                         *)
(* A request is a process of Proc.  The cache read, the database read and  *)
(* the cache write of a lookup are separate awaits of the handler and so   *)
(* separate steps; a handler that changes rows first commits them and then *)
(* deletes the cache entries, again in separate steps.  A transaction      *)
(* reads in one step and writes in its commit step.                        *)
(***************************************************************************)
EXTENDS Naturals, FiniteSets

CONSTANTS
    Users,      \* user ids
    Profiles,   \* Minecraft profile ids
    Owner,      \* [Profiles -> Users]
    Proc,       \* requests being served at the same time
    NULL,
    MaxTok,     \* bound: access tokens ever issued
    Modes       \* the deployments considered, see Mode

\* Access tokens, numbered by issued_at
Tok == 1..MaxTok

\* A yggdrasil_tokens row; expires_at is immutable, see "expired"
Row == [user: Users, sel: Profiles \cup {NULL}, revoked: BOOLEAN, temp: BOOLEAN]

\* A cached copy of a row; history: "late" says the copy no longer agreed
\* with the table when it was written.
Entry == [row: Row, late: BOOLEAN]

Label == {"idle", "find", "fill", "check", "list", "commit", "purge",
          "revokefind", "revoke", "signout", "relist", "rename",
          "textures", "delprofile", "userlist", "userrevoke", "userpurge",
          "userdelete"}

Op == {"none", "validate", "refresh", "invalidate", "authenticate",
       "signout", "rename", "delete", "cleanup"}

\* A deployment: the operations its requests start, whether token transactions
\* never overlap (SQLite), policy.max_active_tokens, the profiles it may have,
\* and a bound on the tokens it issues.
Mode == [ops: SUBSET (Op \ {"none"}), serial: BOOLEAN, active: Nat \ {0},
         profiles: SUBSET Profiles, tokens: 0..MaxTok]

ASSUME YggAssumption ==
    /\ Owner \in [Profiles -> Users]
    /\ MaxTok \in Nat
    /\ \A m \in Modes :
          /\ DOMAIN m = {"ops", "serial", "active", "profiles", "tokens"}
          /\ m.ops \subseteq Op \ {"none"} /\ m.serial \in BOOLEAN
          /\ m.active \in Nat \ {0} /\ m.profiles \subseteq Profiles
          /\ m.tokens \in 0..MaxTok
    /\ NULL \notin Users /\ NULL \notin Profiles

\* Locals of a handler: the token it works on, the copy it read, the profile
\* it selects or deletes, the token it issues, the hashes it will delete from
\* the cache, the tokens already revoked when signout started, the profiles
\* delete_user still has to delete, and history: the tokens whose revocation
\* or temporary invalidation the handler's success vouches for.
Job == [at: Label, op: Op, tok: Tok \cup {0}, copy: Row \cup {NULL},
        user: Users \cup {NULL}, sel: Profiles \cup {NULL}, new: Tok \cup {0},
        hashes: SUBSET Tok, before: SUBSET Tok, todo: SUBSET Profiles,
        whole: BOOLEAN, vouch: SUBSET Tok]

VARIABLES
    rows,      \* [Tok -> Row or NULL], the yggdrasil_tokens table
    cache,     \* [Tok -> Entry or NULL], yggdrasil:token:<hash>
    expired,   \* tokens whose expires_at has passed
    profiles,  \* profiles that exist
    alive,     \* users that exist
    known,     \* tokens whose value a client has been given
    next,      \* number of the next token
    job,       \* [Proc -> Job]
    child,     \* history: [Tok -> SUBSET Tok], replacements by refresh
    acked,     \* history: revoked by a completed refresh, invalidate or signout
    renamed,   \* history: temporarily invalidated by a completed rename
    mode       \* the deployment, constant

history == <<child, acked, renamed>>
tokenVars == <<rows, cache, expired, profiles, alive, known, next, job, history, mode>>

IdleJob == [at |-> "idle", op |-> "none", tok |-> 0, copy |-> NULL,
            user |-> NULL, sel |-> NULL, new |-> 0, hashes |-> {},
            before |-> {}, todo |-> {}, whole |-> FALSE, vouch |-> {}]

TokenInit ==
    /\ rows = [t \in Tok |-> NULL]
    /\ cache = [t \in Tok |-> NULL]
    /\ expired = {}
    /\ mode \in Modes
    /\ profiles \in SUBSET mode.profiles
    /\ alive = Users
    /\ known = {}
    /\ next = 1
    /\ job = [p \in Proc |-> IdleJob]
    /\ child = [t \in Tok |-> {}]
    /\ acked = {} /\ renamed = {}

----------------------------------------------------------------------------
(* Statements *)

Starts(p, op) == job[p].at = "idle" /\ op \in mode.ops

Finish(p) == job' = [job EXCEPT ![p] = IdleJob]

Goto(p, r) == job' = [job EXCEPT ![p] = r]

\* What is left to do once the rows are written: delete the hashes from the
\* cache and answer, with the new token if there is one.
PurgeJob(op, hashes, vouch, new) ==
    [IdleJob EXCEPT !.at = "purge", !.op = op, !.hashes = hashes,
                    !.vouch = vouch, !.new = new]

Unrevoked(t) == rows[t] # NULL /\ ~rows[t].revoked

\* list_active_hashes_for_user
ActiveOf(u) == {t \in Tok : Unrevoked(t) /\ rows[t].user = u}

\* list_active_hashes_for_selected_profile
ActiveFor(f) == {t \in Tok : Unrevoked(t) /\ rows[t].sel = f}

RevokedRows == {t \in Tok : rows[t] # NULL /\ rows[t].revoked}

\* the table after the rows of ts that exist are revoked
Revoking(ts) ==
    [t \in Tok |-> IF t \in ts /\ rows[t] # NULL
                   THEN [rows[t] EXCEPT !.revoked = TRUE] ELSE rows[t]]

\* invalidate_token_cache_hashes
Purging(ts) == [t \in Tok |-> IF t \in ts THEN NULL ELSE cache[t]]

Usable(row, t) == ~row.revoked /\ t \notin expired

\* The process is inside a token transaction.
InTxn(p) == job[p].at \in {"list", "commit"}

TxnFree(p) == mode.serial => \A q \in Proc \ {p} : ~InTxn(q)

----------------------------------------------------------------------------
(* token_for_operation: cache read, database read, cache write, checks.    *)
(* "validate" stands for every caller of active_token that changes no      *)
(* token (validate, join, the profile and texture endpoints).              *)

\* A handler whose lookup returned nothing: invalidate goes on without a
\* token, the others answer InvalidToken.
AfterReject(p) ==
    IF job[p].op = "invalidate"
    THEN [job[p] EXCEPT !.at = "revokefind", !.copy = NULL]
    ELSE IdleJob

Resolve(p, t, op, row) ==
    LET asked == [IdleJob EXCEPT !.op = op, !.tok = t] IN
    IF Usable(row, t) THEN [asked EXCEPT !.at = "fill", !.copy = row]
    ELSE IF op = "invalidate" THEN [asked EXCEPT !.at = "revokefind"]
    ELSE IdleJob

LookupHit(p, t, op) ==
    /\ Starts(p, op) /\ t \in known
    /\ cache[t] # NULL
    /\ Goto(p, Resolve(p, t, op, cache[t].row))
    /\ UNCHANGED <<rows, cache, expired, profiles, alive, known, next, history>>

LookupMiss(p, t, op) ==
    /\ Starts(p, op) /\ t \in known
    /\ cache[t] = NULL
    /\ Goto(p, [IdleJob EXCEPT !.at = "find", !.op = op, !.tok = t])
    /\ UNCHANGED <<rows, cache, expired, profiles, alive, known, next, history>>

LookupFind(p) ==
    /\ job[p].at = "find"
    /\ Goto(p, IF rows[job[p].tok] = NULL THEN AfterReject(p)
               ELSE Resolve(p, job[p].tok, job[p].op, rows[job[p].tok]))
    /\ UNCHANGED <<rows, cache, expired, profiles, alive, known, next, history>>

\* set_token, then the temporary invalidation, client token and ban checks;
\* the last two may refuse any token.
LookupFill(p) ==
    LET t == job[p].tok
        accepted == IF job[p].op = "validate" THEN IdleJob
                    ELSE [job[p] EXCEPT !.at = "check"]
    IN
    /\ job[p].at = "fill"
    /\ cache' = [cache EXCEPT ![t] = [row |-> job[p].copy,
                                      late |-> rows[t] # job[p].copy]]
    /\ \/ Goto(p, AfterReject(p))
       \/ /\ job[p].copy.temp => job[p].op = "refresh"
          /\ Goto(p, accepted)
    /\ UNCHANGED <<rows, expired, profiles, alive, known, next, history>>

----------------------------------------------------------------------------
(* authenticate and refresh *)

\* resolve_login_target and list_by_user: a profile-name login forces its
\* profile, otherwise a sole profile is selected.
Authenticate(p, u, sel) ==
    LET mine == {f \in profiles : Owner[f] = u} IN
    /\ Starts(p, "authenticate")
    /\ u \in alive
    /\ sel \in mine \/ (sel = NULL /\ Cardinality(mine) # 1)
    /\ TxnFree(p)
    /\ Goto(p, [IdleJob EXCEPT !.at = "list", !.op = "authenticate",
                               !.user = u, !.sel = sel])
    /\ UNCHANGED <<rows, cache, expired, profiles, alive, known, next, history>>

\* Mutant: the transaction trusts the copy the lookup returned.
RefreshCheckTrustsCopy(p, sel) ==
    LET c == job[p].copy IN
    /\ job[p].at = "check" /\ job[p].op = "refresh"
    /\ c.user \in alive
    /\ \/ sel = c.sel
       \/ c.sel = NULL /\ sel \in profiles /\ Owner[sel] = c.user
    /\ TxnFree(p)
    /\ Goto(p, [job[p] EXCEPT !.at = "list", !.user = c.user,
                              !.sel = sel, !.copy = NULL])
    /\ UNCHANGED <<rows, cache, expired, profiles, alive, known, next, history>>

\* refresh after the lookup: the user must exist, a token that has a profile
\* keeps it, one without may be given an own profile.  Then refresh_token
\* opens its transaction and looks the old token up again.
RefreshCheck(p, sel) ==
    LET c == job[p].copy IN
    /\ job[p].at = "check" /\ job[p].op = "refresh"
    /\ c.user \in alive
    /\ \/ sel = c.sel
       \/ c.sel = NULL /\ sel \in profiles /\ Owner[sel] = c.user
    /\ Unrevoked(job[p].tok)
    /\ TxnFree(p)
    /\ Goto(p, [job[p] EXCEPT !.at = "list", !.user = c.user,
                              !.sel = sel, !.copy = NULL])
    /\ UNCHANGED <<rows, cache, expired, profiles, alive, known, next, history>>

\* Mutant: one token too many is kept.
PrunedOffByOne(ts) ==
    {t \in ts : Cardinality({s \in ts : s > t}) > mode.active}

\* prune_oldest_for_user: all but the max_active_tokens newest
Pruned(ts) == {t \in ts : Cardinality({s \in ts : s > t}) >= mode.active}

\* issue_token_in_connection: insert the new row and list the unrevoked ones,
\* newest first; all beyond max_active_tokens are to be pruned.
IssueList(p) ==
    LET others == ActiveOf(job[p].user) \ {job[p].tok} IN
    /\ job[p].at = "list"
    /\ next <= mode.tokens
    /\ next' = next + 1
    /\ Goto(p, [job[p] EXCEPT !.at = "commit", !.new = next,
                              !.hashes = Pruned(others \cup {next})])
    /\ UNCHANGED <<rows, cache, expired, profiles, alive, known, history>>

\* The writes of the transaction: the row updates find every row, the
\* foreign keys find the user and the profile.
CanCommit(p) ==
    /\ job[p].user \in alive
    /\ job[p].sel # NULL => job[p].sel \in profiles
    /\ \A t \in (job[p].hashes \cup {job[p].tok}) \ {0, job[p].new} :
            rows[t] # NULL

IssueCommit(p) ==
    LET new == job[p].new
        gone == job[p].hashes \cup ({job[p].tok} \ {0})
    IN
    /\ job[p].at = "commit"
    /\ CanCommit(p)
    /\ rows' = [Revoking(gone) EXCEPT ![new] =
                  [user |-> job[p].user, sel |-> job[p].sel,
                   revoked |-> new \in job[p].hashes, temp |-> FALSE]]
    /\ child' = IF job[p].tok = 0 THEN child
                ELSE [child EXCEPT ![job[p].tok] = @ \cup {new}]
    /\ Goto(p, PurgeJob(job[p].op, gone, gone, new))
    /\ UNCHANGED <<cache, expired, profiles, alive, known, next, acked, renamed>>

----------------------------------------------------------------------------
(* invalidate and signout *)

\* selected_profile_for_token fails when the copy names a deleted profile:
\* invalidate then answers an error and revokes nothing.
InvalidateProfile(p) ==
    LET sel == job[p].copy.sel IN
    /\ job[p].at = "check" /\ job[p].op = "invalidate"
    /\ Goto(p, IF sel # NULL /\ sel \notin profiles THEN IdleJob
               ELSE [job[p] EXCEPT !.at = "revokefind", !.copy = NULL])
    /\ UNCHANGED <<rows, cache, expired, profiles, alive, known, next, history>>

\* revoke_by_access_hash: the select, then the update by id, which fails if
\* the row has been deleted in between.
RevokeFind(p) ==
    LET t == job[p].tok IN
    /\ job[p].at = "revokefind"
    /\ Goto(p, IF Unrevoked(t) THEN [job[p] EXCEPT !.at = "revoke"]
               ELSE PurgeJob("invalidate", {t}, {t}, 0))
    /\ UNCHANGED <<rows, cache, expired, profiles, alive, known, next, history>>

RevokeUpdate(p) ==
    LET t == job[p].tok IN
    /\ job[p].at = "revoke"
    /\ rows' = Revoking({t})
    /\ Goto(p, IF rows[t] = NULL THEN IdleJob
               ELSE PurgeJob("invalidate", {t}, {t}, 0))
    /\ UNCHANGED <<cache, expired, profiles, alive, known, next, history>>

\* revoke_all_for_user_returning_hashes: the unrevoked tokens, and the ones
\* already revoked (of which the code lists the last ten seconds; older ones
\* are in neither of its two lists).
SignoutList(p, u) ==
    /\ Starts(p, "signout")
    /\ u \in alive
    /\ Goto(p, [IdleJob EXCEPT !.at = "signout", !.op = "signout", !.user = u,
                               !.hashes = ActiveOf(u), !.before = RevokedRows,
                               !.vouch = ActiveOf(u)])
    /\ UNCHANGED <<rows, cache, expired, profiles, alive, known, next, history>>

SignoutUpdate(p) ==
    LET revoking == ActiveOf(job[p].user) IN
    /\ job[p].at = "signout"
    /\ rows' = Revoking(revoking)
    /\ Goto(p, [job[p] EXCEPT !.at = "relist",
                              !.vouch = @ \cup revoking])
    /\ UNCHANGED <<cache, expired, profiles, alive, known, next, history>>

\* Mutant: the tokens issued while signout ran are not looked for.
SignoutRelistSkipped(p) ==
    /\ job[p].at = "relist"
    /\ Goto(p, PurgeJob("signout", job[p].hashes, job[p].vouch, 0))
    /\ UNCHANGED <<rows, cache, expired, profiles, alive, known, next, history>>

SignoutRelist(p) ==
    LET mine == {t \in RevokedRows : rows[t].user = job[p].user} IN
    /\ job[p].at = "relist"
    /\ Goto(p, PurgeJob("signout",
                        job[p].hashes \cup (mine \ job[p].before),
                        job[p].vouch, 0))
    /\ UNCHANGED <<rows, cache, expired, profiles, alive, known, next, history>>

----------------------------------------------------------------------------
(* rename, profile deletion, user deletion, cleanup *)

\* rename_profile: list the profile's tokens and delete them from the cache,
\* rename and temporarily invalidate in one transaction, delete them again.
RenameList(p, f) ==
    LET bound == ActiveFor(f) IN
    /\ Starts(p, "rename")
    /\ f \in profiles
    /\ cache' = Purging(bound)
    /\ Goto(p, [IdleJob EXCEPT !.at = "rename", !.op = "rename", !.sel = f,
                               !.hashes = bound, !.vouch = bound])
    /\ UNCHANGED <<rows, expired, profiles, alive, known, next, history>>

RenameCommit(p) ==
    /\ job[p].at = "rename"
    /\ job[p].sel \in profiles
    /\ rows' = [t \in Tok |-> IF t \in ActiveFor(job[p].sel)
                              THEN [rows[t] EXCEPT !.temp = TRUE] ELSE rows[t]]
    /\ Goto(p, PurgeJob("rename", job[p].hashes, job[p].vouch, 0))
    /\ UNCHANGED <<cache, expired, profiles, alive, known, next, history>>

\* delete_profile_for_user: delete the profile's tokens from the cache, delete
\* its textures, revoke its tokens, delete its row.
DeleteProfileList(p, f) ==
    /\ Starts(p, "delete")
    /\ f \in profiles
    /\ cache' = Purging(ActiveFor(f))
    /\ Goto(p, [IdleJob EXCEPT !.at = "textures", !.op = "delete", !.sel = f])
    /\ UNCHANGED <<rows, expired, profiles, alive, known, next, history>>

DeleteProfileRevoke(p) ==
    /\ job[p].at = "textures"
    /\ rows' = Revoking(ActiveFor(job[p].sel))
    /\ Goto(p, [job[p] EXCEPT !.at = "delprofile"])
    /\ UNCHANGED <<cache, expired, profiles, alive, known, next, history>>

\* The row goes, and selected_profile_id is set to NULL where it was used.
DeleteProfileRow(p) ==
    LET f == job[p].sel IN
    /\ job[p].at = "delprofile"
    /\ profiles' = profiles \ {f}
    /\ rows' = [t \in Tok |-> IF rows[t] # NULL /\ rows[t].sel = f
                              THEN [rows[t] EXCEPT !.sel = NULL] ELSE rows[t]]
    /\ IF job[p].whole
       THEN Goto(p, [job[p] EXCEPT !.at = "userlist", !.sel = NULL])
       ELSE Finish(p)
    /\ UNCHANGED <<cache, expired, alive, known, next, history>>

\* delete_user: delete every profile listed at the start, then the tokens,
\* then the row.
DeleteUser(p, u) ==
    /\ Starts(p, "delete")
    /\ u \in alive
    /\ Goto(p, [IdleJob EXCEPT !.at = "userlist", !.op = "delete", !.user = u,
                               !.whole = TRUE,
                               !.todo = {f \in profiles : Owner[f] = u}])
    /\ UNCHANGED <<rows, cache, expired, profiles, alive, known, next, history>>

DeleteUserProfile(p, f) ==
    /\ job[p].at = "userlist"
    /\ f \in job[p].todo
    /\ IF f \in profiles
       THEN /\ cache' = Purging(ActiveFor(f))
            /\ Goto(p, [job[p] EXCEPT !.at = "textures", !.sel = f,
                                      !.todo = @ \ {f}])
       ELSE /\ UNCHANGED cache
            /\ Goto(p, [job[p] EXCEPT !.todo = @ \ {f}])
    /\ UNCHANGED <<rows, expired, profiles, alive, known, next, history>>

DeleteUserList(p) ==
    LET mine == ActiveOf(job[p].user) IN
    /\ job[p].at = "userlist" /\ job[p].todo = {}
    /\ cache' = Purging(mine)
    /\ Goto(p, [job[p] EXCEPT !.at = "userrevoke", !.hashes = mine])
    /\ UNCHANGED <<rows, expired, profiles, alive, known, next, history>>

DeleteUserRevoke(p) ==
    /\ job[p].at = "userrevoke"
    /\ rows' = Revoking(ActiveOf(job[p].user))
    /\ Goto(p, [job[p] EXCEPT !.at = "userpurge"])
    /\ UNCHANGED <<cache, expired, profiles, alive, known, next, history>>

DeleteUserPurge(p) ==
    /\ job[p].at = "userpurge"
    /\ cache' = Purging(job[p].hashes)
    /\ Goto(p, [job[p] EXCEPT !.at = "userdelete", !.hashes = {}])
    /\ UNCHANGED <<rows, expired, profiles, alive, known, next, history>>

\* The row goes, and with it, by cascade, the user's tokens and profiles.
DeleteUserRow(p) ==
    LET u == job[p].user IN
    /\ job[p].at = "userdelete"
    /\ alive' = alive \ {u}
    /\ profiles' = {f \in profiles : Owner[f] # u}
    /\ rows' = [t \in Tok |-> IF rows[t] # NULL /\ rows[t].user = u
                              THEN NULL ELSE rows[t]]
    /\ Finish(p)
    /\ UNCHANGED <<cache, expired, known, next, history>>

\* cleanup_expired_or_revoked_tokens; invalidate_all_tokens follows
CleanupDelete(p) ==
    /\ Starts(p, "cleanup")
    /\ rows' = [t \in Tok |-> IF t \in expired \cup RevokedRows
                              THEN NULL ELSE rows[t]]
    /\ Goto(p, PurgeJob("cleanup", Tok, {}, 0))
    /\ UNCHANGED <<cache, expired, profiles, alive, known, next, history>>

\* The last step of refresh, authenticate, invalidate, signout, rename and
\* cleanup: delete the cache entries and answer.
Purge(p) ==
    /\ job[p].at = "purge"
    /\ cache' = Purging(job[p].hashes)
    /\ IF job[p].op = "rename"
       THEN renamed' = renamed \cup job[p].vouch /\ UNCHANGED acked
       ELSE acked' = acked \cup job[p].vouch /\ UNCHANGED renamed
    /\ known' = known \cup ({job[p].new} \ {0})
    /\ Finish(p)
    /\ UNCHANGED <<rows, expired, profiles, alive, next, child>>

----------------------------------------------------------------------------
(* Time and failures *)

\* TOKEN_TTL_SECS passes without a renewal.
Evict(t) ==
    /\ cache[t] # NULL
    /\ cache' = [cache EXCEPT ![t] = NULL]
    /\ UNCHANGED <<rows, expired, profiles, alive, known, next, job, history>>

Expire(t) ==
    /\ rows[t] # NULL /\ t \notin expired
    /\ expired' = expired \cup {t}
    /\ UNCHANGED <<rows, cache, profiles, alive, known, next, job, history>>

\* The request dies, or one of its checks or statements fails: an open
\* transaction is rolled back, what was committed stays, and the cache keeps
\* what the handler had still to delete.
Abort(p) ==
    /\ job[p].at # "idle"
    /\ Finish(p)
    /\ UNCHANGED <<rows, cache, expired, profiles, alive, known, next, history>>

Lookup(p) == \E t \in Tok, op \in {"validate", "refresh", "invalidate"} :
                LookupHit(p, t, op) \/ LookupMiss(p, t, op)

Request(p) ==
    \/ Lookup(p) \/ LookupFind(p) \/ LookupFill(p)
    \/ \E u \in Users, sel \in Profiles \cup {NULL} : Authenticate(p, u, sel)
    \/ \E sel \in Profiles \cup {NULL} : RefreshCheck(p, sel)
    \/ IssueList(p) \/ IssueCommit(p)
    \/ InvalidateProfile(p) \/ RevokeFind(p) \/ RevokeUpdate(p)
    \/ \E u \in Users : SignoutList(p, u)
    \/ SignoutUpdate(p) \/ SignoutRelist(p)
    \/ \E f \in Profiles : RenameList(p, f)
    \/ RenameCommit(p)
    \/ \E f \in Profiles : DeleteProfileList(p, f)
    \/ DeleteProfileRevoke(p) \/ DeleteProfileRow(p)
    \/ \E u \in Users : DeleteUser(p, u)
    \/ \E f \in Profiles : DeleteUserProfile(p, f)
    \/ DeleteUserList(p) \/ DeleteUserRevoke(p) \/ DeleteUserPurge(p)
    \/ DeleteUserRow(p)
    \/ CleanupDelete(p) \/ Purge(p) \/ Abort(p)

TokenStep ==
    \/ \E p \in Proc : Request(p)
    \/ \E t \in Tok : Evict(t) \/ Expire(t)

TokenNext == TokenStep /\ UNCHANGED mode

TokenSpec == TokenInit /\ [][TokenNext]_tokenVars

----------------------------------------------------------------------------
(* Properties *)

\* Types of the table, the cache, the handlers' locals and the history; token 0
\* (no token) never becomes known to a client.
TokensTyped ==
    /\ rows \in [Tok -> Row \cup {NULL}]
    /\ cache \in [Tok -> Entry \cup {NULL}]
    /\ expired \in SUBSET Tok
    /\ profiles \in SUBSET Profiles
    /\ alive \in SUBSET Users
    /\ known \in SUBSET Tok
    /\ next \in 1..(MaxTok + 1)
    /\ job \in [Proc -> Job]
    /\ child \in [Tok -> SUBSET Tok]
    /\ acked \in SUBSET Tok
    /\ renamed \in SUBSET Tok
    /\ mode \in Modes

\* A lookup of the token would now be answered from the cache, positively.
CacheAccepts(t) ==
    cache[t] # NULL /\ Usable(cache[t].row, t) /\ ~cache[t].row.temp

\* When refresh, invalidate, signout or the pruning of an authenticate has
\* answered, each token it revoked is out of the cache, also one issued while
\* signout ran; when a rename has answered, the tokens bound to the profile
\* when it began are refused by validate and join, also those cached again
\* while its transaction ran.  Only a lookup that had read the row before the
\* commit can still bring a copy back.  (revoke_by_access_token, refresh_token,
\* revoke_all_for_user, rename_profile: commit, then delete the entries.)
RevocationReachesCache ==
    \A t \in acked \cup renamed :
        CacheAccepts(t) /\ rows[t] # NULL => cache[t].late

\* "refresh must revoke the old token and issue the replacement in one
\* transaction": a replaced token is never unrevoked again; and where token
\* transactions are serial it is replaced at most once, whatever copies of it
\* are cached.  (revoke_by_access_hash inside the refresh transaction.)
ReplacedOnce ==
    \A t \in Tok : /\ child[t] # {} => ~Unrevoked(t)
                   /\ mode.serial => Cardinality(child[t]) <= 1

\* No user holds more than max_active_tokens unrevoked tokens once the
\* issuing transactions are over.  (prune_oldest_for_user; needs serial
\* transactions.)
ActiveBounded ==
    mode.serial => \A u \in Users : Cardinality(ActiveOf(u)) <= mode.active
=============================================================================
