# TLA+ models of AsterYggdrasil

AsterYggdrasil is an authlib-injector compatible Yggdrasil server with a web
panel. It issues Minecraft access tokens, answers the join / hasJoined
handshake of game servers, keeps profiles and textures, and runs its own site
accounts with JWT sessions, passkeys and external logins. The backend is a
Rust process (actix-web, `src/src`) in front of a SQL database (SQLite,
PostgreSQL or MySQL), a cache (memory or Redis) and an object store (local
directory or S3). Several instances may share database, cache and store, so
that everything below may happen on two instances at once.

Paths in this file are relative to the repository (`src/`).

## 1. Inventory

| Component | State | Operations | Interacts with | What is hard | What makes it correct | Module |
|---|---|---|---|---|---|---|
| **Site sessions**: `auth_service.rs`, `password_change.rs`, `auth_session_repo.rs`, `user_repo.rs` | `users.session_version`, `status`, `must_change_password`; `auth_sessions`; the JWTs clients hold | login, refresh, logout, revocations, password change and reset, admin edit, deletion, cleanup | external logins and passkeys issue through it | the user row is read long before a token is signed from it; two refreshes of one token | a refresh token is redeemed once; a revoked session stays dead; an invalidation voids older tokens | `AuthSession` |
| **Yggdrasil tokens**: `yggdrasil_service/{token,auth,cache,profile}.rs` | `yggdrasil_tokens`; a 60 s cache of rows | authenticate, refresh, validate, invalidate, signout, pruning, rename, deletion, cleanup | join, textures and profiles resolve tokens | cache-aside lookups against revocations; pruning under overlap | a completed revocation reaches the cache; a token is replaced once; at most `max_active_tokens` | `YggToken` |
| **Background tasks**: `task_service/dispatch`, `task_service/admin.rs`, `background_task_repo` | `background_tasks`, a lock row per lane | create, claim, heartbeat, outcomes, manual retry, cleanup | periodic tasks record their runs here | leases that expire under a live worker; rows listed before the claim | only the latest claim writes the outcome; the lane limit; every task ends | `TaskLease`, `TaskLifecycle` |
| **Textures**: `texture_service.rs`, `minecraft_texture_repo.rs`, object storage, maintenance | rows, bindings, presets, objects by hash, two caches | upload, import, replace, edit, copy, bind, unbind, delete, purge, maintain | profiles, store, caches | row and object live in two systems; rows share objects; readers fill caches late | no row without its object, nothing left over, caches current | `TextureStore` |
| **Avatars**: `profile_service/*` | `user_profiles`, two pictures per version | upload, change of source, display name, deletion with the user | the same object store as textures | put, write and delete are separate, each may fail | an uploaded avatar has its pictures, none is left over | `Avatars` |
| **Library**: `texture_service.rs`, tags, reports | status, visibility, tags, reports | submit, review, take down, report, tag | wardrobe | a decision is about a row read earlier | what is listed was cleared; verdicts are final | `TextureLibrary` |
| **Accounts**: `auth_service.rs`, `user_invitation_service.rs`, `admin_user_service.rs` | `users`, `contact_verification_tokens`, `user_invitations` | set up, register, activate, change address, reset, invite, administer | sessions, mail | double submission; late confirmation; overlapping edits | links and invitations good once; verified means proven | `Accounts` |
| **External authentication**: `external_auth_service/*` | providers, flows, identities, Minecraft links | start, callback, mail, password link, unlink, device code, administration | sessions, accounts, profiles | callbacks twice or at once; providers changed during a flow | a flow ends once; a visitor has one account | `ExternalAuth` |
| **Join, bans, forwarding, profiles**: `yggdrasil_service/session.rs`, `ban_service.rs`, `session_forward*`, `profile.rs` | join entries (30 s), `bans` and their events, forwarding servers, profiles, login names, name summaries | join, hasJoined, ban, edit, lift, administer upstreams, create, bind, rename, delete; register, change a login name | tokens, caches, upstreams, the names of users | token, ban and profile are read long before the answer; upstreams and the local check fail; no index spans profile and login names | the local check keeps out who is banned, who joined is found, the log tells the ban, names are own | `YggJoin` |
| **Configuration**: `config/*`, `config_service`, `yggdrasil_signature.rs` | `system_config`, a snapshot and audit settings per node | start, save, delete, act, notify, reload, rotate keys | every service reads the snapshot | notifications lost; checks against stale snapshots; crash within a rotation | nodes converge, policies stay usable, signatures verify | `ConfigValues`, `ConfigStore` |
| **Passkeys and captcha**: `passkey_service.rs`, `captcha_service.rs` | credentials, challenges in the cache | register, rename, delete, log in; issue, answer | sessions | take, check, write back | a challenge is spent once; copies are refused | `Challenges` |
| **Runtime**: `tasks/runtime*`, `mail_outbox_service*`, `audit_service/manager.rs`, shutdown | lease, claims, records, outbox, audit buffer | elect, run, record, deliver, drain, flush | tasks, mail, audit | leases and claims that run out, crashes, a node that stops | records and mails once; drained and flushed; mails settle | `BackgroundRuntime` |
| Texture rendering, previews, overview, HTTP layer, migrations, frontend | none of their own, or read only | | | | | none, see section 6 |

`PROJECT.json` lists every component with its sources and status, and under
`hazards` 40 places where the code can go wrong in a way a test would hardly
reach.

## 2. Modules

Each specification `M` has an instance `MCM` for TLC; proofs about `M` are in
`M_proofs` or in a module that several specifications share (section 5).

### Common conventions

* **A request is a process**, cut where it awaits something: every database
  statement, cache call or upstream call whose answer is used later is a step
  of its own, and any other request may run in between. In `AuthSession`,
  `YggToken` and `TaskLease` the locals that survive an await are fields of
  `job` (`disp`, `admin`). In the later modules a request is data: `todo[c]` is
  the list of statements client `c` still has to execute, an action executes
  the first one and may put others in front of the rest (`Then`), and an early
  return or an error drops the list (`Stop`). `ConfigStore` and `Challenges`
  number their requests and keep the step each is at (`job[j].at`).
* **Workloads.** What clients may ask for is part of the initial state:
  the workload (`load`, or `plan` in `TextureStore`) is chosen in `Init` and
  never changes. It names the operations of each client, the inputs, the rows there are at first and how
  many faults may happen; the `MC` modules list the workloads. A `serial`
  workload runs one request at a time, which is how an administrator's or a
  test's sequence of calls behaves; the others overlap two or more. A property
  that speaks of serial workloads only says so (`load.serial =>`), because
  with overlaps the code does break it (section 4).
* **Transactions.** The code opens transactions with the database's default
  isolation level and takes no row locks except the task lane's lock row. A
  transaction reads in one step and writes in its commit step, and what it
  read may be stale by then (READ COMMITTED). SQLite serialises writers:
  `YggToken`'s `mode.serial` says that token transactions never overlap,
  `AuthSession`'s `SerialBumps` that the `session_version` writers of a user
  never do.
* **Faults.** A request may die at any await (`Crash`, `Abort`, `Lose`): an
  open transaction rolls back, committed statements stay. How often is bounded
  by `faults`, `left` or `Faults`.
* **Time.** `Expire`, `Evict`, `Due`, `LeaseExpires` and their like let a
  deadline pass at any moment. Only bans, which may begin later, have a clock.
* **Fresh values.** Random UUIDs and hashes are values not used before.
* **History variables** are marked as such where they are declared. They are
  written and never read by a guard, except that `epoch` in `AuthSession`
  bounds the invalidations started. `tangled`, `crossed`, `missed` and `stale`
  record that two requests met where the code does not protect them, or that a
  step of several failed; the properties then say what holds otherwise.
* **Mutants.** Operators marked "Mutant" stand before the definition they
  vary. Each is a plausible slip (a dropped filter, a missing reset) under
  which one property must fail; the specifications do not use them.

### AuthSession

| Variable | Code |
|---|---|
| `users` | `users`: existence, `status`, `must_change_password`, `session_version` |
| `sessions` | `auth_sessions` by session id |
| `tokens` | token pairs handed out, by refresh jti, with the claims both tokens carry |
| `job` | locals of each request |
| `epoch` | history: invalidations committed per user |

| Action | Code |
|---|---|
| `LoginRead`, `IssueTokens`, `IssueFails` | `login` and every external or passkey login up to `issue_tokens` |
| `ReissueRead` | `issue_tokens_for_user_id`, after a password change |
| `RefreshReadSession`, `RefreshReadUser`, `RotateTokens`, `RotateLost` | `refresh` and the compare-and-set of `rotate_refresh` |
| `Logout`, `RevokeSession`, `OthersRead`, `OthersRevoke` | `logout`, `revoke_session`, `revoke_other_sessions` |
| `BumpRead`, `PasswordCommit` | `change_password`, `set_local_password`, `confirm_password_reset` |
| `BumpRead`, `BumpCommit`, `BumpPurge` | `revoke_user_sessions` |
| `AdminRead`, `AdminCommit` | `update_user` / `update_admin` |
| `DeleteRevoke`, `DeleteCommit` | `delete_user` |
| `CommitFails`, `Crash`, `Expire`, `Cleanup` | vanished row, crash, expiry, periodic cleanup |

`Accepted` is `current_user_and_claims_from_token` without the access token's
own expiry, which only removes tokens. Password verification, captcha and
cookies decide whether a request starts and are left out.

### YggToken

| Variable | Code |
|---|---|
| `rows` | `yggdrasil_tokens`, tokens numbered by `issued_at` |
| `cache` | `yggdrasil:token:<hash>` entries: the whole row, as cached |
| `expired`, `profiles`, `alive` | passed `expires_at`, existing profiles and users |
| `known` | tokens a client has been given |
| `mode` | the deployment: operations in use, `max_active_tokens`, profiles, tokens, and whether token transactions are serial |
| `job` | locals of each request |

| Action | Code |
|---|---|
| `LookupHit`, `LookupMiss`, `LookupFind`, `LookupFill` | `token_for_operation`: cache read, database read, cache write, checks |
| `Authenticate`, `RefreshCheck`, `IssueList`, `IssueCommit` | `authenticate`, `refresh`, `issue_token_in_connection`, `prune_oldest_for_user` |
| `InvalidateProfile`, `RevokeFind`, `RevokeUpdate` | `invalidate`, `revoke_by_access_hash` |
| `SignoutList`, `SignoutUpdate`, `SignoutRelist` | `revoke_all_for_user_returning_hashes` |
| `RenameList`, `RenameCommit` | `rename_profile` |
| `DeleteProfile*`, `DeleteUser*` | `delete_profile_for_user`, `delete_user` with its cascade |
| `CleanupDelete`, `Purge` | cleanup, and the cache deletion plus answer that ends a handler |
| `Evict`, `Expire`, `Abort` | cache TTL, expiry, crash or failed check |

A cache hit is written back by `set_token`, which renews its 60 seconds: a
stale copy lives for as long as it is used. `mode` is chosen in `Init` and never
changes, so that each question is asked on a state space of its own.

### TaskLease and TaskLifecycle

| Variable | Code |
|---|---|
| `task` | `background_tasks`: status, `processing_token`, `attempt_count`, `failure_can_retry`, whether `next_run_at` has passed, the lease |
| `disp` | a dispatcher inside `claim_due_for_lane`: the rows it listed, the capacity it counted |
| `runs` | the claimed batch, each row as read before the claim, with the new token |
| `lane` | the lane's lock row |
| `admin` | an administrator between the check and the reset of a manual retry |

| Action | Code |
|---|---|
| `CreateTask`, `RecordRun` | `create_typed_task_record`, `record_runtime_task_run` |
| `ListClaimable`, `CountActive`, `ClaimCandidates` | `claim_due_for_lane`: list outside the transaction, lock the lane and count, `try_claim` each candidate, commit |
| `Heartbeat`, `LeaseLost` | `touch_heartbeat`, `mark_progress`, and an update that matches no row |
| `Succeed`, `RunFails`, `ReleaseRun`, `LoseOutcome` | `mark_task_succeeded`, `mark_task_retry`, `mark_task_failed`, `release_task_for_shutdown`, an outcome write that fails |
| `RetryRead`, `RetryReset`, `CleanupTask` | `retry_task_for_admin`, `reset_for_manual_retry`, `cleanup_tasks_for_admin` |
| `Due`, `LeaseExpires`, `Crash` | deadlines and crashes |

The claims of a batch are one step: a row already claimed stays locked by the
transaction until it commits, so no other writer sees a part of the batch. A
dispatcher is one server instance and works on one batch at a time. A row's
token and attempts travel in the run, because the code computes
`attempt_count` and the fence from the row it listed before the claim.

The registry of the current release holds one kind, `SystemRuntime`, whose
rows are created terminal (`RecordRun`). `create_typed_task_record` is the
entry for domain kinds; the repository exercises it from tests. The model
covers both, with one lane.

`TaskLifecycle` states what the table promises in twenty lines: phases in
order, a fence that moves by one with each claim and never otherwise, and a
finished task that is only retried or removed. `TaskLease` maps `pending` and
`retry` to "ready", `processing` to "running", and `processing_token` to the
fence.

### TextureStore

| Variable | Code |
|---|---|
| `rows`, `bind`, `preset`, `stamp` | `minecraft_textures`, `minecraft_profile_textures`, the preferences, `minecraft_profiles.updated_at` |
| `blobs` | objects of the store; the key is a function of the hash |
| `lookup`, `props` | the blob-lookup cache and the profile-properties cache |
| `stale` | what a failed request may have left behind, until maintenance, and the users whose deletion was broken off |

Requests: uploads from site and launcher, refresh and application of official
textures, replacement with its `WARDROBE_REPLACE_MAX_ATTEMPTS`, metadata, copy,
the deletions by owner, administrator, hash, profile and user, binding and
unbinding, presets, `register_bound_textures_in_wardrobe` and the orphan
clean-up, and the two readers that fill the caches. Time stamps and row ids are
reused once nobody holds them, which bounds what is alive and not how long a
behaviour is. A deletion of all textures of a profile refreshes the profile once,
after the last (`Due`, `ProfileEnd`). The sweep of orphans clears `stale` of
objects only if none of its own deletions failed.

### Avatars

`Avatars` extends `TextureStore` with the users' public profiles and is what
the run checks (`StoreSpec`): `face` (`user_profiles`: source and version),
`pictures` (objects by user, version and size) and `gone` (deleted users).
Requests: `UploadAvatar`, `PutAvatarSource`, `PatchProfile`, and `DeleteUser`,
which deletes the avatar's pictures, then the textures of the user's profiles
and wardrobe with the statements of `TextureStore`, and at last the user with
what the foreign keys take along. The module also lists the records a statement of
either module can be (`StoreJobs`), which is the type of `todo`.

### TextureLibrary

`tex` (owner, content, visibility, status), `tags`, `tagged`, `reports`,
`policy`. Requests: upload, change of visibility, replacement, submission,
withdrawal, copy, retagging, deletion and report by users; approval, rejection,
take-down, removal, the two verdicts on a report, the administration of tags
and the policy by administrators. An update writes the columns the code writes
and not the row it read. Two histories say what the rows do not: `cleared`
(contents approved, or submitted while no review was required) and `overtaken`
(contents an approval published although it had read another). A new row starts
without either (`Forget`).

### Accounts

`users`, `tokens`, `invites`, `last` (ids are never reused, because mailed links
outlive rows). Requests: `SetupFirstAdmin`, `Register`, `ResendActivation`,
`RequestEmailChange`, `ResendEmailChange`, `RequestPasswordReset`,
`ConfirmContactVerification`, `ConfirmPasswordReset`, the four operations on
invitations and the three on users. Passwords and sessions are `AuthSession`'s.

### ExternalAuth

`users`, `provs`, `links` (identities), `flows` of all four kinds, `profiles`.
Requests: `StartLogin`, `FinishLogin`, `StartEmailVerification`,
`ConfirmEmailVerification`, `LinkWithPassword`, `DeleteLink`, `StartBinding`,
`FinishBinding`, `CheckDeviceCodeStatus`, and creation, update and deletion of
providers. A provider answers with any of the workload's claims. `barred`
remembers for each request which providers have been off ever since it arrived.

### YggJoin

`profile`, `token`, `ban`, `log` (events of a ban), `fwd`, the caches `list`,
`joined` and `summary`, `login` (`users.username`), and `now`. Requests: `Join`
and `Ask` (hasJoined, which walks the upstreams), the operations on bans,
forwarding servers and profiles, the profile created at a first login through
LinuxDo (`AutoCreateProfile`), the lookup by names, registration
(`RegisterUser`) and a login name changed by an administrator
(`UpdateUsername`). The last two check a name with `ensure_username_available`
and write it with a later statement, as creation and renaming do with
`profile_name_taken`.

A failed statement ends its request (`Lose`) where the code passes the error
on. Where it does not, the request continues: `LocalFails` is a local check
that could not read the profile, the bans or the properties under a list of
upstreams, which counts as a failed upstream; `CacheFails` is a cache that does
not answer, which is a miss.

`shut` and `sure` remember, for each question, what kept players out (a profile
that is gone, a ban on its owner, an official account that is not bound) and
which profile had joined, during all of it; `sure` is given up when a statement
of the question fails. `raced` has the names that two requests had both found
free and were about to take.

### ConfigValues and ConfigStore

`ConfigValues` has no state: the definitions of all keys, what the
administration API makes of a value (`Normalize`) and what the policies make of
a row (`Effective` and the policy operators). A string is a pair of its form
and content, so that "a number between blanks" and "a word for true" stay
apart. `ConfigStore` keeps `db`, and for each node `snap`, `audit`, how far its
start is (`stage`, `found`), its reload (`sub`) and unread notifications (`box`).
`missed` remembers the nodes that were past loading when rows changed without a
notification to them: a start that writes defaults or a key tells nobody, a
notification may be lost, a process may stop before it sends one. The
specification is called `ConfigSpec`, because `Deployment_proofs` extends
`TaskLease` too.

### Challenges

`user`, `keys` (passkeys), `chal` and `cap` (challenges in the cache), `aged`,
`enabled`, `device` (authenticators), `request` (what each request is at). Steps are named after the functions they
model (`take_login_challenge`, `update_credential_after_auth`,
`verify_answer`, ...). The names that `AuthSession` has too carry a prefix
(`ChallengeSpec`, `ChallengeNext`) or are others (`Persons`, `request`), so that
one module can prove about both.

### BackgroundRuntime

`node` (phase of start and shutdown), `lease`, `claim`, `run`, `record`, `mail`,
`post` (a dispatch under way), `buf`, `batch`, `table` and `query` of the audit
log; `late` notes the mails enqueued while a node drains since its last batch. The lease, the claims, the outbox store and the buffered writer are
libraries outside the repository and modelled from their use; in particular a
run is recorded before its claim is completed.

## 3. Runs

| Run | Instance | Shows |
|---|---|---|
| `auth_sessions` | 1 user, 2 requests, 3 refresh tokens, 2 sessions, 2 invalidations, serial `session_version` writers | `RedeemedOnce`, `RowHeadsItsChain`: a token presented twice is redeemed once. `RevokedIsFinal`: a revoked row never comes back, also to a refresh past its checks. `StaleTokenRejected`, `ScopeMatchesVersion`: a token signed from an older user row is rejected; no full token beside `must_change_password`. |
| `ygg_tokens` | 1 user, 2 requests; three deployments: limit 1 without profile; renames and deletions; serial with limit 2 and 3 tokens | `RevocationReachesCache`: once a revocation or rename has answered, the token is in the cache only if a lookup that had read its row earlier wrote it later. `ReplacedOnce`, `ActiveBounded` although lookups answer from stale copies. |
| `task_fence` | 1 task, 2 dispatchers, 2 administrators, 3 faults, 2 retries, stalls | `UniqueLease`, `OwnerFinishes`: the token fences off all but the latest claim. `ImplementsLifecycle`. `TaskEnds` (liveness). |
| `task_lane` | 2 tasks, 2 dispatchers, limit 1, 2 faults, 1 retry, no stalls | `WithinLimit`: the lane lock keeps the live leases within the limit. `AttemptsCounted`: attempts written from a row read before the claim are the failures recorded. |
| `texture_store` | 6 serial workloads with a failure anywhere, 3 concurrent ones; 2 rows, 1 to 3 contents, 3 avatar versions | `ObjectsInPlace`: no row and no avatar loses its object, but where an account's deletion was broken off. `ObjectsAllUsed`: no orphan object or picture, stray texture or dead lookup once all is done. `PropertiesFresh`: what a slow reader cached under the current stamp is current. |
| `texture_library` | 3 serial workloads with a failure, one of them with two administrators; 6 with two requests at once, in one a replacement overtakes an approval | `ListingIsRight`: nothing is listed that was not cleared, but what an overtaken approval publishes. `LibraryConsistent`: no dangling tags, one open report. `VerdictIsFinal`: with one judge, or serially. |
| `accounts` | 5 serial workloads, 5 concurrent; up to 3 users, 4 links, 3 invitations | `SpentOnce`: links and invitations. `AddressProven`: a verified address was proven for this account, whatever was requested, confirmed late or abandoned, unless an administrator edits it between the statements of another request. `AccountsConsistent`: the super administrator and the scope rule survive overlapping edits. |
| `external_auth` | 9 workloads; 2 providers, 4 users, 4 flows | `FlowSpentOnce`: one login and one mail per flow. `EntryIsRight`: a visitor has one account, and a provider that has been off ever since the request came lets nobody in. `MailLinksProven`: mail and password link what the flow is about, to an account that has proven its address. `LinksConsistent`: link and profile of a Minecraft account have one owner. |
| `ygg_join` | 16 workloads; 3 users, 3 profiles, 2 bans, 3 upstreams, 2 clock steps | `AnswerIsRight`: the local check keeps out who was banned or deleted before the question, Mojang's word who is not bound; who has joined is found however upstreams fail, unless a statement of the request failed. `LogTellsBan`: the last event is the ban, revoked bans stay revoked. `ProfilesConsistent`: profile and login names but for those two requests took at once, quotas, caches. |
| `config` | every key with 36 values of every form, sent and stored; 11 workloads on two nodes with starts, restarts, losses, rotations | `NodesConverge`, `SignaturesVerify`, `PoliciesSound`: no open CORS, no policy out of bounds, what is accepted is what is used, textures on trusted hosts. |
| `challenges` | 13 workloads of up to 7 requests | `PasskeysHold`, `CaptchaHolds`, `DeletedKeyStaysOut`. |
| `background_runtime` | 12 workloads on one or two nodes with crashes, stalls, failed writes and sends | `RunsOnce`: one record per slot, one delivery per processing. `RecordsTell`: the latest record and the audit log tell what happened. `DrainLeavesNothing`: a drain leaves pending only what came after its last batch, unless it broke off. `MailSettles` (liveness). |

A property of the later modules joins several named parts, each stated and
explained where it is defined (`AnswerIsRight == BannedStaysOut /\
OfficialIsBound /\ JoinedIsFound`). Each property has a mutant of the
specification that breaks it. The type invariants of `AuthSession`,
`TaskLease` and `YggToken` are proved (section 5); the others are checked as a
part of a property.

### Why the bounds are enough

The races here are between one handler that holds something it read and one
that changes it: two requests (or two dispatchers, or two nodes) are enough to
express each, and the third actor, where one is needed, is time, a cleanup or a
crash, which are separate actions. Serial workloads have a failure at any
statement, because "one step of several fails" needs no second request. Three
refresh tokens allow a login, a rotation and a second redemption that would
succeed if it could. Two Yggdrasil tokens with limit 1 make every second login
prune; three with limit 2 leave one to keep. Two texture rows share one object,
and a third content gives a replacement somewhere to go. Three upstreams put
one before and one after the local check. A lane with room for one task and two
to claim exceeds its limit as soon as the count is wrong. Bounds on ids
(`MaxUser`, `MaxTok`, `MaxFlow`, ...), on faults and on the clock cap counters
that the code does not bound; the properties do not mention them. Symmetry is
used only over interchangeable model values and never together with liveness.

Deadlock checking is off: requests come from outside, and with every bounded
input used up the system has nothing more to do.

### Fairness

`TaskEnds` (`TaskLease!Fairness`) assumes that

* some instance keeps dispatching, and a claim transaction it has begun ends;
* a claimed run ends, with success, a failure, or its lease lost;
* retry delays pass, and leases that nobody renews run out.

Nothing is assumed of heartbeats, administrators, releases or crashes; each of
the last two, like stalls and lost writes, happens at most `Faults` times, as a
task whose every worker dies never ends.

`MailSettles` (`BackgroundRuntime!Fairness`) assumes that the tasks of a node
that is up go on (the runtime polls them), that a node that is down is started,
that a shutdown that has begun goes through its phases, that leases and claims
nobody renews run out, and that retry delays and the limit on processing pass.
Nothing is assumed of stalls, failures or crashes, which are bounded.

## 4. Where the code departs from what one might expect

Met while modelling. None of these is claimed as a property; where one would
break a property, the property or the workload says what it leaves out.

* *Sessions and tokens.* Two overlapping writers of `session_version` store the
  same "read + 1", and a token issued between them outlives the second. A
  lookup that read a token before its revocation may cache it afterwards
  (`set_token`); a profile deletion clears the cache only before it revokes;
  overlapping logins exceed the token limit under READ COMMITTED.
* *Tasks.* A late second manual retry revives a permanent failure (the reset
  filters by status only). `mark_retry` keeps `processing_token`, so with stalls
  an attempt can be lost; a late heartbeat makes an expired lease live again,
  so the lane limit holds without stalls only.
* *Textures.* Count-then-delete of an object races an upload of the same
  content. `register_bound_textures_in_wardrobe` deletes a texture that two
  profiles have bound. An approval that overlaps a replacement publishes what
  nobody reviewed. Two identical reports at once are both stored. Deleting a user
  takes along, by foreign key, textures that are in no wardrobe and on no profile,
  and leaves their objects to the next sweep.
* *Avatars.* Overlapping uploads of one user take the same version number: two
  first uploads at once store one row, and the loser's clean-up deletes the
  pictures of that row. A change of source that overlaps an upload leaves
  pictures without a row, and a deletion of a user that fails after its first
  statement an avatar without pictures.
* *Accounts.* Two set-ups at once make two first administrators. An
  administrator's edit between read and commit of a confirmation can mark an
  unproven address verified. The resend cooldown never applies to a change of
  address, although `config/definitions.rs` describes it so; a user without an
  address cannot confirm one.
* *External authentication.* A device-code binding does not look at `enabled`
  again. Linking by a verified claim does not ask that the local address be
  verified.
* *Join.* hasJoined through Mojang asks whether the official account is bound
  and not whether its owner is banned (`session.rs`, `forwarded_mojang_profile_is_bound`):
  in the workload `Vouching` a banned owner is let in, and an invariant that says
  he is not fails. `docs/en/guide/user-bans.md` says that the scope
  `yggdrasil_join` affects "`hasJoined` matches" and
  `developer-docs/en/yggdrasil-api.md` that bans must be enforced through
  `hasJoined`; `BannedStaysOut` states what the code does, for the local check
  only. With a list of upstreams a local check that fails to read the database
  is passed over, so that a player who has joined may be told there is no
  session. A profile name and another user's login name, or two login names that
  differ in case, can become the same: both requests find the name free, and the
  unique indexes are one on profiles and one, of exact spelling, on login names.
  After a rename an earlier join is found under the old name and answered with
  the new one. Name summaries outlive a deleted profile. With every upstream
  disabled the local check is still made. Overlapping creations leave two bans
  of one scope.
* *Configuration.* Two saves on one node may reach its snapshot in the other
  order and stay so, since a node ignores its own notifications; a notification
  between loading and subscribing is missed; two rotations or two first starts
  at once can leave halves of two keys. `background_task_max_attempts` above 32
  bits and odd values of `audit_log_retention_days` are accepted and not used.
* *Challenges.* Two logins at once can lower a stored counter. Between get and
  delete of a captcha two right answers pass and two wrong ones count once.
  First registrations at once give one user two handles.
* *Runtime.* Three overlapping health runs can leave an older outcome as the
  latest; a mail whose processing went stale may arrive twice.

## 5. Proofs

TLAPS proves, for any sets of users, requests, tokens, sessions, profiles,
credentials, providers, flows, textures, tags, reports, tasks, dispatchers,
nodes, mails and administrators, for every workload and any bounds:

| Theorem | States |
|---|---|
| `SignIn_proofs!TypeCorrect` (`AuthSession`) | `Spec => []TypeOK` |
| `SignIn_proofs!RotationIsSafe`, `RowsHeadTheirChains` | `RedeemedOnce`, `RowHeadsItsChain`, with `session_version` writers overlapping or not |
| `SignIn_proofs!RevocationIsFinal` | the action property `RevokedIsFinal` |
| `SignIn_proofs!InvalidationIsComplete`, `ScopeFollowsVersion` | `StaleTokenRejected`, `ScopeMatchesVersion`, where `SerialBumps` |
| `Backend_proofs!TokensKeepTypes` (`YggToken`) | `TokenSpec => []TokensTyped` |
| `Backend_proofs!EndedTokensLeaveTheCache` | `RevocationReachesCache` |
| `Backend_proofs!ReplacementIsOnce`, `HeldTokensAreBounded` | `ReplacedOnce`, `ActiveBounded` |
| `Deployment_proofs!TypeCorrect` (`TaskLease`) | `Spec => []TypeOK`, with "a lease exactly while processing" |
| `Deployment_proofs!StaleWorkersAreFenced`, `LatestClaimFinishes` | `UniqueLease`, `OwnerFinishes` |
| `Deployment_proofs!LaneWithinLimit`, `AttemptsAreCounted` | `WithinLimit`, `AttemptsCounted`, where `~Stalls` |
| `Deployment_proofs!DispatcherImplementsLifecycle` | `Spec => ImplementsLifecycle` |
| `Deployment_proofs!NodesAgree` (`ConfigStore`) | `NodesConverge` |
| `Deployment_proofs!KeysMatch` | `SignaturesVerify` |
| `Deployment_proofs!PoliciesHold` | `PoliciesSound`: limits, `SavedIsEffective`, `TexturesServable`, types |
| `Deployment_proofs!CorsStaysShut` | `CorsNeverOpen`, a part of `PoliciesSound`, for rows of any kind |
| `SignIn_proofs!PasskeysAreSafe` (`Challenges`) | `PasskeysHold` |
| `SignIn_proofs!DeletedKeysStayOut` | the action property `DeletedKeyStaysOut` |
| `SignIn_proofs!CaptchasAreCounted` | `CaptchaHolds` |
| `ExternalAuth_proofs!FlowsAreSpentOnce` | `FlowSpentOnce` |
| `ExternalAuth_proofs!AccountsAndLinksAgree` | `LinksConsistent` |
| `ExternalAuth_proofs!EntriesAreRight` | `EntryIsRight` |
| `ExternalAuth_proofs!MailsLinkTheProven` | the action property `MailLinksProven` |
| `Backend_proofs!EffectsHappenOnce` (`BackgroundRuntime`) | `RunsOnce` |
| `Backend_proofs!RecordsTellWhatHappened` | `RecordsTell` |
| `Backend_proofs!DrainsLeaveNothing` | the action property `DrainLeavesNothing` |
| `Accounts_proofs!LinksAndInvitationsAreSpentOnce` | `SpentOnce` |
| `Accounts_proofs!VerifiedAddressesAreProven` | `AddressProven` |
| `Accounts_proofs!RolesAndScopesAgree` | `AccountsConsistent` |
| `YggJoin_proofs!AnswerHolds` | `AnswerIsRight` |
| `YggJoin_proofs!LogHolds` | `LogTellsBan` |
| `YggJoin_proofs!ProfilesHold` | `ProfilesConsistent` |
| `TextureLibrary_proofs!ListedIsCleared`, `LibraryAgrees` | `ListingIsRight`, `LibraryConsistent` |
| `TextureLibrary_proofs!VerdictsAreFinal` | the action property `VerdictIsFinal`, where `OneJudge` |
| `TextureStore_proofs!TexturesAlwaysTyped` (`TextureStore`, `Avatars`) | `StoreSpec => []TexturesTyped`, and the foreign keys of bindings and presets |
| `TextureStore_proofs!ObjectsStayInPlace` | `ObjectsInPlace`, where `plan.serial` |

The proofs rest on the named assumption of each module: `AuthAssumption`,
`TaskAssumption`, `YggAssumption`, `ChallengesAssumption`,
`ExternalAuthAssumption`, `RuntimeAssumption`, `AccountsAssumption`,
`YggJoinAssumption`, `LibraryAssumption`, `ConfigAssumption`, `StoreAssumption`
and `AvatarAssumption`. They say that
bounds are naturals and limits positive, that `NULL`, `None`, `NoOne` and `NoNode` are no
elements of the sets they stand beside, that the sets of tasks and nodes and the
requests of a workload are finite, and that a workload has the form of one; of the passkeys a
workload of `Challenges` starts with, that their credentials differ, which the
unique index of the table guarantees; and of the links a workload of
`ExternalAuth` starts with, that they join existing users and providers, one per
subject (the unique index), and that an account without an address has one to
LinuxDo, the only kind whose callbacks create such accounts; of the accounts a
workload of `Accounts` starts with, that the first is an active administrator
and that only operators hold scopes, as set-up and administration leave them; of
the users and profiles a workload of `YggJoin` starts with, that login and profile
names are their own, that owners are registered and that profiles are within the
limits, as registration, creation and renaming leave them; of the
keys of `ConfigStore`, that the halves of the signature key and the two audit
settings are system keys in use, as `config/definitions.rs` has them, and that the
registry is all of `ALL_CONFIGS` (`RegistryIsComplete`); of the rows and requests of
a workload of `ConfigStore`, that they hold values of the forms `ConfigValues` knows, and that a
private key among the rows is empty or one the program wrote, because no request
may store another (`validate_direct_config_update_target`); of a workload of
`TextureStore` that starts with a texture, that it is a skin and its owner has a
profile; and of a
workload about keys on a running deployment, that it starts with two halves of
one key, as the first start leaves them. Two hypotheses are stated with the
theorem, because the property is false without them (section 4) and the runs
make them too: `SerialBumps`, that two writers of one user's `session_version`
do not overlap, and `~Stalls`, that a live worker renews its lease in time.
`VerdictIsFinal` names its own condition, `OneJudge`: two administrators who read
one open report at once both write their verdict.

An invariant is seldom inductive as it stands. What each needed:

*Rotation.* Nothing in `RedeemedOnce` says that the jti a request carries into
`rotate_refresh` has not been redeemed. `RotationInv` adds `RowHeadsItsChain`
(the current jti of a row is unredeemed and belongs to that row alone),
`ParentsIssued` (every parent is an issued token, so a fresh jti is nobody's
parent) and `RefreshJobs` (a refresh in flight carries an issued jti of its
user). The compare-and-set `cur = jti` then turns "current" into "unredeemed"
at the one step that redeems. Steps that hand out no token are treated at once
(`Quiet`). `RevokedIsFinal` needs only `TypeOK`: a rotation writes to the row
it matched, which is unrevoked, and a login's session id belongs to no row.

*Versions.* A token may be signed from a row read long before. `VersionInv`
says of every token, and of every request that will sign one, that its version
is not ahead of the row's, and that if it is level no invalidation has been
committed and the scope has not changed since (`Current`); and of every writer
of the version that what it read is still there (`WritersSerial`), which is
where `SerialBumps` enters: the value it stores is new.

*Revocation and cache.* `RevocationReachesCache` speaks of operations that have
answered; what they rely on is known only while they run. `JobSound` follows
each handler from its read to its last purge: the tokens it vouches for are
listed for deletion from the cache, then ended, then purged. Ended is final,
because a row is never un-revoked, and a token whose transaction is still open
(`Pending`) is known to nobody, so no purge can miss it. `EndedInCache` is then
the invariant of the cache: a copy of an ended token says so, or was outdated
when it was written.

*Replacement and the bound.* Lookups answer from stale copies, so both need the
serial transactions of the deployments they are claimed for (`SerialInv`): one
transaction at a time, and the token it redeems has no replacement yet.
`KeepBound` counts what the user will hold after the commit that is in flight:
the tokens pruned are listed before the new one exists. The steps on sets
(`ActiveOf` shrinks, a set with one element exchanged) are lemmas of their own.

*Fencing.* A dispatcher could hold a token the table has yet to reach.
`Fencing` adds `RunsBehind` (a run's token is not ahead of its row's, and the
run level with the row belongs to the last claimer) and `OneCandidate` (a
listing names a task once). A claim matches only a candidate whose token equals
the row's, so the token it writes is larger than any a run holds; an outcome
write matches only the run level with the row, hence the owner's.

*The lane.* `LaneInv` adds that a candidate level with its row is still
claimable and knows its attempts (`FreshCands`), that a run which holds its row
has a live lease and knows its attempts (`LiveHeld`, `FreshRuns`), that failures
and attempts agree and leave one to make (`Budget`), and that what a dispatcher
counted under the lock is still free (`LaneCounted`). A step that is no claim
makes no lease live, so the set of live leases only shrinks while the lock is
held; a batch claim adds at most as many as were counted free.

*Refinement.* `InitRefines` maps initial states; `LegalMoves` gives the phase
moves of the mapping, `OneRowRefines` the steps that change one row, and
`ClaimRefines` maps a batch claim to `ClaimBatch`. All others are stutters.

*Passkeys and captchas.* `PasskeyInv` says where a challenge may be: in the
cache only after the request that stored it is done, and never again once one
request has taken it (`Spent`); what a handle stands with wherever it is kept
(`Handles`, `Logins`); and what a login knows of the counter while nobody else
works on the passkey (`Counters`). For a captcha that requests answer one at a
time, `Counted` equates the stored attempts with the answers that failed and
bounds them in the moment between delete and write-back, when the cache is
empty. Each statement of the handlers has one lemma with its effect, and the
parts of the invariant are proved from those.

*Flows, links and accounts.* What a request may still do with a flow is in its
list of statements. `List` gives the form of such a list (one statement, or a
consumption and calls of one flow), `Owner` the statements made after the flow
was consumed, and `FlowInv` says that an owned flow is consumed, has ended
nothing yet and has no second owner: the conditional update that consumes it
makes the first one. `Sound` says what a statement relies on from an earlier
read: the kind of its provider, that the visitor's link leads to the account it
is about to enter. Other requests run in between, so `Evolves` states once what
every step keeps (ids are not reused, rows keep their kind, a link that goes is
noted as released) and `SoundStays` carries every statement over every step.
`NoOrphanAccount` needs more than "a link": one to LinuxDo, which
`external_auth_identity_can_unlink` never lets go (`Reachable`).

*What a request met and copied.* A second invariant follows a request past the
one look it takes at its provider. `BarredInv` says that a barred provider is
off and that no statement after the look (`Admitted`) has one; `CopyInv` that
the row of the flow a commit carries, and what it read of the account, are still
what the tables say, unless they are gone. Both rest on the same fact about a
single step (`Proceeds`): a request arrives at an admitted statement by finding
the provider enabled or from an admitted statement of the same provider; and on
what all steps keep of the rows (`Remembers`: a flow its provider, subject and
first target, an account its address and whether it is proven). A provider
disabled and enabled again while a callback is under way lets the callback in,
so the history keeps what was off all along. That an account has proven its
address is claimed of links by mail and password only: an automatic link does
not ask for it (section 4).

*Runs and their records.* `OneRecordPerSlot` is inductive once ids are never
used again, which `Numbered` says: what was deleted is counted by the clean-ups
there have been, so the next id is above every row and above every row a run
still means to refresh (`Refreshing`). That the latest record tells the last run
needs the order of the clock: a kind that never ran twice at once has one run
under way (`Alone`), which ended after every record of its kind (`Latest`), so
what it writes, refreshed or new, becomes the latest (`RecordWritten`).

*Mails.* Deliveries are counted with the licences to make more. `Sends` adds to
the mails delivered the nodes that may still send the mail or give it back
(`Hands`) and one if the outbox may hand it out (`Open`); a claim turns the
outbox's licence into a node's, a delivery spends it, a retry returns it, a crash
drops it, and only processing gone stale makes a new one, with which `again`
grows too (`MailBound`). `MailOnce` follows.

*The drain.* A node that drains dispatches in batches until one claims nothing,
and meanwhile another node may enqueue. `DrainInv` says that an untried mail is
due (`DueInv`), so the batch that claims nothing has seen none, and what is
untried after it was enqueued since: `late` starts anew with each batch
(`LastBatchInv`). A node works at the outbox within a drain or within a run of
the scheduled task (`BusyInv`), which must not be taken for one another.

*The audit log.* `Kept` says that an event is in the table, lost, in the queue or
in the batch being written, `Closing` that the last two are empty where a node is
off, and `Asked` the same for what a query was promised, from its flush to its
answer. One predicate, `Preserved`, says that a step makes no event disappear;
each step is shown to satisfy it. A failed write loses one chunk and a crash one
queue and one batch, which `Losses` bounds by the faults spent.

*Accounts.* `Tables` holds what is true of the rows: ids are handed out in order
and never again (`Ids`), a redeemed link is consumed (`LinkInv`), an invitation
that made an account or whose revocation was answered is no longer pending
(`InvitationInv`), account 1 is there whenever an id was handed out. The
conditional updates (`mark_consumed_if_unused`, `mark_accepted_if_pending`,
`mark_revoked_if_pending`) then count each effect once, whatever was read
before them. What was read matters elsewhere: `Sound` says of each statement a
request still has to make what it relies on, such as the role `update_user`
computed from a row that has changed since (for account 1 it is still
"administrator", because every edit in between was refused too), or the account
that `confirm_contact_verification` found with the address of the link.
`SoundStays` carries these over the steps of others, and `Serial` says that
there are none when requests come one by one. Four parts are false with
overlapping requests and are stated for serial workloads or for those without
the operation that breaks them: an edit between read and commit of a confirmation
(`VerifiedWasProven`), a link sent again while another change is requested
(`PendingHasLink`), two invitations or two set-ups at once (`OneOpenInvitation`,
`OneFirstAdmin`).

*Join, bans and profiles.* One invariant gives three theorems, because requests
of every kind overlap. `Tables` has the types, ids that are not used again and
the claims about rows. `Sound` says what a statement relies on: an
edit's ban exists, and with one request at a time is the row that was read; the
name about to be taken, for a profile or as a login name, is no other user's
unless it is in `raced`, which holds whatever is `Contested`; the owner a rename
read is the profile's. That two profiles share no name is left to the unique index,
which the insert and the commit of a rename ask again. Rows and
events are written together, so a ban's events tell it whatever was read before
(`TellsMore`). `CacheInv` says that a cached list or name is right, or the one
request at work has yet to drop it; a lost request may never do so, and after it
nothing is claimed. `HistoryInv` follows a question from one statement to the
next: a check that succeeds finds its obstacle gone, and `shut`, which only
shrinks, no longer holds it; while the profile in `sure` stays joined, the local
check is among the upstreams still to ask. The invariant has to remember *which*
obstacle and *which* profile. A ban lifted just after the profile was deleted
lets a question through that met one obstacle or the other at every moment, and a join
replaced by one of another profile with the same name may be missed; neither
happens on the small instance.

*The library.* `Statement` types the statements of a request and `ShapeOf` gives
the form of a list: most statements stand alone, reports are listed before any is
handled, and a list handles each report once. `Goes` says how a list goes on, for
every statement at once: it stops, or puts statements that are right at that
moment (`Checked`) before the rest. What a statement relies on, `Sound`, holds of
the rest because the statements that stand with others (`Together`) change no
content and no visibility (`KeepsRows`). `TexChange` sorts the writes of rows into
new ones, ones that leave the row private, the one that shows it, and the
decisions; nothing else matters to `ListingIsRight`. That property speaks of what
is listed, but a published row can be made private and public again, so
`PublishedWasCleared` claims it of hidden rows too. `HandleInv` says that a report
still to be handled is open, which with one judge only the judge's own list could
change.

*Configuration.* `NodesConverge` speaks of moments when nothing is under way;
`Settled` says what holds before. A node that was told of everything and ran one
change at a time either has a notification to come (`Pending`: one is unread, or
a request elsewhere is between its first write and its notification), or it
follows the rows (`Current`): a reload has read what the table holds now, and the
snapshot differs from the rows by exactly the part of its own change that has yet
to be applied (`Follows`, one line per step of a save, a deletion or a
rotation). A change elsewhere makes the node `Pending`, so it need not follow; a
change of its own keeps it in step, because a node that is not `tangled` has one
at most (`Apart`). Proving this showed that a start which writes defaults counts
as a change nobody is told of, which `missed` now records. `Keyed` carries the
signature key: without crossing writers there is one writer of the key at a time,
a start that is to publish the public half still finds the private key it read,
and when no rotation is between its halves they match. Which halves a node uses
then follows from its snapshot alone, because the metadata and the signer read
the same row.

*Policies.* `PoliciesSound` speaks of any value an administrator can send for any
key, and its heart is about values, not steps. `StoredOnce`: what a normaliser
accepted it accepts again unchanged, one lemma per normaliser; for lists that
takes the entries of a list to stay distinct, valid and canonical when it is
deduplicated, sorted or filtered again. `Readers`: every key has exactly one
reader in `Effective`, so what is read of a key follows from its rule (`KeyRules`)
and its type. `AllSound` puts the two together for each reader: a value the
normaliser of its key would store unchanged is used as stored, any other value is
used within the limits of the policy, and so is a default. The rest is an invariant over the steps, `PolicyInv`: rows, snapshots and rows under
way hold values (`Tended`), a private key is one that was generated (`KeysMade`),
and a request for a save works with a value that was checked (`Checked`), although
the check used the snapshot of its own node. That is why the keys in `Combined` are
left out of `SavedIsEffective`: what is accepted for them depends on another key,
or the policy limits it once more.

*Objects and rows.* With one request at a time an object can only go missing
between the statements of that request, so the invariant speaks of its list.
`ListsShaped` says what a list can look like: a statement that relies on an object
put or counted just before (`Solo`) is always the next one, an upload of an
avatar ends with the write of its row, a deletion of an account with the account.
`HeadSafe` then says of the next statement what it relies on: a row about to be
written has its object, an object about to be deleted is in no row. A texture row
is written after its object and loses its last reference before the object is
counted, so each statement of `TextureStore` hands on what the next one needs
(`Moved`, one lemma per statement), or drops the list (`Halted`). `FaceSafe` does
the same for pictures: those to be dropped are not the row's, and those of an
upload are in the store or still to be put. Failure and crash only shorten a list,
and a request that never comes to its end leaves what it would have deleted.
For a broken-off deletion of an account this is not so, which is why
`AvatarHasPictures` leaves those users out (section 4).

`Backend_proofs`, `SignIn_proofs` and `Deployment_proofs` prove about two
specifications each, which is why some of those call their parts by longer names
(`TokenSpec`, `ConfigSpec`).

Only model-checked: `ObjectsInPlace` where requests overlap, `ObjectsAllUsed`,
`PropertiesFresh`, and the liveness properties `TaskEnds` and `MailSettles`,
which with their fairness are out of the prover's reach.

## 6. Not modelled

* The databases, cache back ends, object stores, the mailer and the
  `aster_forge_*` crates are outside the repository; the models contain what
  the code here asks of them. The reader pool is taken to be another set of
  connections to the same database, without replication lag.
* Password hashing, JWT and RSA signing, WebAuthn, OAuth, image processing,
  rendering and templates are computation without shared state; what they
  decide is an input of the models.
* Routes, middleware, DTOs, OpenAPI and the panel: parsing and presentation.
  Lists, reports and the overview only read.
* In `Avatars`, display names, and the read of a picture.
* In `YggToken`, passwords, client tokens and bans are the nondeterministic
  refusal in `LookupFill` and `Abort`; signout's list of tokens revoked in the
  last ten seconds is taken without the window.
* In `TaskLease`, payloads, steps, progress texts and temp directories; lanes
  do not share rows, so one lane is modelled.
* In `YggJoin`, the health columns of upstreams, the rewriting of forwarded
  texture addresses, administrators' exemption from the profile limit, and the
  deletion of users (modelled in `Accounts`, `AuthSession` and `TextureStore`).
* In `ConfigStore`, the visibility of custom rows, and the spelling of URLs.

## 7. What the proofs leave open

Every safety property of a run is a theorem but two, and one is proved in part.
`ObjectsInPlace` is proved for one request at a time; where requests overlap, the
workloads give every upload content of its own, and the invariant would have to say
which client owns which object. `ObjectsAllUsed` speaks of the moment when all
requests are done, so every object, picture and row would need the statement that
will remove it, in the list of some request. `PropertiesFresh` needs the stamp a
slow reader carries besides.
