----------------------------- MODULE TaskLease -----------------------------
(***************************************************************************)
(* The background task dispatcher (task_service/dispatch, task_service/    *)
(* admin.rs, background_task_repo): dispatchers of several server          *)
(* instances list due rows, claim a batch under the lane lock with a       *)
(* compare-and-swap on processing_token, run the claimed tasks while       *)
(* heartbeats renew their leases, and write outcomes that are filtered by  *)
(* the token.  A lease that is not renewed expires and the row can be      *)
(* claimed again, also while the first worker is still alive.              *)
(*                                                                         *)
(* Time is abstract: "due" says next_run_at has passed, a lease is live or *)
(* stale.  Bounds: Faults limits crashes, stalls, releases and lost        *)
(* writes, Resets the manual retries.                                      *)
(***************************************************************************)
EXTENDS Naturals, FiniteSets

CONSTANTS
    Tasks,        \* background task ids
    Disps,        \* dispatchers, one per server instance
    Admins,       \* administrators retrying tasks at the same time
    NULL,
    MaxAttempts,  \* max_attempts of the task kind
    Limit,        \* background_task_max_concurrency
    Faults,       \* bound: crashes, stalls, releases and lost writes
    Resets,       \* bound: manual retries
    Stalls        \* TRUE: a live worker may fail to renew its lease in time

ASSUME TaskAssumption ==
    /\ MaxAttempts \in Nat \ {0}
    /\ Limit \in Nat \ {0}
    /\ Faults \in Nat /\ Resets \in Nat
    /\ Stalls \in BOOLEAN
    /\ IsFiniteSet(Tasks)
    /\ NULL \notin Tasks /\ NULL \notin Disps

Status == {"absent", "pending", "processing", "retry", "succeeded", "failed",
           "removed"}

\* A background_tasks row
Row == [status: Status, token: Nat, attempts: Nat, canRetry: BOOLEAN,
        due: BOOLEAN, lease: {"none", "live", "stale"}]

\* A row as a dispatcher read it; as a run, with the token it claimed
Snap == [task: Tasks, token: Nat, attempts: Nat]

VARIABLES
    task,      \* [Tasks -> Row], the background_tasks table
    disp,      \* [Disps -> where a dispatcher is in claim_due_for_lane]
    runs,      \* [Disps -> SUBSET Snap], the batch a dispatcher is running
    lane,      \* the dispatcher holding the lane's lock row, or NULL
    admin,     \* [Admins -> the failed task an admin is retrying, or NULL]
    faults,    \* faults so far
    resets,    \* manual retries so far
    owner,     \* history: [Tasks -> the dispatcher that claimed last, or NULL]
    author,    \* history: [Tasks -> who wrote that claim's outcome, or NULL]
    failures   \* history: [Tasks -> failures since creation or manual retry]

history == <<owner, author, failures>>
vars == <<task, disp, runs, lane, admin, faults, resets, history>>

AbsentRow == [status |-> "absent", token |-> 0, attempts |-> 0,
              canRetry |-> FALSE, due |-> FALSE, lease |-> "none"]

Idle == [at |-> "idle", cand |-> {}, avail |-> 0]

Init ==
    /\ task = [t \in Tasks |-> AbsentRow]
    /\ disp = [d \in Disps |-> Idle]
    /\ runs = [d \in Disps |-> {}]
    /\ lane = NULL
    /\ admin = [a \in Admins |-> NULL]
    /\ faults = 0 /\ resets = 0
    /\ owner = [t \in Tasks |-> NULL]
    /\ author = [t \in Tasks |-> NULL]
    /\ failures = [t \in Tasks |-> 0]

Fault == faults < Faults /\ faults' = faults + 1

Terminal == {"succeeded", "failed"}

----------------------------------------------------------------------------
(* Rows *)

\* create_typed_task_record: a pending row that is due at once
CreateTask(t) ==
    /\ task[t].status = "absent"
    /\ task' = [task EXCEPT ![t].status = "pending", ![t].due = TRUE]
    /\ UNCHANGED <<disp, runs, lane, admin, faults, resets, history>>

\* record_runtime_task_run: a row for a run that is already over; a failed
\* one is not for manual retry.
RecordRun(t) ==
    /\ task[t].status = "absent"
    /\ \E s \in Terminal :
        task' = [task EXCEPT ![t].status = s, ![t].due = TRUE]
    /\ UNCHANGED <<disp, runs, lane, admin, faults, resets, history>>

\* next_run_at passes
Due(t) ==
    /\ task[t].status = "retry" /\ ~task[t].due
    /\ task' = [task EXCEPT ![t].due = TRUE]
    /\ UNCHANGED <<disp, runs, lane, admin, faults, resets, history>>

\* Mutant: the token filter is forgotten
HoldsAnyToken(r) == task[r.task].status = "processing"

\* The row the worker of run r may still write: status and token filters
\* of every update that carries a lease.
Holds(r) ==
    task[r.task].status = "processing" /\ task[r.task].token = r.token

\* lease_expires_at passes: nobody renews the lease any more, or its worker
\* is stalled.
LeaseExpires(t) ==
    /\ task[t].status = "processing" /\ task[t].lease = "live"
    /\ task' = [task EXCEPT ![t].lease = "stale"]
    /\ IF \E d \in Disps : \E r \in runs[d] : r.task = t /\ Holds(r)
       THEN Stalls /\ Fault
       ELSE UNCHANGED faults
    /\ UNCHANGED <<disp, runs, lane, admin, resets, history>>

----------------------------------------------------------------------------
(* claim_due_for_lane *)

\* Mutant: expired leases are never reclaimed
ClaimableWhenReady(t) ==
    task[t].status \in {"pending", "retry"} /\ task[t].due

Claimable(t) ==
    \/ task[t].status \in {"pending", "retry"} /\ task[t].due
    \/ task[t].status = "processing" /\ task[t].lease = "stale"

ActiveProcessing ==
    {t \in Tasks : task[t].status = "processing" /\ task[t].lease = "live"}

\* available_lane_capacity
Available ==
    IF Cardinality(ActiveProcessing) < Limit
    THEN Limit - Cardinality(ActiveProcessing) ELSE 0

\* list_claimable_by_kinds, outside any transaction
ListClaimable(d) ==
    /\ disp[d].at = "idle" /\ runs[d] = {}
    /\ \E t \in Tasks : Claimable(t)
    /\ disp' = [disp EXCEPT ![d] =
        [Idle EXCEPT !.at = "listed",
                     !.cand = {[task |-> t, token |-> task[t].token,
                                attempts |-> task[t].attempts] :
                                   t \in {u \in Tasks : Claimable(u)}}]]
    /\ UNCHANGED <<task, runs, lane, admin, faults, resets, history>>

\* Mutant: the lane is not locked before counting
CountActiveUnlocked(d) ==
    /\ disp[d].at = "listed"
    /\ disp' = [disp EXCEPT ![d] =
           IF Available = 0 THEN Idle
           ELSE [@ EXCEPT !.at = "counted", !.avail = Available]]
    /\ UNCHANGED <<task, runs, lane, admin, faults, resets, history>>

\* claim_candidates_for_lane: lock the lane, then count the active leases
CountActive(d) ==
    /\ disp[d].at = "listed"
    /\ lane = NULL
    /\ IF Available = 0
       THEN /\ disp' = [disp EXCEPT ![d] = Idle]
            /\ UNCHANGED lane
       ELSE /\ disp' = [disp EXCEPT ![d].at = "counted",
                                    ![d].avail = Available]
            /\ lane' = d
    /\ UNCHANGED <<task, runs, admin, faults, resets, history>>

\* Mutant: no compare of processing_token
CanClaimAnyToken(c) == Claimable(c.task)

\* The filter of try_claim
CanClaim(c) == Claimable(c.task) /\ task[c.task].token = c.token

\* The rest of claim_candidates_for_lane: try_claim for the candidates until
\* the capacity counted is used up, then commit, which frees the lane.
ClaimCandidates(d) ==
    /\ disp[d].at = "counted"
    /\ \E S \in SUBSET {c \in disp[d].cand : CanClaim(c)} :
        /\ \/ Cardinality(S) = disp[d].avail
           \/ Cardinality(S) < disp[d].avail
              /\ S = {c \in disp[d].cand : CanClaim(c)}
        /\ task' = [t \in Tasks |->
               IF \E c \in S : c.task = t
               THEN [task[t] EXCEPT
                       !.status = "processing", !.lease = "live",
                       !.token = (CHOOSE c \in S : c.task = t).token + 1]
               ELSE task[t]]
        /\ runs' = [runs EXCEPT ![d] =
               {[c EXCEPT !.token = c.token + 1] : c \in S}]
        /\ owner' = [t \in Tasks |->
               IF \E c \in S : c.task = t THEN d ELSE owner[t]]
        /\ author' = [t \in Tasks |->
               IF \E c \in S : c.task = t THEN NULL ELSE author[t]]
    /\ lane' = NULL
    /\ disp' = [disp EXCEPT ![d] = Idle]
    /\ UNCHANGED <<admin, faults, resets, failures>>

----------------------------------------------------------------------------
(* run_claimed_tasks: each run of the batch on its own *)

Drops(d, r) == runs' = [runs EXCEPT ![d] = @ \ {r}]

\* touch_heartbeat and mark_progress; also an expired lease that nobody took
\* over is renewed.
Heartbeat(d, r) ==
    /\ r \in runs[d]
    /\ Holds(r) /\ task[r.task].lease = "stale"
    /\ task' = [task EXCEPT ![r.task].lease = "live"]
    /\ UNCHANGED <<disp, runs, lane, admin, faults, resets, history>>

\* An update of the worker that matches no row: the lease is lost and the
\* run ends.
LeaseLost(d, r) ==
    /\ r \in runs[d]
    /\ ~Holds(r)
    /\ Drops(d, r)
    /\ UNCHANGED <<task, disp, lane, admin, faults, resets, history>>

\* An outcome row replaces the row if the run still holds it
Writes(d, r, row) ==
    IF Holds(r)
    THEN /\ task' = [task EXCEPT ![r.task] = row]
         /\ author' = [author EXCEPT ![r.task] = d]
    ELSE UNCHANGED <<task, author>>

\* mark_task_succeeded
Succeed(d, r) ==
    /\ r \in runs[d]
    /\ Writes(d, r, [task[r.task] EXCEPT !.status = "succeeded",
                                         !.lease = "none"])
    /\ Drops(d, r)
    /\ UNCHANGED <<disp, lane, admin, faults, resets, owner, failures>>

\* Mutant: the retry does not count the attempt
RetryRowUncounted(r) ==
    [task[r.task] EXCEPT !.status = "retry", !.lease = "none", !.due = FALSE]

\* mark_task_retry: the attempt is counted from the row read before the claim
RetryRow(r) ==
    [task[r.task] EXCEPT !.status = "retry", !.lease = "none", !.due = FALSE,
                         !.attempts = r.attempts + 1]

\* mark_task_failed
FailedRow(r, canRetry) ==
    [task[r.task] EXCEPT !.status = "failed", !.lease = "none",
                         !.attempts = r.attempts + 1, !.canRetry = canRetry]

\* process_task returns an error of a retry class: Auto is retried while the
\* budget lasts, Manual and Never fail the task.
RunFails(d, r, class) ==
    /\ r \in runs[d]
    /\ Writes(d, r, IF class = "auto" /\ r.attempts + 1 < MaxAttempts
                    THEN RetryRow(r)
                    ELSE FailedRow(r, class # "never"))
    /\ failures' = IF Holds(r)
                   THEN [failures EXCEPT ![r.task] = @ + 1]
                   ELSE failures
    /\ Drops(d, r)
    /\ UNCHANGED <<disp, lane, admin, faults, resets, owner>>

\* release_task_for_shutdown
ReleaseRun(d, r) ==
    /\ r \in runs[d]
    /\ Fault
    /\ Writes(d, r, [task[r.task] EXCEPT !.status = "retry",
                                         !.lease = "none", !.due = TRUE])
    /\ Drops(d, r)
    /\ UNCHANGED <<disp, lane, admin, resets, owner, failures>>

\* The update that should end the run fails: the row keeps its lease
LoseOutcome(d, r) ==
    /\ r \in runs[d]
    /\ Fault
    /\ Drops(d, r)
    /\ UNCHANGED <<task, disp, lane, admin, resets, history>>

\* The process dies; an open claim transaction is rolled back
Crash(d) ==
    /\ disp[d].at # "idle" \/ runs[d] # {}
    /\ Fault
    /\ disp' = [disp EXCEPT ![d] = Idle]
    /\ runs' = [runs EXCEPT ![d] = {}]
    /\ lane' = IF lane = d THEN NULL ELSE lane
    /\ UNCHANGED <<task, admin, resets, history>>

----------------------------------------------------------------------------
(* Administrators *)

\* retry_task_for_admin reads the row and checks it
RetryRead(a, t) ==
    /\ admin[a] = NULL
    /\ task[t].status = "failed" /\ task[t].canRetry
    /\ resets < Resets
    /\ resets' = resets + 1
    /\ admin' = [admin EXCEPT ![a] = t]
    /\ UNCHANGED <<task, disp, runs, lane, faults, history>>

\* Mutant: the reset trusts the status that was read earlier
RetryResetUnfiltered(a) ==
    /\ admin[a] # NULL
    /\ task[admin[a]].status # "removed"
    /\ task' = [task EXCEPT ![admin[a]].status = "pending",
                            ![admin[a]].attempts = 0,
                            ![admin[a]].lease = "none",
                            ![admin[a]].due = TRUE]
    /\ admin' = [admin EXCEPT ![a] = NULL]
    /\ UNCHANGED <<disp, runs, lane, faults, resets, history>>

\* reset_for_manual_retry, filtered by status only; the token stays
RetryReset(a) ==
    /\ admin[a] # NULL
    /\ IF task[admin[a]].status = "failed"
       THEN /\ task' = [task EXCEPT ![admin[a]].status = "pending",
                                    ![admin[a]].attempts = 0,
                                    ![admin[a]].canRetry = FALSE,
                                    ![admin[a]].due = TRUE]
            /\ failures' = [failures EXCEPT ![admin[a]] = 0]
       ELSE UNCHANGED <<task, failures>>
    /\ admin' = [admin EXCEPT ![a] = NULL]
    /\ UNCHANGED <<disp, runs, lane, faults, resets, owner, author>>

\* cleanup_tasks_for_admin: one DELETE over the terminal rows
CleanupTask(t) ==
    /\ task[t].status \in Terminal
    /\ task' = [task EXCEPT ![t].status = "removed"]
    /\ UNCHANGED <<disp, runs, lane, admin, faults, resets, history>>

----------------------------------------------------------------------------
RowStep(t) ==
    CreateTask(t) \/ RecordRun(t) \/ Due(t) \/ LeaseExpires(t) \/ CleanupTask(t)

RunStep(d, r) ==
    \/ Heartbeat(d, r) \/ LeaseLost(d, r) \/ Succeed(d, r)
    \/ \E class \in {"auto", "manual", "never"} : RunFails(d, r, class)
    \/ ReleaseRun(d, r) \/ LoseOutcome(d, r)

DispStep(d) ==
    \/ ListClaimable(d) \/ CountActive(d) \/ ClaimCandidates(d) \/ Crash(d)
    \/ \E r \in runs[d] : RunStep(d, r)

AdminStep(a) == RetryReset(a) \/ \E t \in Tasks : RetryRead(a, t)

Next ==
    \/ \E t \in Tasks : RowStep(t)
    \/ \E d \in Disps : DispStep(d)
    \/ \E a \in Admins : AdminStep(a)

Spec == Init /\ [][Next]_vars

\* A run ends: process_task returns and its outcome is written or lost
RunEnds(d) ==
    \E r \in runs[d] :
        \/ LeaseLost(d, r) \/ Succeed(d, r)
        \/ \E class \in {"auto", "manual", "never"} : RunFails(d, r, class)

\* Some instance keeps dispatching (the one holding the runtime lease), and
\* a transaction it has begun ends; claimed work returns; retry delays and
\* leases that nobody renews run out.  Nothing is assumed of heartbeats,
\* administrators or faults.
Fairness ==
    /\ WF_vars(\E d \in Disps : ListClaimable(d))
    /\ WF_vars(\E d \in Disps : CountActive(d))
    /\ WF_vars(\E d \in Disps : ClaimCandidates(d))
    /\ \A d \in Disps : WF_vars(RunEnds(d))
    /\ \A t \in Tasks : WF_vars(Due(t)) /\ WF_vars(LeaseExpires(t))

FairSpec == Spec /\ Fairness

----------------------------------------------------------------------------
(* Properties *)

\* Types of the state; a row has a lease exactly while it is processing, so
\* every update that ends processing clears lease_expires_at.
TypeOK ==
    /\ task \in [Tasks -> Row]
    /\ disp \in [Disps -> [at: {"idle", "listed", "counted"},
                           cand: SUBSET Snap, avail: Nat]]
    /\ runs \in [Disps -> SUBSET Snap]
    /\ lane \in Disps \cup {NULL}
    /\ admin \in [Admins -> Tasks \cup {NULL}]
    /\ faults \in Nat /\ resets \in Nat
    /\ owner \in [Tasks -> Disps \cup {NULL}]
    /\ author \in [Tasks -> Disps \cup {NULL}]
    /\ failures \in [Tasks -> Nat]
    /\ \A t \in Tasks : task[t].lease # "none" <=> task[t].status = "processing"

\* However dispatchers overlap, stall and crash, no two runs were ever given
\* the same processing token of a task: the token fences off all but the
\* latest claim (try_claim's compare-and-swap).
UniqueLease ==
    \A d1, d2 \in Disps : \A r1 \in runs[d1], r2 \in runs[d2] :
        r1.task = r2.task /\ r1.token = r2.token => d1 = d2 /\ r1 = r2

\* The outcome on a row was written by the dispatcher whose claim is the
\* latest one: a stale worker never overwrites a newer lease.
OwnerFinishes == \A t \in Tasks : author[t] \in {NULL, owner[t]}

\* The lane never has more live leases than background_task_max_concurrency
\* when leases expire only after their workers are gone.
WithinLimit == Cardinality(ActiveProcessing) <= Limit

\* attempt_count is the number of failures recorded since the task was
\* created or manually retried, and stays within max_attempts: claims,
\* crashes, releases and reclaims neither lose an attempt nor add one, as
\* long as no live worker stalls past its lease.
AttemptsCounted ==
    \A t \in Tasks :
        /\ task[t].attempts = failures[t]
        /\ task[t].attempts <= MaxAttempts

\* Every created task ends: in spite of crashes, stalls, releases and lost
\* writes a pending row reaches a terminal status or is removed.
TaskEnds ==
    \A t \in Tasks :
        task[t].status = "pending" ~> task[t].status \in Terminal \cup {"removed"}

\* The phase of TaskLifecycle a row is in
PhaseOf(s) ==
    CASE s \in {"pending", "retry"} -> "ready"
      [] s = "processing" -> "running"
      [] OTHER -> s

Lifecycle == INSTANCE TaskLifecycle WITH
    phase <- [t \in Tasks |-> PhaseOf(task[t].status)],
    fence <- [t \in Tasks |-> task[t].token]

\* The dispatcher implements the abstract life of a task: phases in order,
\* the fence moves by one with every claim and never otherwise, and a
\* finished task is only retried or removed.
ImplementsLifecycle == Lifecycle!Spec
=============================================================================
