--------------------------- MODULE BackgroundRuntime ---------------------------
(***************************************************************************)
(* What a node does beside answering requests: it leads the periodic tasks *)
(* while it holds the runtime lease (tasks/runtime), records their runs    *)
(* (task_service/runtime), delivers the mail outbox (mail_outbox_service), *)
(* writes the audit log through a buffer (audit_service/manager), and does *)
(* the phases of a start and of a shutdown in their order.                 *)
(*                                                                         *)
(* The lease, the claims of scheduled tasks, the outbox rows and the       *)
(* buffered writer belong to libraries that are not in the repository:     *)
(* they are modelled from what the code asks of them.  Times are told only *)
(* by what has run out; a run that ends takes the next value of a clock.   *)
(***************************************************************************)
EXTENDS Integers, Sequences, FiniteSets

CONSTANTS
    Nodes,
    NoNode,
    MaxMails,    \* mails are numbered from 1 to at most this
    Workloads    \* what each behaviour starts with, the kinds that run and the faults there may be

SystemRuntimeTaskKind == {"background-task-dispatch", "system-health-check", "auth-session-cleanup", "external-auth-flow-cleanup",
    "mail-outbox-dispatch", "audit-cleanup", "task-cleanup", "yggdrasil-token-cleanup", "yggdrasil-storage-consistency-check",
    "yggdrasil-texture-cleanup"}
Dispatch == "background-task-dispatch"
Health == "system-health-check"
MailKind == "mail-outbox-dispatch"
Phases == {"down", "up", "tasks", "drain", "audit", "flush", "off"}
AuditActions == {"request", "server_start", "server_shutdown", "mail_send", "mail_delivery_failed"}
Faults == {"crashes", "stalls", "writes", "sends", "claims", "cleanups"}

ASSUME RuntimeAssumption ==
    /\ IsFiniteSet(Nodes) /\ NoNode \notin Nodes /\ MaxMails \in Nat
    /\ \A w \in Workloads :
          /\ w.nodes \subseteq Nodes /\ w.stops \subseteq Nodes /\ w.asks \in BOOLEAN /\ w.requests \in Nat
          \* kinds: how many runs of a kind may leave a trace; mails: whether the payload can be read
          /\ DOMAIN w.kinds \subseteq SystemRuntimeTaskKind /\ w.kinds \in [DOMAIN w.kinds -> Nat]
          /\ DOMAIN w.mails \subseteq 1 .. MaxMails /\ w.mails \in [DOMAIN w.mails -> {"good", "bad"}]
          /\ w.recorded \subseteq AuditActions /\ w.rounds \in Nat
          /\ {w.capacity, w.batch, w.mail_batch, w.max_attempts} \subseteq Nat \ {0}
          /\ w.left \in [Faults -> Nat]

VARIABLES
    load,
    node,      \* nodes: [at, leading, cancelled]
    lease,     \* runtime_leases: [owner, fresh]
    claim,     \* scheduled_tasks: kind -> [slot, by, fresh]
    run,       \* runs under way: <<node, kind>> -> run
    record,    \* background_tasks of kind system_runtime: id -> row
    clock,     \* the time a run ended
    mail,      \* mail_outbox: mail -> row
    post,      \* dispatch_due of a node: [at, todo, claimed, rounds]
    buf,       \* the audit writer's queue of each node
    batch,     \* the batch each node's writer has taken out and is writing
    table,     \* audit_logs
    query,     \* an administrator's look at the audit log
    left,      \* faults there may still be
    told,      \* history: kind -> what its last recorded run came to
    twice,     \* history: kinds of which two runs were under way at once
    box,       \* history: mail -> times delivered
    again,     \* history: mail -> times its processing went stale
    late,      \* history: mails enqueued while a node drained the outbox, since its last batch
    logged,    \* history: events each node handed to the audit log
    lost       \* history: events whose write failed, and what a crash took

vars == <<load, node, lease, claim, run, record, clock, mail, post, buf, batch, table, query, left, told, twice, box, again, late, logged, lost>>
runs == <<lease, claim, run, record, clock, told, twice>>
mails == <<mail, post, box, again, late>>
audits == <<buf, batch, table, query, logged, lost>>

Kinds == DOMAIN load.kinds
Mails == DOMAIN load.mails
Still == [at |-> "idle", todo |-> {}, claimed |-> 0, rounds |-> 0]
Idle == [at |-> "idle", slot |-> 0, outcome |-> "quiet", ended |-> 0, row |-> 0]
Up(n) == node[n].at = "up"
Alive(n) == node[n].at \notin {"down", "off"}
Spend(f) == left[f] > 0 /\ left' = [left EXCEPT ![f] = @ - 1]

Init ==
    /\ load \in Workloads
    /\ node = [n \in Nodes |-> [at |-> "down", leading |-> FALSE, cancelled |-> FALSE]]
    /\ lease = [owner |-> NoNode, fresh |-> FALSE]
    /\ claim = [k \in Kinds |-> [slot |-> 1, by |-> NoNode, fresh |-> FALSE]]
    /\ run = [nk \in Nodes \X Kinds |-> Idle]
    /\ record = [i \in {} |-> 0] /\ clock = 0
    /\ mail = [m \in Mails |-> [status |-> "none", attempts |-> 0, due |-> FALSE, stale |-> FALSE]]
    /\ post = [n \in Nodes |-> Still]
    /\ buf = [n \in Nodes |-> <<>>] /\ batch = [n \in Nodes |-> <<>>] /\ table = {}
    /\ query = [at |-> "new", by |-> NoNode, before |-> {}, seen |-> {}]
    /\ left = load.left
    /\ told = [k \in Kinds |-> "nothing"] /\ twice = {}
    /\ box = [m \in Mails |-> 0] /\ again = [m \in Mails |-> 0] /\ late = [n \in Nodes |-> {}]
    /\ logged = [n \in Nodes |-> {}] /\ lost = {}

-----------------------------------------------------------------------------
(* The audit log.                                                          *)

should_record(a) == a \in load.recorded

\* external: the queue of BufferedBatchWriter; an event that finds it full is written at once.
record_event(n, e) ==
    IF Len(buf[n]) < load.capacity
      THEN buf' = [buf EXCEPT ![n] = Append(@, e)] /\ UNCHANGED <<table, lost, left>>
      ELSE /\ UNCHANGED buf
           /\ \/ table' = table \cup {e} /\ UNCHANGED <<lost, left>>
              \/ Spend("writes") /\ lost' = lost \cup {e} /\ UNCHANGED table

Event(n, a) == <<n, a, Cardinality(logged[n])>>
log(n, a) ==
    IF should_record(a)
      THEN /\ record_event(n, Event(n, a))
           /\ logged' = [logged EXCEPT ![n] = @ \cup {Event(n, a)}]
           /\ UNCHANGED <<batch, query>>
      ELSE UNCHANGED <<audits, left>>

\* One row written past the buffer.
log_with_db_and_config(n, a) ==
    IF should_record(a)
      THEN /\ logged' = [logged EXCEPT ![n] = @ \cup {Event(n, a)}]
           /\ \/ table' = table \cup {Event(n, a)} /\ UNCHANGED <<lost, left>>
              \/ Spend("writes") /\ lost' = lost \cup {Event(n, a)} /\ UNCHANGED table
           /\ UNCHANGED <<buf, batch, query>>
      ELSE UNCHANGED <<audits, left>>

TakeQueue(n) == batch' = [batch EXCEPT ![n] = buf[n]] /\ buf' = [buf EXCEPT ![n] = <<>>]

\* external: a full batch, or an event that has waited, is taken out by the writer's own task,
\* until it is cancelled.
DelayedFlush(n) ==
    /\ Alive(n) /\ ~node[n].cancelled /\ buf[n] # <<>> /\ batch[n] = <<>> /\ TakeQueue(n)
    /\ UNCHANGED <<node, runs, mails, table, query, left, logged, lost>>

FirstChunk(n) == {batch[n][i] : i \in {j \in DOMAIN batch[n] : j <= load.batch}}
Rest(n) == SubSeq(batch[n], load.batch + 1, Len(batch[n]))

write_audit_batch(n) ==
    /\ batch[n] # <<>>
    /\ batch' = [batch EXCEPT ![n] = Rest(n)]
    /\ \/ table' = table \cup FirstChunk(n) /\ UNCHANGED <<lost, left>>
       \/ Spend("writes") /\ lost' = lost \cup FirstChunk(n) /\ UNCHANGED table
    /\ UNCHANGED <<node, runs, mails, buf, query, logged>>

\* An administrator asks a node for the audit log.
query_audit(n) ==
    /\ Up(n) /\ query.at = "new" /\ load.asks
    /\ query' = [query EXCEPT !.at = "flush", !.by = n, !.before = logged[n]]
    /\ UNCHANGED <<node, runs, mails, buf, batch, table, left, logged, lost>>

flush_global_audit_log_manager(n) ==
    /\ query.at = "flush" /\ query.by = n /\ batch[n] = <<>> /\ TakeQueue(n)
    /\ query' = [query EXCEPT !.at = "read"]
    /\ UNCHANGED <<node, runs, mails, table, left, logged, lost>>
find_with_filters_cursor(n) ==
    /\ query.at = "read" /\ query.by = n /\ batch[n] = <<>>
    /\ query' = [query EXCEPT !.at = "done", !.seen = table]
    /\ UNCHANGED <<node, runs, mails, buf, batch, table, left, logged, lost>>

\* An audited request.
AuditedRequest(n) ==
    /\ Up(n) /\ Cardinality({e \in logged[n] : e[2] = "request"}) < load.requests /\ log(n, "request")
    /\ UNCHANGED <<node, runs, mails>>

-----------------------------------------------------------------------------
(* The runtime lease and the claims of scheduled tasks.                    *)

\* external: a node without the lease asks for it again; one that holds it renews it.
AcquireLease(n) ==
    /\ Up(n) /\ ~node[n].leading /\ Kinds # {} /\ ~lease.fresh
    /\ lease' = [owner |-> n, fresh |-> TRUE] /\ node' = [node EXCEPT ![n].leading = TRUE]
    /\ UNCHANGED <<claim, run, record, clock, told, twice, mails, audits, left>>
RenewLease(n) ==
    /\ Up(n) /\ node[n].leading /\ ~(lease.owner = n /\ lease.fresh)
    /\ IF lease.owner = n
         THEN lease' = [lease EXCEPT !.fresh = TRUE] /\ UNCHANGED node
         ELSE node' = [node EXCEPT ![n].leading = FALSE] /\ UNCHANGED lease
    /\ UNCHANGED <<claim, run, record, clock, told, twice, mails, audits, left>>

\* The lease and a claim run out when their holder is gone, or is held up.
LeaseHeld == Up(lease.owner) /\ node[lease.owner].leading
LeaseExpires ==
    /\ lease.fresh /\ lease' = [lease EXCEPT !.fresh = FALSE]
    /\ IF LeaseHeld THEN Spend("stalls") ELSE UNCHANGED left
    /\ UNCHANGED <<node, claim, run, record, clock, told, twice, mails, audits>>
ClaimHeld(k) == run[<<claim[k].by, k>>].at # "idle"
ClaimExpires(k) ==
    /\ claim[k].fresh /\ claim' = [claim EXCEPT ![k].fresh = FALSE]
    /\ IF ClaimHeld(k) THEN Spend("stalls") ELSE UNCHANGED left
    /\ UNCHANGED <<node, lease, run, record, clock, told, twice, mails, audits>>

Watch(k) == twice' = IF \E n, o \in Nodes : n # o /\ run'[<<n, k>>].at # "idle" /\ run'[<<o, k>>].at # "idle" THEN twice \cup {k} ELSE twice

\* A scheduled task is due: whoever leads claims its slot.
ClaimSlot(n, k) ==
    /\ Up(n) /\ node[n].leading /\ k # Dispatch /\ run[<<n, k>>].at = "idle" /\ ~claim[k].fresh
    /\ claim[k].slot <= load.kinds[k] /\ (k = MailKind => post[n].at = "idle")
    /\ claim' = [claim EXCEPT ![k] = [@ EXCEPT !.by = n, !.fresh = TRUE]]
    /\ run' = [run EXCEPT ![<<n, k>>] = [Idle EXCEPT !.at = "work", !.slot = claim[k].slot]]
    /\ Watch(k)
    /\ UNCHANGED <<node, lease, record, clock, told, mails, audits, left>>

\* The dispatcher of background tasks iterates without a slot.
run_background_task_dispatch_iteration(n) ==
    /\ Up(n) /\ node[n].leading /\ Dispatch \in Kinds /\ run[<<n, Dispatch>>].at = "idle"
    /\ claim[Dispatch].slot <= load.kinds[Dispatch]
    /\ run' = [run EXCEPT ![<<n, Dispatch>>] = [Idle EXCEPT !.at = "work"]]
    /\ Watch(Dispatch)
    /\ UNCHANGED <<node, lease, claim, record, clock, told, mails, audits, left>>

\* What a run comes to, from what its work returned.
run_cleanup(r) == CASE r = "some" -> "succeeded" [] r = "none" -> "quiet" [] r = "error" -> "failed"
run_yggdrasil_storage_consistency_check(r) ==
    CASE r = "issues" -> "failed" [] r = "some" -> "succeeded" [] r = "none" -> "quiet" [] r = "error" -> "failed"
\* Bound textures are registered first; a failure there leaves the blobs alone.
run_yggdrasil_texture_cleanup(registered, r) == IF registered = "error" THEN "failed"
    ELSE CASE r = "error" -> "failed" [] registered = "some" \/ r = "some" -> "succeeded" [] OTHER -> "quiet"
HealthStatus == {"healthy", "degraded", "unhealthy"}
run_system_health_checks == [{"database", "cache"} -> HealthStatus]
system_health_outcome(report) == IF \E c \in DOMAIN report : report[c] # "healthy" THEN "failed" ELSE "succeeded"
background_task_dispatch_outcome(r) == IF r = "error" THEN "failed" ELSE "quiet"

Results == {"some", "none", "error"}
OutcomesOf(k) ==
    CASE k = Health -> {system_health_outcome(r) : r \in run_system_health_checks}
      [] k = Dispatch -> {background_task_dispatch_outcome(r) : r \in Results}
      [] k = "yggdrasil-storage-consistency-check" -> {run_yggdrasil_storage_consistency_check(r) : r \in Results \cup {"issues"}}
      [] k = "yggdrasil-texture-cleanup" -> {run_yggdrasil_texture_cleanup(g, r) : g, r \in Results}
      [] OTHER -> {run_cleanup(r) : r \in Results}

\* A run ends, or panics, which is a failure too.
EndWork(n, k, o) ==
    /\ run' = [run EXCEPT ![<<n, k>>] = [@ EXCEPT !.at = IF o = "quiet" THEN "complete" ELSE "find", !.outcome = o, !.ended = clock + 1]]
    /\ clock' = IF o = "quiet" THEN clock ELSE clock + 1
RunTask(n, k) ==
    /\ k # MailKind /\ run[<<n, k>>].at = "work"
    /\ \E o \in OutcomesOf(k) \cup {"failed"} : EndWork(n, k, o)
    /\ UNCHANGED <<node, lease, claim, record, told, twice, mails, audits, left>>

-----------------------------------------------------------------------------
(* The record of a run.                                                    *)

OfKind(k) == {i \in DOMAIN record : record[i].kind = k}
find_latest_system_runtime_by_payload(k) == {i \in OfKind(k) : \A j \in OfKind(k) : record[j].updated <= record[i].updated}
find_by_dedupe_key(k, s) == {i \in OfKind(k) : s # 0 /\ record[i].slot = s}
should_refresh_latest_success(k, o) == k = Health /\ o = "succeeded"

\* The latest record of a healthy system is used again.
FindLatest(n, k) ==
    LET r == run[<<n, k>>]
        latest == IF should_refresh_latest_success(k, r.outcome)
                    THEN {i \in find_latest_system_runtime_by_payload(k) : record[i].status = "succeeded"} ELSE {}
    IN  /\ r.at = "find"
        /\ \/ latest = {} /\ run' = [run EXCEPT ![<<n, k>>].at = "insert"]
           \/ \E i \in latest : run' = [run EXCEPT ![<<n, k>>] = [@ EXCEPT !.at = "refresh", !.row = i]]
        /\ UNCHANGED <<node, lease, claim, record, clock, told, twice, mails, audits, left>>

\* A row that is gone by now, or is no success any more, is not touched: a new one is inserted.
refresh_system_runtime_success(n, k) ==
    LET r == run[<<n, k>>] IN
    /\ r.at = "refresh"
    /\ IF r.row \in DOMAIN record /\ record[r.row].status = "succeeded"
         THEN /\ record' = [record EXCEPT ![r.row].updated = r.ended]
              /\ told' = [told EXCEPT ![k] = "succeeded"]
              /\ run' = [run EXCEPT ![<<n, k>>].at = "complete"]
         ELSE run' = [run EXCEPT ![<<n, k>>].at = "insert"] /\ UNCHANGED <<record, told>>
    /\ UNCHANGED <<node, lease, claim, clock, twice, mails, audits, left>>

NextId == Cardinality(DOMAIN record) + load.left.cleanups - left.cleanups + 1
NewRecord(k, r) == [kind |-> k, slot |-> r.slot, status |-> r.outcome, updated |-> r.ended]
Insert(row) == record' = [i \in DOMAIN record \cup {NextId} |-> IF i = NextId THEN row ELSE record[i]]

\* mutant: the dedupe key is not unique
InsertAnyway(n, k) ==
    LET r == run[<<n, k>>] IN
    /\ r.at = "insert" /\ Insert(NewRecord(k, r))
    /\ told' = [told EXCEPT ![k] = r.outcome]
    /\ run' = [run EXCEPT ![<<n, k>>].at = "complete"]
    /\ UNCHANGED <<node, lease, claim, clock, twice, mails, audits, left>>

\* The unique index on dedupe_key decides; the row that is there already stands for this run too.
insert_typed_task_record(n, k) ==
    LET r == run[<<n, k>>] IN
    /\ r.at = "insert"
    /\ IF find_by_dedupe_key(k, r.slot) = {}
         THEN Insert(NewRecord(k, r)) /\ told' = [told EXCEPT ![k] = r.outcome]
         ELSE UNCHANGED <<record, told>>
    /\ run' = [run EXCEPT ![<<n, k>>].at = "complete"]
    /\ UNCHANGED <<node, lease, claim, clock, twice, mails, audits, left>>

\* external: the slot is over unless another node has claimed it since. A run that left no trace
\* gives its number back, so that quiet runs do not count towards the bound.
CompleteSlot(n, k) ==
    LET r == run[<<n, k>>]
        next == [slot |-> claim[k].slot + (IF r.outcome = "quiet" THEN 0 ELSE 1), by |-> NoNode, fresh |-> FALSE]
    IN  /\ r.at = "complete"
        /\ run' = [run EXCEPT ![<<n, k>>] = Idle]
        /\ claim' = IF k = Dispatch \/ (claim[k].by = n /\ claim[k].slot = r.slot) THEN [claim EXCEPT ![k] = next] ELSE claim
        /\ UNCHANGED <<node, lease, record, clock, told, twice, mails, audits, left>>

\* An administrator deletes finished records (task_service::admin).
CleanupRecord(i) ==
    /\ Spend("cleanups") /\ record' = [j \in DOMAIN record \ {i} |-> record[j]]
    /\ told' = [told EXCEPT ![record[i].kind] = "nothing"]
    /\ UNCHANGED <<node, lease, claim, run, clock, twice, mails, audits>>

-----------------------------------------------------------------------------
(* The mail outbox.                                                        *)

MailStatus == {"none", "pending", "retry", "processing", "sent", "failed"}
Settled == {"sent", "failed"}
\* mutant: a row whose processing was cut off is not looked at
ClaimOnce(m) == mail[m].status \in {"pending", "retry"} /\ mail[m].due
\* The rows dispatch_due claims: due, or in processing for more than MAIL_OUTBOX_PROCESSING_STALE_SECS.
Claimable(m) == (mail[m].status \in {"pending", "retry"} /\ mail[m].due) \/ (mail[m].status = "processing" /\ mail[m].stale)

Draining(n) == node[n].at = "drain"

\* A request or a service of a node that is up writes a row (enqueue), in its own transaction.
enqueue(m) ==
    /\ mail[m].status = "none" /\ \E n \in Nodes : Up(n)
    /\ mail' = [mail EXCEPT ![m] = [@ EXCEPT !.status = "pending", !.due = TRUE]]
    /\ late' = [n \in Nodes |-> IF Draining(n) THEN late[n] \cup {m} ELSE late[n]]
    /\ UNCHANGED <<node, runs, post, box, again, audits, left>>

\* A node dispatches within a run of the scheduled task, or while it drains the outbox.
dispatch_due(n) ==
    /\ post[n].at = "idle" /\ (Draining(n) \/ (MailKind \in Kinds /\ run[<<n, MailKind>>].at = "work"))
    /\ LET due == {m \in Mails : Claimable(m)} IN
       \E picked \in {p \in SUBSET due : IF Cardinality(due) <= load.mail_batch THEN p = due ELSE Cardinality(p) = load.mail_batch} :
         /\ post' = [post EXCEPT ![n] = [at |-> "deliver", todo |-> {<<m, "">> : m \in picked},
                                         claimed |-> Cardinality(picked), rounds |-> @.rounds + 1]]
         /\ mail' = [m \in Mails |-> IF m \in picked THEN [mail[m] EXCEPT !.status = "processing", !.stale = FALSE] ELSE mail[m]]
    /\ late' = [late EXCEPT ![n] = {}]
    /\ UNCHANGED <<node, runs, box, again, audits, left>>

\* A payload that cannot be read fails at every attempt.
render(m) == load.mails[m] = "good"

\* What became of the mail, not yet marked in its row.
Answered(n, m, r) == (post[n].todo \ {<<m, "">>}) \cup {<<m, r>>}

\* The template is rendered and the mail handed to the server.
deliver_one(n, m) ==
    /\ post[n].at = "deliver" /\ <<m, "">> \in post[n].todo
    /\ \/ /\ render(m) /\ box' = [box EXCEPT ![m] = @ + 1]
          /\ post' = [post EXCEPT ![n] = [@ EXCEPT !.at = "mark", !.todo = Answered(n, m, "sent")]]
          /\ UNCHANGED left
       \/ /\ IF render(m) THEN Spend("sends") ELSE UNCHANGED left
          /\ post' = [post EXCEPT ![n] = [@ EXCEPT !.at = "mark", !.todo = Answered(n, m, "error")]]
          /\ UNCHANGED box
    /\ UNCHANGED <<node, runs, mail, again, late, audits>>

\* external: what the outbox makes of an answer; the retry policy of MAIL_OUTBOX_DISPATCH_CONFIG
AfterSent(row) == [row EXCEPT !.attempts = @ + 1, !.status = "sent"]
AfterError(row) ==
    [row EXCEPT !.attempts = @ + 1, !.status = IF row.attempts + 1 >= load.max_attempts THEN "failed" ELSE "retry", !.due = FALSE]
MarkMail(n, m) ==
    /\ post[n].at = "mark"
    /\ \E r \in {"sent", "error"} :
         /\ <<m, r>> \in post[n].todo
         /\ mail' = [mail EXCEPT ![m] = IF @.status # "processing" THEN @
                                        ELSE IF r = "sent" THEN AfterSent(@) ELSE AfterError(@)]
         /\ post' = [post EXCEPT ![n].at = IF r = "sent" \/ mail'[m].status = "failed" THEN "log" ELSE "deliver",
                                 ![n].todo = IF r = "sent" \/ mail'[m].status = "failed" THEN @ ELSE @ \ {<<m, r>>}]
    /\ UNCHANGED <<node, runs, box, again, late, audits, left>>

\* log_send_with_db and log_delivery_failed_with_db
LogMail(n, m) ==
    /\ post[n].at = "log"
    /\ \E r \in {"sent", "error"} :
         /\ <<m, r>> \in post[n].todo
         /\ post' = [post EXCEPT ![n].at = "deliver", ![n].todo = @ \ {<<m, r>>}]
         /\ log_with_db_and_config(n, IF r = "sent" THEN "mail_send" ELSE "mail_delivery_failed")
    /\ UNCHANGED <<node, runs, mail, box, again, late>>

\* A batch that claimed nothing is the quiet end of a run of the scheduled task; the database may fail.
run_mail_outbox_dispatch(n) ==
    /\ MailKind \in Kinds /\ run[<<n, MailKind>>].at = "work"
    /\ \/ /\ post[n].at = "deliver" /\ post[n].todo = {} /\ UNCHANGED left
          /\ EndWork(n, MailKind, IF post[n].claimed > 0 THEN "succeeded" ELSE "quiet")
       \/ post[n].at = "idle" /\ Spend("claims") /\ EndWork(n, MailKind, "failed")
    /\ post' = [post EXCEPT ![n] = Still]
    /\ UNCHANGED <<node, lease, claim, record, told, twice, mail, box, again, late, audits>>

\* The wait after an error is over; a row stays in processing when its node is gone, or held up.
MailFallsDue(m) ==
    /\ mail[m].status = "retry" /\ ~mail[m].due /\ mail' = [mail EXCEPT ![m].due = TRUE]
    /\ UNCHANGED <<node, runs, post, box, again, late, audits, left>>
Attended(m) == \E n \in Nodes : \E r \in {"", "sent", "error"} : <<m, r>> \in post[n].todo
MailGoesStale(m) ==
    /\ mail[m].status = "processing" /\ ~mail[m].stale
    /\ mail' = [mail EXCEPT ![m].stale = TRUE] /\ again' = [again EXCEPT ![m] = @ + 1]
    /\ IF Attended(m) THEN Spend("stalls") ELSE UNCHANGED left
    /\ UNCHANGED <<node, runs, post, box, late, audits>>

-----------------------------------------------------------------------------
(* A node starts, crashes and shuts down.                                  *)

To(n, s) == node' = [node EXCEPT ![n].at = s]

record_server_start(n) ==
    /\ node[n].at = "down" /\ n \in load.nodes /\ log(n, "server_start") /\ To(n, "up")
    /\ UNCHANGED <<runs, mails>>

\* What the node had in memory is gone; what it had claimed stays claimed.
Crash(n) ==
    /\ Alive(n) /\ Spend("crashes")
    /\ node' = [node EXCEPT ![n] = [at |-> "down", leading |-> FALSE, cancelled |-> FALSE]]
    /\ run' = [nk \in Nodes \X Kinds |-> IF nk[1] = n THEN Idle ELSE run[nk]]
    /\ post' = [post EXCEPT ![n] = Still]
    /\ lost' = lost \cup {buf[n][i] : i \in DOMAIN buf[n]} \cup {batch[n][i] : i \in DOMAIN batch[n]}
    /\ buf' = [buf EXCEPT ![n] = <<>>] /\ batch' = [batch EXCEPT ![n] = <<>>]
    /\ query' = IF query.by = n /\ query.at # "done" THEN [query EXCEPT !.at = "done", !.before = {}] ELSE query
    /\ UNCHANGED <<lease, claim, record, clock, told, twice, mail, box, again, late, table, logged>>

\* The HTTP server stops when its requests are answered; the background tasks are told to stop.
StopNode(n) ==
    /\ Up(n) /\ n \in load.stops /\ ~(query.by = n /\ query.at \in {"flush", "read"})
    /\ node' = [node EXCEPT ![n].at = "tasks", ![n].leading = FALSE]
    /\ UNCHANGED <<runs, mails, audits, left>>

\* The runs under way end before the next phase begins.
ShutdownTasks(n) ==
    /\ node[n].at = "tasks" /\ \A k \in Kinds : run[<<n, k>>].at = "idle"
    /\ To(n, "drain")
    /\ UNCHANGED <<runs, mails, audits, left>>

\* mutant: one batch is enough
DrainOneBatch(n) ==
    /\ Draining(n) /\ post[n].at = "deliver" /\ post[n].todo = {}
    /\ To(n, "audit") /\ post' = [post EXCEPT ![n] = Still]
    /\ UNCHANGED <<runs, mail, box, again, late, audits, left>>

\* Batch after batch until one claims nothing, MAIL_OUTBOX_DRAIN_MAX_ROUNDS are over or one fails.
drain_with(n) ==
    /\ Draining(n)
    /\ \/ /\ post[n].at = "deliver" /\ post[n].todo = {} /\ UNCHANGED left
          /\ IF post[n].claimed = 0 \/ post[n].rounds >= load.rounds
               THEN To(n, "audit") /\ post' = [post EXCEPT ![n] = Still]
               ELSE UNCHANGED node /\ post' = [post EXCEPT ![n].at = "idle"]
       \/ /\ post[n].at = "idle" /\ Spend("claims")
          /\ To(n, "audit") /\ post' = [post EXCEPT ![n] = [Still EXCEPT !.at = "broken"]]
    /\ UNCHANGED <<runs, mail, box, again, late, audits>>

record_server_shutdown(n) ==
    /\ node[n].at = "audit" /\ log(n, "server_shutdown") /\ To(n, "flush")
    /\ UNCHANGED <<runs, mails>>

\* mutant: the writer is cancelled and its queue left
CancelOnly(n) ==
    /\ node[n].at = "flush" /\ ~node[n].cancelled /\ batch[n] = <<>>
    /\ node' = [node EXCEPT ![n].cancelled = TRUE]
    /\ UNCHANGED <<runs, mails, audits, left>>

\* The writer's own task is cancelled, then its queue written in this phase.
shutdown_global_audit_log_manager(n) ==
    /\ node[n].at = "flush" /\ ~node[n].cancelled /\ batch[n] = <<>>
    /\ node' = [node EXCEPT ![n].cancelled = TRUE] /\ TakeQueue(n)
    /\ UNCHANGED <<runs, mails, table, query, left, logged, lost>>
CloseDatabase(n) ==
    /\ node[n].at = "flush" /\ node[n].cancelled /\ batch[n] = <<>> /\ To(n, "off")
    /\ UNCHANGED <<runs, mails, audits, left>>

-----------------------------------------------------------------------------
RunStep(n, k) ==
    \/ ClaimSlot(n, k) \/ RunTask(n, k) \/ FindLatest(n, k) \/ refresh_system_runtime_success(n, k)
    \/ insert_typed_task_record(n, k) \/ CompleteSlot(n, k)
    \/ (k = Dispatch /\ run_background_task_dispatch_iteration(n))
MailStep(n) ==
    dispatch_due(n) \/ (\E m \in Mails : deliver_one(n, m) \/ MarkMail(n, m) \/ LogMail(n, m)) \/ run_mail_outbox_dispatch(n)
LeaseStep(n) == AcquireLease(n) \/ RenewLease(n)
AuditStep(n) == DelayedFlush(n) \/ write_audit_batch(n) \/ flush_global_audit_log_manager(n) \/ find_with_filters_cursor(n)
StopStep(n) ==
    ShutdownTasks(n) \/ drain_with(n) \/ record_server_shutdown(n) \/ shutdown_global_audit_log_manager(n) \/ CloseDatabase(n)
Expires == LeaseExpires \/ (\E k \in Kinds : ClaimExpires(k)) \/ (\E m \in Mails : MailGoesStale(m))

Step ==
    \/ \E n \in Nodes : \/ \E k \in Kinds : RunStep(n, k)
                        \/ MailStep(n) \/ LeaseStep(n) \/ AuditStep(n) \/ StopStep(n)
                        \/ record_server_start(n) \/ StopNode(n) \/ Crash(n) \/ query_audit(n) \/ AuditedRequest(n)
    \/ \E m \in Mails : enqueue(m) \/ MailFallsDue(m)
    \/ Expires
    \/ \E i \in DOMAIN record : CleanupRecord(i)
Next == Step /\ UNCHANGED load

Spec == Init /\ [][Next]_vars

\* Every task of a node goes on while it is up, a node that crashed is started again, and what its
\* holder no longer renews runs out.
Fairness ==
    /\ \A n \in Nodes :
         /\ \A k \in SystemRuntimeTaskKind : WF_vars(k \in Kinds /\ RunStep(n, k) /\ UNCHANGED load)
         /\ WF_vars(MailStep(n) /\ UNCHANGED load)
         /\ WF_vars(LeaseStep(n) /\ UNCHANGED load)
         /\ WF_vars(AuditStep(n) /\ UNCHANGED load)
         /\ WF_vars(StopStep(n) /\ UNCHANGED load)
         /\ WF_vars(record_server_start(n) /\ UNCHANGED load)
    /\ WF_vars(lease.fresh /\ ~LeaseHeld /\ LeaseExpires /\ UNCHANGED load)
    /\ \A k \in SystemRuntimeTaskKind : WF_vars(k \in Kinds /\ claim[k].fresh /\ ~ClaimHeld(k) /\ ClaimExpires(k) /\ UNCHANGED load)
    /\ \A m \in 1 .. MaxMails : WF_vars(m \in Mails /\ ~Attended(m) /\ (MailFallsDue(m) \/ MailGoesStale(m)) /\ UNCHANGED load)
FairSpec == Spec /\ Fairness

-----------------------------------------------------------------------------
(* Properties.                                                             *)

\* Rows and nodes are in one of their states, a queue never holds more than its capacity and a mail
\* is not tried more than MAIL_OUTBOX_MAX_ATTEMPTS times.
TypeOK ==
    /\ \A n \in Nodes : node[n].at \in Phases /\ Len(buf[n]) <= load.capacity
    /\ Kinds \subseteq SystemRuntimeTaskKind
    /\ \A m \in Mails : mail[m].status \in MailStatus /\ mail[m].attempts <= load.max_attempts
    /\ \A i \in DOMAIN record : record[i].kind \in Kinds /\ record[i].status \in {"succeeded", "failed"}

\* A slot of the schedule leaves one record, also when its claim ran out and another node ran it
\* again, or the node crashed between recording the run and completing it (dedupe_key).
OneRecordPerSlot ==
    \A i, j \in DOMAIN record : record[i].kind = record[j].kind /\ record[i].slot = record[j].slot /\ record[i].slot # 0 => i = j

\* The latest record of a task tells what its last recorded run came to, whether that run refreshed
\* a record or inserted one, and although an administrator may delete the record in between.
LatestIsTold ==
    \A k \in Kinds \ twice : told[k] # "nothing" =>
        \E i \in find_latest_system_runtime_by_payload(k) : record[i].status = told[k]

\* A mail is delivered again only if its processing went stale: two nodes that dispatch at once, or
\* the scheduled dispatch and another node's drain, do not both send it.
MailOnce == \A m \in Mails : box[m] <= 1 + again[m]

\* The drain of a shutdown leaves no mail in the outbox that nobody has tried, except those other
\* nodes enqueued after its last batch, unless a batch failed or the last round claimed mails still
\* (drain_with). A node that drains has stopped serving, so that a single node leaves nothing.
DrainLeavesNothing ==
    [][\A n \in Nodes : Draining(n) /\ node'[n].at = "audit" =>
        \/ {m \in Mails : mail[m].status = "pending"} \subseteq late[n]
        \/ post'[n].at = "broken"
        \/ post[n].claimed > 0 /\ post[n].rounds >= load.rounds]_vars

\* A node that has shut down left every event it logged in the table, its own shutdown included,
\* but for the rows whose write failed: a chunk that fails takes no other with it (write_audit_batch).
AuditComplete ==
    /\ \A n \in Nodes : node[n].at = "off" => logged[n] \subseteq table \cup lost
    /\ Cardinality(lost) <= load.batch * (load.left.writes - left.writes) + load.capacity * 2 * (load.left.crashes - left.crashes)

\* An administrator who asks a node for the audit log sees every event logged there before.
QuerySeesAll == query.at = "done" => query.before \subseteq query.seen \cup lost

\* Every mail in the outbox is sent or given up in the end, unless all nodes were shut down.
Waiting(m) == m \in Mails /\ mail[m].status \in MailStatus \ ({"none"} \cup Settled)
MailSettles == \A m \in 1 .. MaxMails : Waiting(m) ~> (~Waiting(m) \/ \A n \in load.nodes : node[n].at = "off")

\* What nodes do at the same time, or again after a crash, takes effect once: the record of a slot,
\* the delivery of a mail.
RunsOnce == TypeOK /\ OneRecordPerSlot /\ MailOnce

\* What is on record is what happened: the latest record of a task tells its last run, and the audit
\* log is whole, after a shutdown in the table and for a query in its answer.
RecordsTell == LatestIsTold /\ AuditComplete /\ QuerySeesAll
=============================================================================
