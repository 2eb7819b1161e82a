------------------------- MODULE Deployment_proofs -------------------------
(***************************************************************************)
(* Proofs about what the nodes of a deployment share through its database. *)
(*                                                                         *)
(* ConfigStore, for any number of nodes and requests, whatever they save:  *)
(* a node that missed nothing ends with the rows that are stored, the      *)
(* stored halves of the signature key match, the policy for requests of    *)
(* other origins stays shut, and every policy read from the rows is within *)
(* its limits: what a normaliser accepted once it accepts again unchanged, *)
(* and each key has one reader, so that a statement about all values of a  *)
(* key is made once, for its rule.                                         *)
(*                                                                         *)
(* TaskLease, for every number of tasks, dispatchers and administrators    *)
(* and every budget: its types, the fencing of stale workers, that it      *)
(* implements TaskLifecycle, and, while no live worker stalls, the lane's  *)
(* limit and the count of attempts.                                        *)
(***************************************************************************)
EXTENDS TaskLease, ConfigStore, FiniteSetTheorems, TLAPS

----------------------------------------------------------------------------
(* ConfigStore: what holds of the state                                    *)


\* Steps of a request between its first write and its notification, and outside of a change.
Untold == {"remove", "apply", "build", "write", "public", "apply public", "publish"}
ChangeSteps == {"remove", "apply", "build", "write", "public", "apply public"}
Ended == {"new", "done", "refused", "failed"}
Loaded(n) == stage[n] \notin {"off", "defaults", "load"}

\* A table of requests S.
IsTable(J, S) ==
    /\ J = [j \in S |-> J[j]]
    /\ \A j \in S : J[j] \in [at : {J[j].at}, value : {J[j].value}, set : {J[j].set}]

\* The parts of the state have the shapes they are used with.
Shapes ==
    /\ load \in Workloads
    /\ snap = [n \in Nodes |-> snap[n]] /\ audit = [n \in Nodes |-> audit[n]]
    /\ found = [n \in Nodes |-> found[n]] /\ stage \in [Nodes -> Stages]
    /\ sub = [n \in Nodes |-> sub[n]]
    /\ \A n \in Nodes : sub[n] \in [at : {"idle", "replace", "settings"}, rows : {sub[n].rows}]
    /\ box \in [Nodes -> Nat]
    /\ IsTable(job, Jobs)
    /\ \A j \in Jobs : job[j].at \in Steps

\* A node that is not up does nothing but start.
Booted ==
    \A n \in Nodes : stage[n] # "up" =>
        sub[n].at = "idle" /\ box[n] = 0 /\ \A j \in On(n) : job[j].at \in Ended

\* A request is at a step of its own kind, and changes the keys its kind may change.
Fits ==
    \A j \in Jobs :
        /\ job[j].at \in {"upsert", "build", "write"} => load.jobs[j].op = "save"
        /\ job[j].at \in {"delete", "remove"} => load.jobs[j].op = "delete"
        /\ job[j].at \in {"public", "apply public"} => load.jobs[j].op = "rotate"
        /\ job[j].at = "apply" => load.jobs[j].op \in {"save", "rotate"}
        /\ job[j].at = "publish" => load.jobs[j].op \in {"save", "delete", "rotate"}
        /\ job[j].at = "remove" => Of(j) \notin SystemKeys
        /\ job[j].at = "upsert" => Of(j) # PrivateKey

\* A node that is not tangled has at most one change under way.
Apart == \A n \in Nodes \ tangled : \A a, b \in Midway(n) : a = b

\* A notification is on its way to the node, or a change it will be told of.
Pending(n) == box[n] > 0 \/ \E j \in Jobs \ On(n) : job[j].at \in Untold

\* How the snapshot of a node differs from the rows, by the change it has under way.
Follows(n, j) ==
    /\ job[j].at = "remove" =>
          /\ db = [k \in DOMAIN snap[n] \ {Of(j)} |-> snap[n][k]]
          /\ audit[n] = AuditSettings(snap[n])
    /\ job[j].at = "apply" /\ load.jobs[j].op = "save" =>
          /\ db = Put(snap[n], Of(j), job[j].value)
          /\ audit[n] = AuditSettings(snap[n])
    /\ job[j].at \in {"build", "write"} => snap[n] = db
    /\ job[j].at = "write" => job[j].set = AuditSettings(db)
    /\ job[j].at \in {"public", "apply", "apply public"} /\ load.jobs[j].op = "rotate" =>
          audit[n] = AuditSettings(snap[n])
    /\ job[j].at = "public" => db = Put(snap[n], PrivateKey, job[j].value)
    /\ job[j].at = "apply" /\ load.jobs[j].op = "rotate" =>
          db = Put(Put(snap[n], PrivateKey, job[j].value), PublicKey, Pub(job[j].value[2]))
    /\ job[j].at = "apply public" => db = Put(snap[n], PublicKey, Pub(job[j].value[2]))
Current(n) ==
    /\ sub[n].at # "idle" => sub[n].rows = db
    /\ sub[n].at = "settings" => snap[n] = db
    /\ Midway(n) = {} => snap[n] = db /\ audit[n] = AuditSettings(db)
    /\ \A j \in On(n) : Follows(n, j)
Settled == \A n \in Nodes \ (tangled \cup missed) : Loaded(n) => Pending(n) \/ Current(n)

ConvergeInv == Shapes /\ Booted /\ Fits /\ Apart /\ Settled

\* The key: one writer at a time, and who makes its halves match.
Matching == PrivateKey \in DOMAIN db => Get(db, PublicKey) = Pub(Get(db, PrivateKey)[2])
Keyed ==
    ~crossed =>
      /\ \A a, b \in KeyWriters : a = b
      /\ \A j \in Jobs : load.jobs[j].op = "save" /\ Of(j) = PublicKey => job[j].at = "new"
      /\ \A n \in Nodes : stage[n] = "save key" => Trim(found[n]) = found[n]
      /\ \A n \in Nodes : stage[n] = "sync key" => PrivateKey \in DOMAIN db /\ Get(db, PrivateKey) = found[n]
      /\ \A j \in Jobs : job[j].at = "public" =>
            PrivateKey \in DOMAIN db /\ Get(db, PrivateKey) = job[j].value
      /\ load.aboutKeys /\ (\A n \in Nodes : stage[n] = "up") /\ (\A j \in Jobs : job[j].at # "public") => Matching

\* A request belongs to a node, and there are finitely many.
LEMMA JobFacts ==
    ASSUME load \in Workloads
    PROVE  /\ IsFiniteSet(Jobs) /\ 0 \notin Jobs /\ Jobs \cap Nodes = {}
           /\ \A j \in Jobs : Here(j) \in Nodes /\ j \in On(Here(j))
BY ConfigAssumption DEF Jobs, Here, On

\* Requests start new, on nodes that have loaded all rows or none.
LEMMA InitShapes == ConfigInit => Shapes /\ Booted /\ Fits
<1> SUFFICES ASSUME ConfigInit PROVE Shapes /\ Booted /\ Fits
  OBVIOUS
<1>1. Shapes
  <2>1. IsTable(job, Jobs) /\ \A j \in Jobs : job[j].at \in Steps
    BY DEF ConfigInit, IsTable, Steps
  <2>2. sub = [n \in Nodes |-> sub[n]] /\ \A n \in Nodes : sub[n] \in [at : {"idle", "replace", "settings"}, rows : {sub[n].rows}]
    BY DEF ConfigInit
  <2>3. box \in [Nodes -> Nat] /\ stage \in [Nodes -> Stages] /\ load \in Workloads
    BY DEF ConfigInit, Stages
  <2>4. /\ snap = [m \in Nodes |-> snap[m]] /\ audit = [m \in Nodes |-> audit[m]]
        /\ found = [m \in Nodes |-> found[m]]
    BY DEF ConfigInit
  <2> QED BY <2>1, <2>2, <2>3, <2>4 DEF Shapes
<1>2. Booted
  BY DEF ConfigInit, Booted, On, Ended, Jobs
<1>3. Fits
  BY DEF ConfigInit, Fits, Jobs
<1> QED BY <1>1, <1>2, <1>3

\* The steps of a start keep the shapes.
LEMMA StartShapes ==
    ASSUME Shapes, Watch, NEW n \in Nodes, Started(n)
    PROVE  Shapes'
<1> load' = load /\ Jobs' = Jobs
  BY DEF Watch, Jobs
<1>1. CASE bootstrap_insecure_cookies(n)
  BY <1>1 DEF bootstrap_insecure_cookies, Shapes, Booting, Stages, local, reload
<1>2. CASE ensure_defaults(n)
  BY <1>2 DEF ensure_defaults, Shapes, Booting, Stages, local, reload
<1>3. CASE prepare_runtime_config(n)
  BY <1>3 DEF prepare_runtime_config, Shapes, Booting, Stages, local, reload
<1>4. CASE ensure_signature_key(n)
  BY <1>4 DEF ensure_signature_key, Shapes, Booting, Stages, local, reload
<1>5. CASE SaveGeneratedKey(n)
  BY <1>5 DEF SaveGeneratedKey, Shapes, Booting, Stages, local, reload
<1>6. CASE sync_public_key_config(n)
  BY <1>6 DEF sync_public_key_config, Shapes, Booting, Stages, local, reload
<1> QED BY <1>1, <1>2, <1>3, <1>4, <1>5, <1>6 DEF Started

\* The steps of a subscription, a restart and a lost notification keep the shapes.
LEMMA NodeShapes ==
    ASSUME Shapes, Watch, NEW n \in Nodes, Reload(n) \/ Restart(n) \/ LoseNotification(n)
    PROVE  Shapes'
<1> load' = load /\ Jobs' = Jobs
  BY DEF Watch, Jobs
<1>1. CASE Receive(n)
  BY <1>1 DEF Receive, Shapes, local, starting
<1>2. CASE ReplaceSnapshot(n)
  BY <1>2 DEF ReplaceSnapshot, Shapes, starting
<1>3. CASE ReplaceSettings(n)
  BY <1>3 DEF ReplaceSettings, Shapes, starting
<1>4. CASE LoseNotification(n)
  BY <1>4 DEF LoseNotification, Shapes, local, starting
<1>5. CASE Restart(n)
  <2>1. job' = [j \in Jobs |-> IF j \in On(n) /\ job[j].at # "new" THEN [job[j] EXCEPT !.at = "done"] ELSE job[j]]
    BY <1>5 DEF Restart
  <2>2. IsTable(job', Jobs) /\ \A j \in Jobs : job'[j].at \in Steps
    BY <2>1 DEF Shapes, IsTable, Steps
  <2>3. sub' = [m \in Nodes |-> sub'[m]] /\ \A m \in Nodes : sub'[m] \in [at : {"idle", "replace", "settings"}, rows : {sub'[m].rows}]
    BY <1>5 DEF Restart, Shapes
  <2>4. box' \in [Nodes -> Nat] /\ stage' \in [Nodes -> Stages]
    BY <1>5 DEF Restart, Shapes, Stages
  <2>5. /\ snap' = [m \in Nodes |-> snap'[m]] /\ audit' = [m \in Nodes |-> audit'[m]]
        /\ found' = [m \in Nodes |-> found'[m]]
    BY <1>5 DEF Restart, Shapes
  <2> QED BY <2>2, <2>3, <2>4, <2>5 DEF Shapes
<1> QED BY <1>1, <1>2, <1>3, <1>4, <1>5 DEF Reload

\* A request writes its own entry.
LEMMA RequestWrites ==
    ASSUME NEW j \in Jobs, Request(j) \/ PublishFails(j)
    PROVE  \E s, v : s \in Steps \ {"new"} /\ (
              \/ job' = [job EXCEPT ![j].at = s]
              \/ job' = [job EXCEPT ![j].at = s, ![j].value = v]
              \/ job' = [job EXCEPT ![j].at = s, ![j].set = v])
BY DEF Request, save_config, set_config, Upsert, ApplySaved, build_audit_log_settings, WriteSettings, delete_with_audit,
       delete_config, DeleteRow, RemoveDeleted, execute_action, execute_config_action, execute_yggdrasil_action,
       RotatePublic, ApplyPrivate, ApplyPublic, Publish, PublishFails, To, Steps

\* A request leaves the starts and the subscriptions alone, and is under way on a node that is up.
LEMMA RequestKeeps ==
    ASSUME NEW j \in Jobs, Request(j) \/ PublishFails(j)
    PROVE  /\ stage' = stage /\ found' = found /\ sub' = sub
           /\ stage[Here(j)] = "up" /\ job[j].at \notin {"done", "refused", "failed"}
           /\ missed \subseteq missed'
BY DEF Request, save_config, set_config, Upsert, ApplySaved, build_audit_log_settings, WriteSettings, delete_with_audit,
       delete_config, DeleteRow, RemoveDeleted, execute_action, execute_config_action, execute_yggdrasil_action,
       RotatePublic, ApplyPrivate, ApplyPublic, Publish, PublishFails, To, At, Here, starting, reload

\* A request changes the snapshot and the settings of its own node.
LEMMA RequestLocal ==
    ASSUME Shapes, NEW j \in Jobs, Request(j) \/ PublishFails(j)
    PROVE  /\ snap' = [n \in Nodes |-> snap'[n]] /\ audit' = [n \in Nodes |-> audit'[n]]
           /\ \A n \in Nodes \ {Here(j)} : snap'[n] = snap[n] /\ audit'[n] = audit[n]
BY DEF Request, save_config, set_config, Upsert, ApplySaved, build_audit_log_settings, WriteSettings, delete_with_audit,
       delete_config, DeleteRow, RemoveDeleted, execute_action, execute_config_action, execute_yggdrasil_action,
       RotatePublic, ApplyPrivate, ApplyPublic, Publish, PublishFails, Shapes, local

\* Only the notification of a request reaches the boxes of other nodes.
LEMMA RequestBoxes ==
    ASSUME Shapes, NEW j \in Jobs, Request(j) \/ PublishFails(j)
    PROVE  box' \in [Nodes -> Nat] /\ \A n \in Nodes : box'[n] >= box[n]
<1>1. CASE Publish(j)
  BY <1>1 DEF Publish, Shapes
<1>2. CASE ~Publish(j)
  <2>1. box' = box
    BY <1>2 DEF Request, save_config, set_config, Upsert, ApplySaved, build_audit_log_settings, WriteSettings,
         delete_with_audit, delete_config, DeleteRow, RemoveDeleted, execute_action, execute_config_action,
         execute_yggdrasil_action, RotatePublic, ApplyPrivate, ApplyPublic, PublishFails, reload
  <2> QED BY <2>1 DEF Shapes
<1> QED BY <1>1, <1>2

\* What a request leaves alone: other requests, other nodes, the subscriptions and the starts.
LEMMA RequestFrame ==
    ASSUME Shapes, Watch, NEW j \in Jobs, Request(j) \/ PublishFails(j)
    PROVE  /\ Shapes' /\ Jobs' = Jobs /\ load' = load
           /\ \A i \in Jobs \ {j} : job'[i] = job[i]
           /\ \A n \in Nodes \ {Here(j)} : snap'[n] = snap[n] /\ audit'[n] = audit[n]
           /\ stage' = stage /\ found' = found /\ sub' = sub
           /\ \A n \in Nodes : box'[n] >= box[n]
           /\ stage[Here(j)] = "up" /\ job[j].at \notin {"done", "refused", "failed"}
           /\ missed \subseteq missed' /\ Here(j) \in Nodes
<1>1. load' = load /\ Jobs' = Jobs /\ Here(j) \in Nodes
  BY JobFacts DEF Watch, Jobs, Shapes
<1>2. PICK s, v : s \in Steps \ {"new"} /\ (
         \/ job' = [job EXCEPT ![j].at = s]
         \/ job' = [job EXCEPT ![j].at = s, ![j].value = v]
         \/ job' = [job EXCEPT ![j].at = s, ![j].set = v])
  BY RequestWrites
<1>3. IsTable(job', Jobs) /\ job'[j].at = s /\ \A i \in Jobs \ {j} : job'[i] = job[i]
  <2>1. IsTable(job, Jobs) BY DEF Shapes
  <2>2. CASE job' = [job EXCEPT ![j].at = s] BY <2>1, <2>2 DEF IsTable
  <2>3. CASE job' = [job EXCEPT ![j].at = s, ![j].value = v] BY <2>1, <2>3 DEF IsTable
  <2>4. CASE job' = [job EXCEPT ![j].at = s, ![j].set = v] BY <2>1, <2>4 DEF IsTable
  <2> QED BY <1>2, <2>2, <2>3, <2>4
<1>4. \A i \in Jobs : job'[i].at \in Steps
  BY <1>2, <1>3 DEF Shapes
<1>5. Shapes'
  BY <1>1, <1>3, <1>4, RequestKeeps, RequestLocal, RequestBoxes DEF Shapes
<1> QED BY <1>1, <1>3, <1>5, RequestKeeps, RequestLocal, RequestBoxes

\* The moves of a request, by its kind.
Moves(j) ==
    LET from == job[j].at to == job'[j].at op == load.jobs[j].op IN
      \/ op = "save" /\ <<from, to>> \in {<<"new", "refused">>, <<"upsert", "apply">>, <<"apply", "build">>,
                                         <<"apply", "publish">>, <<"build", "write">>, <<"write", "publish">>}
      \/ op = "save" /\ from = "new" /\ to = "upsert" /\ Of(j) # PrivateKey
      \/ op = "delete" /\ <<from, to>> \in {<<"new", "delete">>, <<"new", "refused">>, <<"delete", "refused">>, <<"remove", "publish">>}
      \/ op = "delete" /\ from = "delete" /\ to = "remove" /\ Of(j) \notin SystemKeys
      \/ op = "rotate" /\ <<from, to>> \in {<<"new", "public">>, <<"public", "apply">>, <<"apply", "apply public">>,
                                           <<"apply public", "publish">>}
      \/ op \in {"preview", "mail"} /\ from = "new" /\ to \in {"refused", "done"}
      \/ op \in {"save", "delete", "rotate"} /\ from = "publish" /\ to \in {"done", "failed"}

\* Every request takes one of the moves of its kind.
LEMMA RequestMoves ==
    ASSUME Shapes, NEW j \in Jobs, Request(j) \/ PublishFails(j)
    PROVE  Moves(j)
<1> USE DEF Moves, Shapes, IsTable, At, To
<1>1. CASE save_config(j)
  BY <1>1 DEF save_config, set_config, validate_targets
<1>2. CASE Upsert(j)
  BY <1>2 DEF Upsert
<1>3. CASE ApplySaved(j)
  BY <1>3 DEF ApplySaved
<1>4. CASE build_audit_log_settings(j)
  BY <1>4 DEF build_audit_log_settings
<1>5. CASE WriteSettings(j)
  BY <1>5 DEF WriteSettings
<1>6. CASE delete_with_audit(j)
  BY <1>6 DEF delete_with_audit, delete_config
<1>7. CASE DeleteRow(j)
  <2>1. job[j].at = "delete" /\ load.jobs[j].op = "delete" BY <1>7 DEF DeleteRow
  <2>2. CASE Of(j) \in DOMAIN db \ SystemKeys
    <3>1. job' = [job EXCEPT ![j].at = "remove"] BY <1>7, <2>2 DEF DeleteRow
    <3>2. job'[j].at = "remove" BY <3>1
    <3> QED BY <2>1, <2>2, <3>2
  <2>3. CASE Of(j) \notin DOMAIN db \ SystemKeys
    <3>1. job' = [job EXCEPT ![j].at = "refused"] BY <1>7, <2>3 DEF DeleteRow
    <3>2. job'[j].at = "refused" BY <3>1
    <3> QED BY <2>1, <3>2
  <2> QED BY <2>2, <2>3
<1>8. CASE RemoveDeleted(j)
  BY <1>8 DEF RemoveDeleted
<1>9. CASE execute_action(j)
  BY <1>9 DEF execute_action, execute_config_action
<1>10. CASE execute_yggdrasil_action(j)
  BY <1>10 DEF execute_yggdrasil_action
<1>11. CASE RotatePublic(j)
  BY <1>11 DEF RotatePublic
<1>12. CASE ApplyPrivate(j)
  BY <1>12 DEF ApplyPrivate
<1>13. CASE ApplyPublic(j)
  BY <1>13 DEF ApplyPublic
<1>14. CASE Publish(j)
  BY <1>14 DEF Publish
<1>15. CASE PublishFails(j)
  BY <1>15 DEF PublishFails
<1> QED BY <1>1, <1>2, <1>3, <1>4, <1>5, <1>6, <1>7, <1>8, <1>9, <1>10, <1>11, <1>12, <1>13, <1>14, <1>15 DEF Request

\* At most one element when not more than one is counted.
LEMMA AtMostOne ==
    ASSUME NEW S, IsFiniteSet(S), ~(Cardinality(S) > 1)
    PROVE  \A a, b \in S : a = b
<1> SUFFICES ASSUME NEW a \in S, NEW b \in S, a # b PROVE FALSE
  OBVIOUS
<1>1. IsFiniteSet({a, b}) /\ Cardinality({a, b}) = 2
  BY FS_CardinalityType, FS_EmptySet, FS_AddElement, FS_Singleton
<1>2. Cardinality({a, b}) <= Cardinality(S)
  BY <1>1, FS_Subset
<1>3. Cardinality(S) \in Nat
  BY FS_CardinalityType
<1> QED BY <1>1, <1>2, <1>3

\* Two changes at once tangle a node.
LEMMA WatchApart ==
    ASSUME Shapes', Watch
    PROVE  Apart'
<1> SUFFICES ASSUME NEW n \in Nodes \ tangled' PROVE \A a, b \in Midway(n)' : a = b
  BY DEF Apart
<1>1. IsFiniteSet(Midway(n)')
  <2>1. IsFiniteSet(Jobs') BY ConfigAssumption DEF Shapes, Jobs
  <2>2. IsFiniteSet({i \in {0} : (sub[n].at # "idle")'}) BY FS_Singleton, FS_Subset
  <2>3. IsFiniteSet({j \in On(n)' : job'[j].at \in ChangeSteps}) BY <2>1, FS_Subset DEF On
  <2>4. Midway(n)' = {j \in On(n)' : job'[j].at \in ChangeSteps} \cup {i \in {0} : (sub[n].at # "idle")'}
    BY DEF Midway, ChangeSteps
  <2> DEFINE A == {j \in On(n)' : job'[j].at \in ChangeSteps}
             B == {i \in {0} : (sub[n].at # "idle")'}
  <2>5. IsFiniteSet(A \cup B)
    <3> HIDE DEF A, B
    <3>1. IsFiniteSet(A) /\ IsFiniteSet(B) BY <2>2, <2>3 DEF A, B
    <3> QED BY <3>1, FS_Union
  <2> QED BY <2>4, <2>5
<1>2. ~(Cardinality(Midway(n)') > 1)
  BY DEF Watch
<1> QED BY <1>1, <1>2, AtMostOne

\* The steps that are a change are those between the database and the snapshot.
LEMMA MidwayOf ==
    ASSUME NEW n \in Nodes
    PROVE  /\ Midway(n) = {j \in On(n) : job[j].at \in ChangeSteps} \cup {i \in {0} : sub[n].at # "idle"}
           /\ Midway(n)' = {j \in On(n)' : job'[j].at \in ChangeSteps} \cup {i \in {0} : sub'[n].at # "idle"}
BY DEF Midway, ChangeSteps

\* The steps of a start keep a node that is not up quiet.
LEMMA StartBooted ==
    ASSUME Shapes, Booted, Fits, Watch, NEW n \in Nodes, Started(n)
    PROVE  Booted' /\ Fits' /\ job' = job /\ sub' = sub /\ box' = box /\ stage[n] # "up"
<1> load' = load /\ Jobs' = Jobs
  BY DEF Watch, Jobs
<1>1. /\ job' = job /\ sub' = sub /\ box' = box /\ stage[n] # "up"
      /\ \A m \in Nodes \ {n} : stage'[m] = stage[m]
  BY DEF Started, bootstrap_insecure_cookies, ensure_defaults, prepare_runtime_config, ensure_signature_key,
         SaveGeneratedKey, sync_public_key_config, Booting, reload, Shapes
<1>2. Booted'
  BY <1>1 DEF Booted, On
<1>3. Fits'
  BY <1>1 DEF Fits, Of
<1> QED BY <1>1, <1>2, <1>3

\* So do a subscription, a restart and a lost notification.
LEMMA NodeBooted ==
    ASSUME Shapes, Booted, Fits, Watch, NEW n \in Nodes, Reload(n) \/ Restart(n) \/ LoseNotification(n)
    PROVE  Booted' /\ Fits'
<1> load' = load /\ Jobs' = Jobs
  BY DEF Watch, Jobs
<1>1. CASE Reload(n)
  <2>1. /\ job' = job /\ stage' = stage /\ stage[n] = "up"
        /\ \A m \in Nodes \ {n} : box'[m] = box[m] /\ sub'[m] = sub[m]
    BY <1>1 DEF Reload, Receive, ReplaceSnapshot, ReplaceSettings, starting, Shapes, Booted
  <2> QED BY <2>1 DEF Booted, Fits, On, Of
<1>2. CASE LoseNotification(n)
  <2>1. /\ job' = job /\ stage' = stage /\ sub' = sub /\ stage[n] = "up"
        /\ \A m \in Nodes \ {n} : box'[m] = box[m]
    BY <1>2 DEF LoseNotification, starting, Shapes, Booted
  <2> QED BY <2>1 DEF Booted, Fits, On, Of
<1>3. CASE Restart(n)
  <2>1. \A j \in Jobs : job'[j] = IF j \in On(n) /\ job[j].at # "new" THEN [job[j] EXCEPT !.at = "done"] ELSE job[j]
    BY <1>3 DEF Restart
  <2>2. \A j \in Jobs : job'[j].at = IF j \in On(n) /\ job[j].at # "new" THEN "done" ELSE job[j].at
    BY <2>1 DEF Shapes, IsTable
  <2>3. /\ sub'[n].at = "idle" /\ box'[n] = 0
        /\ \A m \in Nodes \ {n} : box'[m] = box[m] /\ sub'[m] = sub[m] /\ stage'[m] = stage[m]
    BY <1>3 DEF Restart, Shapes
  <2>4. Fits' BY <2>2 DEF Fits, Of
  <2>5. Booted' BY <2>2, <2>3 DEF Booted, On, Ended
  <2> QED BY <2>4, <2>5
<1> QED BY <1>1, <1>2, <1>3

\* And the requests.
LEMMA RequestBooted ==
    ASSUME Shapes, Booted, Fits, Watch, NEW j \in Jobs, Request(j) \/ PublishFails(j)
    PROVE  Booted' /\ Fits'
<1>1. /\ Jobs' = Jobs /\ load' = load /\ \A i \in Jobs \ {j} : job'[i] = job[i]
      /\ stage' = stage /\ sub' = sub /\ stage[Here(j)] = "up" /\ Here(j) \in Nodes
  BY RequestFrame
<1>2. Fits'
  BY <1>1, RequestMoves DEF Fits, Moves, Of
<1>3. \A n \in Nodes : stage[n] # "up" => box'[n] = box[n]
  <2>1. CASE Publish(j) BY <2>1 DEF Publish, Shapes
  <2>2. CASE ~Publish(j)
    BY <2>2 DEF Request, save_config, set_config, Upsert, ApplySaved, build_audit_log_settings, WriteSettings,
         delete_with_audit, delete_config, DeleteRow, RemoveDeleted, execute_action, execute_config_action,
         execute_yggdrasil_action, RotatePublic, ApplyPrivate, ApplyPublic, PublishFails, reload
  <2> QED BY <2>1, <2>2
<1>4. Booted'
  BY <1>1, <1>3 DEF Booted, On, Here
<1> QED BY <1>2, <1>4

----------------------------------------------------------------------------
(* Rows and audit settings                                                 *)

\* What is read after one row was written.
LEMMA PutGet ==
    ASSUME NEW c, NEW k, NEW v, NEW x
    PROVE  Get(Put(c, k, v), x) = IF x = k THEN Trim(v) ELSE Get(c, x)
BY DEF Get, Put

\* The rows that are there after one was written.
LEMMA PutIn ==
    ASSUME NEW c, NEW k, NEW v
    PROVE  DOMAIN Put(c, k, v) = DOMAIN c \cup {k}
BY DEF Put

\* What is read after another row was deleted.
LEMMA WithoutGet ==
    ASSUME NEW c, NEW k, NEW x, x # k
    PROVE  Get([y \in DOMAIN c \ {k} |-> c[y]], x) = Get(c, x)
BY DEF Get

\* The audit settings are made of two rows.
LEMMA AuditReads ==
    ASSUME NEW c, NEW d, Get(c, "audit_log_enabled") = Get(d, "audit_log_enabled"),
           Get(c, "audit_log_recorded_actions") = Get(d, "audit_log_recorded_actions")
    PROVE  AuditSettings(c) = AuditSettings(d)
BY Zenon DEF AuditSettings, ReadBool

\* Writing a row that is no audit key, or that is there already, leaves them as they are.
LEMMA AuditPut ==
    ASSUME NEW c, NEW k, NEW v,
           \/ k \notin {"audit_log_enabled", "audit_log_recorded_actions"}
           \/ k \in DOMAIN c /\ c[k] = v
    PROVE  AuditSettings(Put(c, k, v)) = AuditSettings(c)
<1>1. \A x \in {"audit_log_enabled", "audit_log_recorded_actions"} : Get(Put(c, k, v), x) = Get(c, x)
  BY PutGet DEF Get
<1> QED BY <1>1, AuditReads

\* So does deleting a custom row.
LEMMA AuditWithout ==
    ASSUME NEW c, NEW k, k \notin SystemKeys
    PROVE  AuditSettings([y \in DOMAIN c \ {k} |-> c[y]]) = AuditSettings(c)
<1>1. k \notin {"audit_log_enabled", "audit_log_recorded_actions"}
  BY ConfigAssumption
<1>2. \A x \in {"audit_log_enabled", "audit_log_recorded_actions"} :
         Get([y \in DOMAIN c \ {k} |-> c[y]], x) = Get(c, x)
  BY <1>1, WithoutGet
<1> QED BY <1>2, AuditReads

----------------------------------------------------------------------------
(* Convergence                                                             *)

\* A node that has what is stored, or will be told, stays so when nothing of it changes.
LEMMA Unmoved ==
    ASSUME Shapes, Settled, NEW n \in Nodes, n \notin tangled, n \notin missed, Loaded(n),
           load' = load, db' = db, snap'[n] = snap[n], audit'[n] = audit[n], sub'[n] = sub[n],
           \A j \in On(n) : job'[j] = job[j] \/ (job[j].at \notin ChangeSteps /\ job'[j].at \notin ChangeSteps),
           Pending(n) => Pending(n)'
    PROVE  Pending(n)' \/ Current(n)'
<1>1. Pending(n) \/ Current(n)
  BY DEF Settled
<1>2. CASE Pending(n)
  BY <1>2
<1>3. CASE Current(n)
  <2>1. On(n)' = On(n) /\ \A j \in On(n) : Of(j)' = Of(j) /\ load'.jobs[j].op = load.jobs[j].op
    BY DEF On, Jobs, Of
  <2>2. Midway(n)' = Midway(n)
    <3>1. {j \in On(n)' : job'[j].at \in ChangeSteps} = {j \in On(n) : job[j].at \in ChangeSteps}
      BY <2>1
    <3>2. {i \in {0} : sub'[n].at # "idle"} = {i \in {0} : sub[n].at # "idle"} OBVIOUS
    <3> QED BY <3>1, <3>2, MidwayOf
  <2>3. \A j \in On(n) : Follows(n, j)'
    <3> SUFFICES ASSUME NEW j \in On(n) PROVE Follows(n, j)'
      OBVIOUS
    <3>1. CASE job'[j] = job[j]
      <4>1. Follows(n, j) BY <1>3 DEF Current
      <4> QED BY <2>1, <3>1, <4>1 DEF Follows
    <3>2. CASE job'[j].at \notin ChangeSteps BY <3>2 DEF Follows, ChangeSteps
    <3> QED BY <3>1, <3>2
  <2> QED BY <1>3, <2>1, <2>2, <2>3 DEF Current
<1> QED BY <1>1, <1>2, <1>3

\* Boxes and requests of other nodes that stay keep a notification pending.
LEMMA StillPending ==
    ASSUME NEW n \in Nodes, load' = load, box \in [Nodes -> Nat], box'[n] >= box[n], box'[n] \in Nat,
           \A j \in Jobs \ On(n) : job'[j].at = job[j].at \/ job[j].at \notin Untold
    PROVE  Pending(n) => Pending(n)'
<1>1. Jobs' = Jobs /\ On(n)' = On(n)
  BY DEF On, Jobs
<1>2. CASE box[n] > 0
  <2>1. box'[n] > 0 BY <1>2
  <2> QED BY <2>1 DEF Pending
<1>3. CASE \E j \in Jobs \ On(n) : job[j].at \in Untold
  <2>1. PICK j \in Jobs \ On(n) : job[j].at \in Untold BY <1>3
  <2>2. job'[j].at \in Untold BY <2>1
  <2> QED BY <1>1, <2>1, <2>2 DEF Pending
<1> QED BY <1>2, <1>3 DEF Pending

\* A node the history does not count was not counted before.
LEMMA Before ==
    ASSUME Watch, NEW n \in Nodes, n \notin tangled', stage'[n] # "off"
    PROVE  n \notin tangled
BY DEF Watch

\* The start of a node.
LEMMA StartSettled ==
    ASSUME Shapes, Booted, Settled, Watch, NEW m \in Nodes, Started(m)
    PROVE  Settled'
<1> SUFFICES ASSUME NEW n \in Nodes, n \notin tangled', n \notin missed', Loaded(n)'
             PROVE  Pending(n)' \/ Current(n)'
  BY DEF Settled
<1>1. load' = load /\ Jobs' = Jobs /\ On(n)' = On(n)
  BY DEF Watch, Jobs, On
<1>2. /\ job' = job /\ sub' = sub /\ box' = box
      /\ \A k \in Nodes \ {m} : stage'[k] = stage[k]
  BY DEF Started, bootstrap_insecure_cookies, ensure_defaults, prepare_runtime_config, ensure_signature_key,
         SaveGeneratedKey, sync_public_key_config, Booting, reload, Shapes
<1>3. n \notin tangled
  BY Before DEF Loaded
<1>4. CASE prepare_runtime_config(m) /\ m = n
  <2>1. snap'[n] = db' /\ audit'[n] = AuditSettings(db') /\ stage[n] = "load"
    BY <1>4 DEF prepare_runtime_config, Shapes, Booting
  <2>2. sub[n].at = "idle" /\ \A j \in On(n) : job[j].at \in Ended BY <2>1 DEF Booted
  <2>3. \A j \in On(n) : Follows(n, j)' BY <1>2, <2>2 DEF Follows, Ended
  <2> QED BY <1>1, <1>2, <2>1, <2>2, <2>3 DEF Current
<1>5. CASE ~(prepare_runtime_config(m) /\ m = n)
  <2>1. /\ Loaded(n) /\ n \notin missed
        /\ snap'[n] = snap[n] /\ audit'[n] = audit[n] /\ db' = db
    <3>1. CASE bootstrap_insecure_cookies(m)
      <4>1. m # n /\ Loaded(n)
        BY <3>1 DEF bootstrap_insecure_cookies, Booting, Shapes, Loaded
      <4> QED BY <3>1, <4>1 DEF bootstrap_insecure_cookies, Silently, Unheard, Loaded, local
    <3>2. CASE ensure_defaults(m)
      <4>1. m # n /\ Loaded(n) BY <3>2 DEF ensure_defaults, Booting, Shapes, Loaded
      <4> QED BY <3>2, <4>1 DEF ensure_defaults, Silently, Unheard, Loaded, local
    <3>3. CASE prepare_runtime_config(m)
      BY <1>2, <1>5, <3>3 DEF prepare_runtime_config, Shapes, Loaded
    <3>4. CASE ensure_signature_key(m)
      BY <1>2, <3>4 DEF ensure_signature_key, Booting, Loaded, local
    <3>5. CASE SaveGeneratedKey(m)
      <4>1. Loaded(n) BY <1>2, <3>5 DEF SaveGeneratedKey, Booting, Loaded
      <4> QED BY <3>5, <4>1 DEF SaveGeneratedKey, Silently, Unheard, Loaded, local
    <3>6. CASE sync_public_key_config(m)
      <4>1. Loaded(n) BY <1>2, <3>6 DEF sync_public_key_config, Booting, Loaded
      <4> QED BY <3>6, <4>1 DEF sync_public_key_config, Silently, Unheard, Loaded, local
    <3> QED BY <3>1, <3>2, <3>3, <3>4, <3>5, <3>6 DEF Started
  <2>2. Pending(n) => Pending(n)' BY <1>1, <1>2 DEF Pending
  <2> QED BY <1>1, <1>2, <1>3, <2>1, <2>2, Unmoved
<1> QED BY <1>4, <1>5

\* The subscription of a node, its restart and a lost notification.
LEMMA NodeSettled ==
    ASSUME Shapes, Shapes', Booted, Apart, Apart', Settled, Watch,
           NEW m \in Nodes, Reload(m) \/ Restart(m) \/ LoseNotification(m)
    PROVE  Settled'
<1> SUFFICES ASSUME NEW n \in Nodes, n \notin tangled', n \notin missed', Loaded(n)'
             PROVE  Pending(n)' \/ Current(n)'
  BY DEF Settled
<1>1. load' = load /\ Jobs' = Jobs /\ On(n)' = On(n)
  BY DEF Watch, Jobs, On
<1>2. n \notin tangled
  BY Before DEF Loaded
<1>3. n \notin missed /\ db' = db
  BY DEF Reload, Receive, ReplaceSnapshot, ReplaceSettings, Restart, LoseNotification
<1>4. CASE Restart(m)
  <2>1. m # n /\ Loaded(n) BY <1>4 DEF Restart, Shapes, Loaded
  <2>2. \A j \in Jobs : job'[j] = IF j \in On(m) /\ job[j].at # "new" THEN [job[j] EXCEPT !.at = "done"] ELSE job[j]
    BY <1>4 DEF Restart
  <2>3. \A j \in On(m) : job[j].at \notin Untold
    BY <1>3, <1>4, <2>1 DEF Restart, Unheard, Loaded, Untold, Steps, Shapes
  <2>4. On(n) \cap On(m) = {} /\ On(n) \subseteq Jobs BY <2>1 DEF On
  <2>5. box'[n] = box[n] /\ snap'[n] = snap[n] /\ audit'[n] = audit[n] /\ sub'[n] = sub[n]
    BY <1>4, <2>1 DEF Restart, Shapes
  <2>6. Pending(n) => Pending(n)'
    <3>1. \A j \in Jobs \ On(n) : job'[j].at = job[j].at \/ job[j].at \notin Untold
      BY <2>2, <2>3
    <3> QED BY <1>1, <2>5, <3>1, StillPending DEF Shapes
  <2> QED BY <1>1, <1>2, <1>3, <2>1, <2>2, <2>4, <2>5, <2>6, Unmoved
<1>5. CASE (Reload(m) \/ LoseNotification(m)) /\ m # n
  <2>1. /\ box'[n] = box[n] /\ snap'[n] = snap[n] /\ audit'[n] = audit[n] /\ sub'[n] = sub[n]
        /\ job' = job /\ stage' = stage
    BY <1>5 DEF Reload, Receive, ReplaceSnapshot, ReplaceSettings, LoseNotification, Shapes, local, starting
  <2>2. Pending(n) => Pending(n)' BY <1>1, <2>1 DEF Pending
  <2>3. Loaded(n) BY <2>1 DEF Loaded
  <2> QED BY <1>1, <1>2, <1>3, <2>1, <2>2, <2>3, Unmoved
<1>6. CASE LoseNotification(n)
  BY <1>6 DEF LoseNotification
<1>7. CASE Reload(n)
  <2>1. job' = job /\ stage' = stage /\ Loaded(n)
    BY <1>7 DEF Reload, Receive, ReplaceSnapshot, ReplaceSettings, starting, Loaded
  <2>2. Pending(n) \/ Current(n) BY <1>2, <1>3, <2>1 DEF Settled
  <2>3. 0 \notin Jobs /\ On(n) \subseteq Jobs BY JobFacts DEF Shapes, On
  <2>4. sub[n].at # "idle" \/ sub'[n].at # "idle" => \A j \in On(n) : job[j].at \notin ChangeSteps
    <3>1. CASE sub[n].at # "idle" BY <1>2, <2>3, <3>1, MidwayOf DEF Apart
    <3>2. CASE sub'[n].at # "idle" BY <1>1, <2>1, <2>3, <3>2, MidwayOf DEF Apart
    <3> QED BY <3>1, <3>2
  <2>5. CASE Receive(n)
    <3>1. sub'[n].at = "replace" /\ sub'[n].rows = db' BY <2>5 DEF Receive, Shapes
    <3>2. 0 \in Midway(n)' BY <3>1, MidwayOf
    <3>3. \A j \in On(n) : Follows(n, j)' BY <2>1, <2>4, <3>1 DEF Follows, ChangeSteps
    <3> QED BY <1>1, <3>1, <3>2, <3>3 DEF Current
  <2>6. CASE ReplaceSnapshot(n)
    <3>1. sub[n].at = "replace" /\ sub'[n].at = "settings" /\ sub'[n].rows = sub[n].rows /\ snap'[n] = sub[n].rows
      BY <2>6 DEF ReplaceSnapshot, Shapes
    <3>2. 0 \in Midway(n)' BY <3>1, MidwayOf
    <3>3. \A j \in On(n) : Follows(n, j)' BY <2>1, <2>4, <3>1 DEF Follows, ChangeSteps
    <3>4. CASE Pending(n) BY <1>1, <2>1, <2>6, <3>4 DEF Pending, ReplaceSnapshot
    <3>5. CASE Current(n) BY <1>1, <1>3, <3>1, <3>2, <3>3, <3>5 DEF Current
    <3> QED BY <2>2, <3>4, <3>5
  <2>7. CASE ReplaceSettings(n)
    <3>1. sub[n].at = "settings" /\ sub'[n].at = "idle" /\ audit'[n] = AuditSettings(sub[n].rows) /\ snap'[n] = snap[n]
      BY <2>7 DEF ReplaceSettings, Shapes
    <3>2. \A j \in On(n) : Follows(n, j)' BY <2>1, <2>4, <3>1 DEF Follows, ChangeSteps
    <3>3. CASE Pending(n) BY <1>1, <2>1, <2>7, <3>3 DEF Pending, ReplaceSettings
    <3>4. CASE Current(n) BY <1>1, <1>3, <3>1, <3>2, <3>4 DEF Current
    <3> QED BY <2>2, <3>3, <3>4
  <2> QED BY <1>7, <2>5, <2>6, <2>7 DEF Reload
<1> QED BY <1>4, <1>5, <1>6, <1>7

\* A request of another node: the node hears of it, or is told later.
LEMMA OthersSettled ==
    ASSUME Shapes, Booted, Fits, Settled, Watch, NEW j \in Jobs, Request(j) \/ PublishFails(j),
           NEW n \in Nodes, n # Here(j), n \notin tangled', n \notin missed', Loaded(n)'
    PROVE  Pending(n)' \/ Current(n)'
<1>1. /\ Jobs' = Jobs /\ load' = load /\ On(n)' = On(n) /\ j \notin On(n) /\ On(n) \subseteq Jobs
      /\ \A i \in Jobs \ {j} : job'[i] = job[i]
      /\ stage' = stage /\ sub' = sub /\ Loaded(n) /\ n \notin missed
      /\ snap'[n] = snap[n] /\ audit'[n] = audit[n] /\ box'[n] >= box[n] /\ Shapes'
  BY RequestFrame DEF On, Here, Loaded, Jobs
<1>2. n \notin tangled
  BY Before DEF Loaded
<1>3. CASE job'[j].at \in Untold
  BY <1>1, <1>3 DEF Pending
<1>4. CASE Publish(j)
  <2>1. CASE stage[n] = "up"
    <3>1. box'[n] = box[n] + 1 BY <1>4, <2>1 DEF Publish
    <3>2. box'[n] > 0 BY <3>1 DEF Shapes
    <3> QED BY <3>2 DEF Pending
  <2>2. CASE stage[n] # "up" BY <1>1, <1>4, <2>2 DEF Publish, Unheard, Loaded
  <2> QED BY <2>1, <2>2
<1>5. CASE PublishFails(j)
  BY <1>1, <1>5 DEF PublishFails, Unheard, Loaded
<1>6. CASE job'[j].at \notin Untold /\ ~Publish(j) /\ ~PublishFails(j)
  <2>1. job[j].at \notin Untold /\ db' = db
    <3> USE DEF Shapes, IsTable, Untold
    <3>1. CASE save_config(j) BY <3>1 DEF save_config, set_config, At
    <3>2. CASE delete_with_audit(j) BY <3>2 DEF delete_with_audit, delete_config, At
    <3>3. CASE execute_action(j) BY <3>3 DEF execute_action, execute_config_action, At
    <3>4. CASE DeleteRow(j)
      <4>1. CASE Of(j) \in DOMAIN db \ SystemKeys
        <5>1. job' = [job EXCEPT ![j].at = "remove"] BY <3>4, <4>1 DEF DeleteRow, To
        <5> QED BY <1>6, <5>1
      <4>2. CASE Of(j) \notin DOMAIN db \ SystemKeys BY <3>4, <4>2 DEF DeleteRow, At
      <4> QED BY <4>1, <4>2
    <3>5. CASE execute_yggdrasil_action(j) BY <1>6, <3>5 DEF execute_yggdrasil_action
    <3>6. CASE Upsert(j) \/ WriteSettings(j) \/ RemoveDeleted(j) \/ RotatePublic(j) \/ ApplyPrivate(j) \/ ApplyPublic(j)
      <4>1. PICK s \in {"apply", "publish", "apply public"} : To(j, s)
        BY <3>6 DEF Upsert, WriteSettings, RemoveDeleted, RotatePublic, ApplyPrivate, ApplyPublic
      <4>2. job'[j].at = s BY <4>1 DEF To
      <4> QED BY <1>6, <4>2
    <3>7. CASE ApplySaved(j) BY <1>6, <3>7 DEF ApplySaved, To
    <3>8. CASE build_audit_log_settings(j) BY <1>6, <3>8 DEF build_audit_log_settings
    <3> QED BY <1>6, <3>1, <3>2, <3>3, <3>4, <3>5, <3>6, <3>7, <3>8 DEF Request
  <2>2. Pending(n) => Pending(n)'
    <3>1. \A i \in Jobs \ On(n) : job'[i].at = job[i].at \/ job[i].at \notin Untold
      BY <1>1, <2>1
    <3> QED BY <1>1, <3>1, StillPending DEF Shapes
  <2> QED BY <1>1, <1>2, <2>1, <2>2, Unmoved
<1> QED BY <1>3, <1>4, <1>5, <1>6

\* A request of the node itself: its steps lead from one way of following the rows to the next.
LEMMA OwnSettled ==
    ASSUME Shapes, Booted, Fits, Apart, Apart', Settled, Watch, NEW j \in Jobs, Request(j) \/ PublishFails(j),
           NEW n \in Nodes, n = Here(j), n \notin tangled', n \notin missed', Loaded(n)'
    PROVE  Pending(n)' \/ Current(n)'
<1>1. /\ Jobs' = Jobs /\ load' = load /\ On(n)' = On(n) /\ j \in On(n) /\ On(n) \subseteq Jobs /\ 0 \notin Jobs
      /\ \A i \in Jobs \ {j} : job'[i] = job[i]
      /\ stage' = stage /\ sub' = sub /\ Loaded(n) /\ n \notin missed
      /\ box'[n] >= box[n] /\ Shapes'
  BY RequestFrame, JobFacts DEF On, Here, Loaded, Jobs, Shapes
<1>2. n \notin tangled
  BY Before DEF Loaded
<1>3. Pending(n) => Pending(n)'
  <2>1. \A i \in Jobs \ On(n) : job'[i].at = job[i].at \/ job[i].at \notin Untold BY <1>1
  <2> QED BY <1>1, <2>1, StillPending DEF Shapes
<1>4. CASE job[j].at \notin ChangeSteps /\ job'[j].at \notin ChangeSteps
  <2>1. db' = db /\ snap' = snap /\ audit' = audit
    <3> USE DEF Shapes, IsTable, ChangeSteps
    <3>1. CASE save_config(j) BY <3>1 DEF save_config, local
    <3>2. CASE delete_with_audit(j) BY <3>2 DEF delete_with_audit, local
    <3>3. CASE execute_action(j) BY <3>3 DEF execute_action, local
    <3>4. CASE DeleteRow(j)
      <4>1. CASE Of(j) \in DOMAIN db \ SystemKeys
        <5>1. job' = [job EXCEPT ![j].at = "remove"] BY <3>4, <4>1 DEF DeleteRow, To
        <5> QED BY <1>4, <5>1
      <4>2. CASE Of(j) \notin DOMAIN db \ SystemKeys BY <3>4, <4>2 DEF DeleteRow, local
      <4> QED BY <4>1, <4>2
    <3>5. CASE execute_yggdrasil_action(j) \/ Upsert(j)
      BY <1>4, <3>5 DEF execute_yggdrasil_action, Upsert, To
    <3>6. CASE \/ ApplySaved(j) \/ build_audit_log_settings(j) \/ WriteSettings(j) \/ RemoveDeleted(j)
               \/ RotatePublic(j) \/ ApplyPrivate(j) \/ ApplyPublic(j)
      BY <1>4, <3>6 DEF ApplySaved, build_audit_log_settings, WriteSettings, RemoveDeleted, RotatePublic,
                        ApplyPrivate, ApplyPublic, At
    <3>7. CASE Publish(j) \/ PublishFails(j) BY <3>7 DEF Publish, PublishFails, local
    <3> QED BY <3>1, <3>2, <3>3, <3>4, <3>5, <3>6, <3>7 DEF Request
  <2> QED BY <1>1, <1>2, <1>3, <1>4, <2>1, Unmoved
<1>5. CASE job[j].at \in ChangeSteps \/ job'[j].at \in ChangeSteps
  <2>1. /\ sub[n].at = "idle"
        /\ \A i \in On(n) \ {j} : job[i].at \notin ChangeSteps
    <3>1. CASE job[j].at \in ChangeSteps
      <4>1. j \in Midway(n) BY <1>1, <3>1, MidwayOf
      <4> QED BY <1>1, <1>2, <4>1, MidwayOf DEF Apart
    <3>2. CASE job'[j].at \in ChangeSteps
      <4>1. j \in Midway(n)' BY <1>1, <3>2, MidwayOf
      <4>2. sub'[n].at = "idle" /\ \A i \in On(n)' \ {j} : job'[i].at \notin ChangeSteps
        BY <1>1, <4>1, MidwayOf DEF Apart
      <4> QED BY <1>1, <4>2
    <3> QED BY <1>5, <3>1, <3>2
  <2>2. \A i \in On(n) \ {j} : Follows(n, i)' BY <1>1, <2>1 DEF Follows, ChangeSteps
  <2>3. SUFFICES ASSUME Current(n)
                 PROVE  /\ Follows(n, j)'
                        /\ job'[j].at \notin ChangeSteps => snap'[n] = db' /\ audit'[n] = AuditSettings(db')
    <3>1. Pending(n) \/ Current(n) BY <1>1, <1>2 DEF Settled
    <3>2. job'[j].at \in ChangeSteps => Midway(n)' # {} BY <1>1, MidwayOf
    <3> QED BY <1>1, <1>3, <2>1, <2>2, <2>3, <3>1, <3>2 DEF Current
  <2>4. Follows(n, j) BY <1>1, <2>3 DEF Current
  <2>5. job[j].at \notin ChangeSteps => snap[n] = db /\ audit[n] = AuditSettings(db)
    <3>1. job[j].at \notin ChangeSteps => Midway(n) = {} BY <1>1, <2>1, MidwayOf
    <3> QED BY <2>3, <3>1 DEF Current
  <2>6. Moves(j) BY RequestMoves
  <2>7. Of(j)' = Of(j) /\ load'.jobs[j].op = load.jobs[j].op BY <1>1 DEF Of
  <2>8. CASE Upsert(j)
    <3>1. /\ job[j].at = "upsert" /\ job'[j].at = "apply" /\ job'[j].value = job[j].value /\ load.jobs[j].op = "save"
          /\ db' = Put(db, Of(j), job[j].value) /\ snap' = snap /\ audit' = audit
      BY <2>8 DEF Upsert, At, To, local, Shapes, IsTable
    <3> QED BY <2>5, <2>7, <3>1 DEF Follows, ChangeSteps
  <2>9. CASE ApplySaved(j)
    <3>1. /\ job[j].at = "apply" /\ load.jobs[j].op = "save" /\ audit' = audit /\ db' = db
          /\ snap'[n] = Put(snap[n], Of(j), job[j].value)
      BY <2>9 DEF ApplySaved, At, Shapes
    <3>2. job'[j].at \in {"build", "publish"} BY <2>9 DEF ApplySaved, To, Shapes, IsTable
    <3>3. job'[j].at = "publish" =>
             \/ Of(j) \notin {"audit_log_enabled", "audit_log_recorded_actions"}
             \/ Of(j) \in DOMAIN snap[n] /\ snap[n][Of(j)] = job[j].value
      BY <2>9 DEF ApplySaved, To, Shapes, IsTable
    <3>4. job'[j].at = "publish" => AuditSettings(snap'[n]) = AuditSettings(snap[n])
      BY <3>1, <3>3, AuditPut
    <3> QED BY <2>4, <2>7, <3>1, <3>2, <3>4 DEF Follows, ChangeSteps
  <2>10. CASE build_audit_log_settings(j)
    <3>1. /\ job[j].at = "build" /\ job'[j].at = "write" /\ job'[j].set = AuditSettings(snap[n])
          /\ db' = db /\ snap' = snap /\ audit' = audit
      BY <2>10 DEF build_audit_log_settings, At, local, Shapes, IsTable
    <3> QED BY <2>4, <2>7, <3>1 DEF Follows, ChangeSteps
  <2>11. CASE WriteSettings(j)
    <3>1. /\ job[j].at = "write" /\ job'[j].at = "publish" /\ audit'[n] = job[j].set /\ db' = db /\ snap' = snap
      BY <2>11 DEF WriteSettings, At, To, Shapes, IsTable
    <3> QED BY <2>4, <2>7, <3>1 DEF Follows, ChangeSteps
  <2>12. CASE DeleteRow(j)
    <3>1. job[j].at = "delete" BY <2>12 DEF DeleteRow, At
    <3>2. CASE Of(j) \in DOMAIN db \ SystemKeys
      <4>1. /\ job'[j].at = "remove" /\ db' = [k \in DOMAIN db \ {Of(j)} |-> db[k]] /\ snap' = snap /\ audit' = audit
        BY <2>12, <3>2 DEF DeleteRow, To, local, Shapes, IsTable
      <4> QED BY <2>5, <2>7, <3>1, <4>1 DEF Follows, ChangeSteps
    <3>3. CASE Of(j) \notin DOMAIN db \ SystemKeys
      <4>1. job'[j].at = "refused" BY <2>12, <3>3 DEF DeleteRow, To, Shapes, IsTable
      <4> QED BY <1>5, <3>1, <4>1 DEF ChangeSteps
    <3> QED BY <3>2, <3>3
  <2>13. CASE RemoveDeleted(j)
    <3>1. /\ job[j].at = "remove" /\ job'[j].at = "publish" /\ db' = db /\ audit' = audit
          /\ snap'[n] = [k \in DOMAIN snap[n] \ {Of(j)} |-> snap[n][k]]
      BY <2>13 DEF RemoveDeleted, At, To, Shapes, IsTable
    <3>2. AuditSettings(snap'[n]) = AuditSettings(snap[n])
      <4>1. Of(j) \notin SystemKeys BY <3>1 DEF Fits
      <4> QED BY <3>1, <4>1, AuditWithout
    <3> QED BY <2>4, <2>7, <3>1, <3>2 DEF Follows, ChangeSteps
  <2>14. CASE execute_yggdrasil_action(j)
    <3>1. /\ job[j].at = "new" /\ job'[j].at = "public" /\ load.jobs[j].op = "rotate"
          /\ db' = Put(db, PrivateKey, job'[j].value) /\ snap' = snap /\ audit' = audit
      BY <2>14 DEF execute_yggdrasil_action, At, local, Shapes, IsTable
    <3> QED BY <2>5, <2>7, <3>1 DEF Follows, ChangeSteps
  <2>15. CASE RotatePublic(j)
    <3>1. /\ job[j].at = "public" /\ job'[j].at = "apply" /\ job'[j].value = job[j].value /\ load.jobs[j].op = "rotate"
          /\ db' = Put(db, PublicKey, Pub(job[j].value[2])) /\ snap' = snap /\ audit' = audit
      BY <2>15 DEF RotatePublic, At, To, local, Shapes, IsTable
    <3> QED BY <2>4, <2>7, <3>1 DEF Follows, ChangeSteps
  <2>16. CASE ApplyPrivate(j)
    <3>1. /\ job[j].at = "apply" /\ job'[j].at = "apply public" /\ job'[j].value = job[j].value /\ load.jobs[j].op = "rotate"
          /\ db' = db /\ snap'[n] = Put(snap[n], PrivateKey, job[j].value) /\ audit' = audit
      BY <2>16 DEF ApplyPrivate, At, To, Shapes, IsTable
    <3>2. AuditSettings(snap'[n]) = AuditSettings(snap[n])
      <4>1. PrivateKey \notin {"audit_log_enabled", "audit_log_recorded_actions"}
        BY DEF PrivateKey
      <4>2. AuditSettings(Put(snap[n], PrivateKey, job[j].value)) = AuditSettings(snap[n])
        BY <4>1, AuditPut
      <4> QED BY <3>1, <4>2
    <3> QED BY <2>4, <2>7, <3>1, <3>2 DEF Follows, ChangeSteps
  <2>17. CASE ApplyPublic(j)
    <3>1. /\ job[j].at = "apply public" /\ job'[j].at = "publish" /\ load.jobs[j].op = "rotate"
          /\ db' = db /\ snap'[n] = Put(snap[n], PublicKey, Pub(job[j].value[2])) /\ audit' = audit
      BY <2>17 DEF ApplyPublic, At, To, Shapes, IsTable
    <3>2. AuditSettings(snap'[n]) = AuditSettings(snap[n])
      <4>1. PublicKey \notin {"audit_log_enabled", "audit_log_recorded_actions"}
        BY DEF PublicKey
      <4>2. AuditSettings(Put(snap[n], PublicKey, Pub(job[j].value[2]))) = AuditSettings(snap[n])
        BY <4>1, AuditPut
      <4> QED BY <3>1, <4>2
    <3> QED BY <2>4, <2>7, <3>1, <3>2 DEF Follows, ChangeSteps
  <2>18. CASE \/ save_config(j) \/ delete_with_audit(j) \/ execute_action(j) \/ Publish(j) \/ PublishFails(j)
    <3>1. job[j].at \notin ChangeSteps
      BY <2>18 DEF save_config, set_config, delete_with_audit, delete_config, execute_action, execute_config_action,
                   Publish, PublishFails, At, ChangeSteps
    <3>2. job'[j].at \notin ChangeSteps
      <4>1. CASE save_config(j) BY <4>1 DEF save_config, ChangeSteps, Shapes, IsTable
      <4>2. CASE execute_action(j)
        BY <4>2 DEF execute_action, ChangeSteps, Shapes, IsTable
      <4>3. CASE delete_with_audit(j) \/ Publish(j) \/ PublishFails(j)
        <5>1. PICK s \in {"delete", "refused", "done", "failed"} : To(j, s)
          BY <4>3 DEF delete_with_audit, Publish, PublishFails
        <5>2. job'[j].at = s BY <5>1 DEF To, Shapes, IsTable
        <5> QED BY <5>2 DEF ChangeSteps
      <4> QED BY <2>18, <4>1, <4>2, <4>3
    <3> QED BY <1>5, <3>1, <3>2
  <2> QED BY <2>8, <2>9, <2>10, <2>11, <2>12, <2>13, <2>14, <2>15, <2>16, <2>17, <2>18 DEF Request
<1> QED BY <1>4, <1>5

\* Nodes start with the rows, or with none and unloaded.
LEMMA InitConverge == ConfigInit => ConvergeInv
<1> SUFFICES ASSUME ConfigInit PROVE ConvergeInv
  OBVIOUS
<1>1. Shapes /\ Booted /\ Fits
  BY InitShapes
<1>2. \A n \in Nodes : sub[n].at = "idle" /\ \A j \in On(n) : job[j].at = "new"
  BY DEF ConfigInit, On
<1>3. \A n \in Nodes : Midway(n) = {}
  BY <1>2, MidwayOf DEF ChangeSteps
<1>4. Apart
  BY <1>3 DEF Apart
<1>5. ASSUME NEW n \in Nodes, Loaded(n) PROVE Current(n)
  <2>1. snap[n] = db /\ audit[n] = AuditSettings(db) BY <1>5 DEF ConfigInit, Loaded
  <2>2. \A j \in On(n) : Follows(n, j) BY <1>2 DEF Follows
  <2> QED BY <1>2, <2>1, <2>2 DEF Current
<1> QED BY <1>1, <1>4, <1>5 DEF ConvergeInv, Settled

\* Every step keeps the nodes following the rows.
LEMMA NextConverge == ConvergeInv /\ [ConfigNext]_configVars => ConvergeInv'
<1> SUFFICES ASSUME ConvergeInv, [ConfigNext]_configVars PROVE ConvergeInv'
  OBVIOUS
<1> USE DEF ConvergeInv
<1>1. CASE UNCHANGED configVars
  <2>1. Shapes' /\ Booted' /\ Fits'
    BY <1>1 DEF configVars, Shapes, Booted, Fits, On, Of, Jobs
  <2>2. \A n \in Nodes : Midway(n)' = Midway(n) /\ Pending(n)' = Pending(n) /\ Current(n)' = Current(n)
    BY <1>1 DEF configVars, Midway, Pending, Current, Follows, On, Of, Jobs
  <2>3. Apart' /\ Settled' BY <1>1, <2>2 DEF configVars, Apart, Settled, Loaded
  <2> QED BY <2>1, <2>3
<1>2. CASE ConfigNext
  <2>1. Watch BY <1>2 DEF ConfigNext
  <2>2. CASE \E n \in Nodes : Started(n)
    <3>1. PICK n \in Nodes : Started(n) BY <2>2
    <3>2. Shapes' /\ Booted' /\ Fits' /\ Settled'
      BY <2>1, <3>1, StartShapes, StartBooted, StartSettled
    <3> QED BY <2>1, <3>2, WatchApart
  <2>3. CASE \E n \in Nodes : Reload(n) \/ Restart(n) \/ LoseNotification(n)
    <3>1. PICK n \in Nodes : Reload(n) \/ Restart(n) \/ LoseNotification(n) BY <2>3
    <3>2. Shapes' /\ Booted' /\ Fits' /\ Apart'
      BY <2>1, <3>1, NodeShapes, NodeBooted, WatchApart
    <3>3. Settled' BY <2>1, <3>1, <3>2, NodeSettled
    <3> QED BY <3>2, <3>3
  <2>4. CASE \E j \in Jobs : Request(j) \/ PublishFails(j)
    <3>1. PICK j \in Jobs : Request(j) \/ PublishFails(j) BY <2>4
    <3>2. Shapes' BY <2>1, <3>1, RequestFrame
    <3>3. Booted' /\ Fits' /\ Apart' BY <2>1, <3>1, <3>2, RequestBooted, WatchApart
    <3>4. ASSUME NEW n \in Nodes, n \notin tangled', n \notin missed', Loaded(n)'
          PROVE  Pending(n)' \/ Current(n)'
      BY <2>1, <3>1, <3>3, <3>4, OthersSettled, OwnSettled
    <3>5. Settled' BY <3>4 DEF Settled
    <3> QED BY <3>2, <3>3, <3>5
  <2> QED BY <1>2, <2>2, <2>3, <2>4 DEF ConfigNext, Step
<1> QED BY <1>1, <1>2

\* When all is quiet nothing is pending, and the nodes have what is stored.
LEMMA QuietConverge == ConvergeInv => NodesConverge
<1> SUFFICES ASSUME ConvergeInv, Quiet, NEW n \in Nodes \ (tangled \cup missed)
             PROVE  snap[n] = db /\ audit[n] = AuditSettings(db)
  BY DEF NodesConverge
<1>1. Loaded(n) /\ ~Pending(n)
  <2>1. Loaded(n) BY DEF Quiet, Loaded
  <2>2. \A j \in Jobs : job[j].at \notin Untold BY DEF Quiet, Untold
  <2>3. ~(box[n] > 0) BY DEF Quiet
  <2> QED BY <2>1, <2>2, <2>3 DEF Pending
<1>2. Current(n)
  BY <1>1 DEF ConvergeInv, Settled
<1>3. Midway(n) = {}
  <2>1. {j \in On(n) : job[j].at \in ChangeSteps} = {} BY DEF Quiet, ChangeSteps, On
  <2>2. {i \in {0} : sub[n].at # "idle"} = {} BY DEF Quiet
  <2> QED BY <2>1, <2>2, MidwayOf
<1> QED BY <1>2, <1>3 DEF Current

\* Once every notification is handled, a node that missed none and did one change at a time works
\* with what is stored, and its audit settings are those of its snapshot: the saves, deletions and
\* rotations of other nodes reach it, whatever the order they were applied and published in.
THEOREM NodesAgree == ConfigSpec => []NodesConverge
<1>1. ConfigInit => ConvergeInv
  BY InitConverge
<1>2. ConvergeInv /\ [ConfigNext]_configVars => ConvergeInv'
  BY NextConverge
<1>3. ConvergeInv => NodesConverge
  BY QuietConverge
<1> QED BY <1>1, <1>2, <1>3, PTL DEF ConfigSpec

----------------------------------------------------------------------------
(* Signature keys                                                          *)

\* The two keys are two, and they are system keys.
LEMMA KeyNames ==
    /\ PrivateKey # PublicKey /\ PrivateKey \notin DeprecatedKeys /\ PublicKey \notin DeprecatedKeys
    /\ PrivateKey \in SystemKeys /\ PublicKey \in SystemKeys
    /\ PrivateKey # "auth_cookie_secure" /\ PublicKey # "auth_cookie_secure"
BY ConfigAssumption DEF PrivateKey, PublicKey

\* A key is no padded text.
LEMMA KeyTrim == \A x : Trim(Pub(x)) = Pub(x) /\ Trim(Key(x)) = Key(x)
BY DEF Trim, Pub, Key

\* What is read of a row that is there.
LEMMA GetIn == ASSUME NEW c, NEW k \in DOMAIN c PROVE Get(c, k) = Trim(c[k])
BY DEF Get

\* Deployments that run start with matching halves.
LEMMA InitKeyed == ConfigInit => Keyed
<1> SUFFICES ASSUME ConfigInit PROVE Keyed
  OBVIOUS
<1>1. /\ \A n \in Nodes : stage[n] \in {"up", "off"} /\ (stage[n] = "up" => load.started)
      /\ \A j \in Jobs : job[j].at = "new"
  BY DEF ConfigInit
<1>2. KeyWriters = {}
  BY <1>1 DEF KeyWriters
<1>3. ASSUME load.aboutKeys, load.started PROVE Matching
  <2>1. /\ PrivateKey \in DOMAIN load.rows /\ PublicKey \in DOMAIN load.rows
        /\ load.rows[PublicKey] = Pub(Trim(load.rows[PrivateKey])[2])
    BY <1>3, ConfigAssumption DEF ConfigInit
  <2>2. /\ PrivateKey \in DOMAIN db /\ PublicKey \in DOMAIN db
        /\ db[PrivateKey] = load.rows[PrivateKey] /\ db[PublicKey] = load.rows[PublicKey]
    BY <1>3, <2>1 DEF ConfigInit, Over
  <2>3. Get(db, PrivateKey) = Trim(load.rows[PrivateKey]) /\ Get(db, PublicKey) = Trim(load.rows[PublicKey])
    BY <2>2, GetIn
  <2> QED BY <2>1, <2>3, KeyTrim DEF Matching
<1>4. (\A n \in Nodes : stage[n] = "up") => load.started
  BY <1>1, ConfigAssumption
<1> QED BY <1>1, <1>2, <1>3, <1>4 DEF Keyed

\* Two writers at once, or a direct one, are noted.
LEMMA WatchKeyed ==
    ASSUME Shapes', Watch, ~crossed'
    PROVE  /\ ~crossed /\ load' = load /\ Jobs' = Jobs
           /\ \A a, b \in KeyWriters' : a = b
           /\ \A j \in Jobs : load.jobs[j].op = "save" /\ Of(j) = PublicKey => job'[j].at = "new"
<1>1. ~crossed /\ load' = load /\ Jobs' = Jobs /\ ~(Cardinality(KeyWriters') > 1)
  BY DEF Watch, Jobs
<1>2. \A j \in Jobs : load.jobs[j].op = "save" /\ Of(j) = PublicKey => job'[j].at = "new"
  BY DEF Watch, Of
<1>3. IsFiniteSet(KeyWriters')
  <2>1. IsFiniteSet(Jobs') /\ IsFiniteSet(Nodes) BY ConfigAssumption DEF Shapes, Jobs
  <2> DEFINE A == {n \in Nodes : stage'[n] \in {"save key", "sync key"}}
             B == {j \in Jobs' : job'[j].at = "public"}
  <2>2. IsFiniteSet(A) /\ IsFiniteSet(B) BY <2>1, FS_Subset
  <2>3. KeyWriters' = A \cup B BY DEF KeyWriters
  <2> HIDE DEF A, B
  <2> QED BY <2>2, <2>3, FS_Union
<1>4. \A a, b \in KeyWriters' : a = b
  <2> DEFINE W == KeyWriters'
  <2>1. IsFiniteSet(W) /\ ~(Cardinality(W) > 1) BY <1>1, <1>3
  <2> HIDE DEF W
  <2>2. \A a, b \in W : a = b BY <2>1, AtMostOne
  <2> QED BY <2>2 DEF W
<1> QED BY <1>1, <1>2, <1>4

\* The rows of the keys stay what they were.
KeysKept ==
    /\ PrivateKey \in DOMAIN db' <=> PrivateKey \in DOMAIN db
    /\ Get(db', PrivateKey) = Get(db, PrivateKey) /\ Get(db', PublicKey) = Get(db, PublicKey)

\* A private key that is stored is found by every later step of a start, and kept.
LEMMA StartKeyed ==
    ASSUME Shapes, Shapes', Keyed, Watch, NEW n \in Nodes, Started(n)
    PROVE  Keyed'
<1> SUFFICES ASSUME ~crossed' PROVE Keyed'
  BY DEF Keyed
<1>1. /\ ~crossed /\ load' = load /\ Jobs' = Jobs
      /\ \A a, b \in KeyWriters' : a = b
      /\ \A j \in Jobs : load.jobs[j].op = "save" /\ Of(j) = PublicKey => job'[j].at = "new"
  BY WatchKeyed
<1>2. /\ job' = job
      /\ \A m \in Nodes \ {n} : stage'[m] = stage[m] /\ found'[m] = found[m]
  BY DEF Started, bootstrap_insecure_cookies, ensure_defaults, prepare_runtime_config, ensure_signature_key,
         SaveGeneratedKey, sync_public_key_config, Booting, reload, Shapes
<1>3. PrivateKey \in DOMAIN db => PrivateKey \in DOMAIN db' /\ (~SaveGeneratedKey(n) => Get(db', PrivateKey) = Get(db, PrivateKey))
  <2>1. CASE bootstrap_insecure_cookies(n)
    <3>1. db' = db \/ db' = Put(db, "auth_cookie_secure", Bool(FALSE))
      BY <2>1 DEF bootstrap_insecure_cookies
    <3>2. DOMAIN Put(db, "auth_cookie_secure", Bool(FALSE)) = DOMAIN db \cup {"auth_cookie_secure"}
      BY PutIn
    <3>3. Get(Put(db, "auth_cookie_secure", Bool(FALSE)), PrivateKey) = Get(db, PrivateKey)
      <4> DEFINE v == Bool(FALSE)
      <4> HIDE DEF v
      <4>1. Get(Put(db, "auth_cookie_secure", v), PrivateKey) = Get(db, PrivateKey)
        BY PutGet, KeyNames
      <4> QED BY <4>1 DEF v
    <3> QED BY <3>1, <3>2, <3>3
  <2>2. CASE ensure_defaults(n)
    <3> DEFINE kept == [k \in DOMAIN db \ DeprecatedKeys |-> db[k]]
    <3>1. db' = Over(kept, Relevant) BY <2>2 DEF ensure_defaults
    <3>2. PrivateKey \in DOMAIN db => PrivateKey \in DOMAIN db' /\ db'[PrivateKey] = db[PrivateKey]
      BY <3>1, KeyNames DEF Over
    <3> QED BY <3>2, GetIn
  <2>3. CASE prepare_runtime_config(n) \/ ensure_signature_key(n)
    BY <2>3 DEF prepare_runtime_config, ensure_signature_key
  <2>4. CASE SaveGeneratedKey(n) BY <2>4 DEF SaveGeneratedKey, Put
  <2>5. CASE sync_public_key_config(n)
    <3>1. db' = db \/ db' = Put(db, PublicKey, Pub(found[n][2]))
      BY <2>5 DEF sync_public_key_config
    <3>2. DOMAIN Put(db, PublicKey, Pub(found[n][2])) = DOMAIN db \cup {PublicKey}
      BY DEF Put
    <3> QED BY <3>1, <3>2, PutGet, KeyNames
  <2> QED BY <2>1, <2>2, <2>3, <2>4, <2>5 DEF Started
<1>4. SaveGeneratedKey(n) => n \in KeyWriters
  BY DEF SaveGeneratedKey, Booting, KeyWriters
<1>5. ASSUME NEW m \in Nodes, stage'[m] = "save key" PROVE Trim(found'[m]) = found'[m]
  <2>1. CASE m # n BY <1>1, <1>2, <1>5, <2>1 DEF Keyed
  <2>2. CASE m = n
    <3>1. ensure_signature_key(n) /\ found'[n] = Key(fresh')
      BY <1>5, <2>2 DEF Started, bootstrap_insecure_cookies, ensure_defaults, prepare_runtime_config, ensure_signature_key,
         SaveGeneratedKey, sync_public_key_config, Booting, Shapes
    <3> QED BY <2>2, <3>1, KeyTrim
  <2> QED BY <2>1, <2>2
<1>6. ASSUME NEW m \in Nodes, stage'[m] = "sync key" PROVE PrivateKey \in DOMAIN db' /\ Get(db', PrivateKey) = found'[m]
  <2>1. CASE m # n
    <3>1. stage[m] = "sync key" /\ m \in KeyWriters BY <1>2, <1>6, <2>1 DEF KeyWriters
    <3>2. ~SaveGeneratedKey(n) BY <1>1, <1>4, <2>1, <3>1 DEF Keyed
    <3> QED BY <1>1, <1>2, <1>3, <2>1, <3>1, <3>2 DEF Keyed
  <2>2. CASE m = n /\ SaveGeneratedKey(n)
    <3>1. db' = Put(db, PrivateKey, found[n]) /\ found' = found /\ stage[n] = "save key"
      BY <2>2 DEF SaveGeneratedKey, Booting
    <3>2. Get(Put(db, PrivateKey, found[n]), PrivateKey) = Trim(found[n]) BY PutGet
    <3>3. DOMAIN Put(db, PrivateKey, found[n]) = DOMAIN db \cup {PrivateKey} BY PutIn
    <3> QED BY <1>1, <2>2, <3>1, <3>2, <3>3 DEF Keyed
  <2>3. CASE m = n /\ ~SaveGeneratedKey(n)
    <3>1. /\ ensure_signature_key(n) /\ Get(db, PrivateKey) \notin {Missing, Blank}
          /\ found'[n] = Get(db, PrivateKey) /\ db' = db
      BY <1>6, <2>3 DEF Started, bootstrap_insecure_cookies, ensure_defaults, prepare_runtime_config, ensure_signature_key,
         sync_public_key_config, Booting, Shapes
    <3> QED BY <2>3, <3>1 DEF Get
  <2> QED BY <2>1, <2>2, <2>3
<1>7. ASSUME NEW j \in Jobs, job'[j].at = "public" PROVE PrivateKey \in DOMAIN db' /\ Get(db', PrivateKey) = job'[j].value
  <2>1. j \in KeyWriters /\ j # n BY <1>2, <1>7, JobFacts DEF KeyWriters, Shapes
  <2>2. ~SaveGeneratedKey(n) BY <1>1, <1>4, <2>1 DEF Keyed
  <2> QED BY <1>1, <1>2, <1>3, <1>7, <2>2 DEF Keyed
<1>8. ASSUME \A m \in Nodes : stage'[m] = "up" PROVE Matching'
  <2>1. sync_public_key_config(n)
    BY <1>8 DEF Started, bootstrap_insecure_cookies, ensure_defaults, prepare_runtime_config, ensure_signature_key,
         SaveGeneratedKey, Booting, Shapes
  <2>2. stage[n] = "sync key" /\ db' = IF Get(db, PublicKey) = Pub(found[n][2]) THEN db ELSE Put(db, PublicKey, Pub(found[n][2]))
    BY <2>1 DEF sync_public_key_config, Booting
  <2>3. Get(db, PrivateKey) = found[n] BY <1>1, <2>2 DEF Keyed
  <2>4. Get(db', PublicKey) = Pub(found[n][2]) /\ Get(db', PrivateKey) = Get(db, PrivateKey)
    <3>1. /\ Get(Put(db, PublicKey, Pub(found[n][2])), PublicKey) = Trim(Pub(found[n][2]))
          /\ Get(Put(db, PublicKey, Pub(found[n][2])), PrivateKey) = Get(db, PrivateKey)
      BY PutGet, KeyNames
    <3>2. Trim(Pub(found[n][2])) = Pub(found[n][2]) BY KeyTrim
    <3> QED BY <2>2, <3>1, <3>2
  <2> QED BY <2>3, <2>4 DEF Matching
<1> QED BY <1>1, <1>5, <1>6, <1>7, <1>8 DEF Keyed, Of

\* The subscription of a node and its restart leave the rows alone.
LEMMA NodeKeyed ==
    ASSUME Shapes, Shapes', Keyed, Watch, NEW n \in Nodes, Reload(n) \/ Restart(n) \/ LoseNotification(n)
    PROVE  Keyed'
<1> SUFFICES ASSUME ~crossed' PROVE Keyed'
  BY DEF Keyed
<1>1. /\ ~crossed /\ load' = load /\ Jobs' = Jobs
      /\ \A a, b \in KeyWriters' : a = b
      /\ \A j \in Jobs : load.jobs[j].op = "save" /\ Of(j) = PublicKey => job'[j].at = "new"
  BY WatchKeyed
<1>2. db' = db /\ found' = found
  BY DEF Reload, Receive, ReplaceSnapshot, ReplaceSettings, Restart, LoseNotification, starting
<1>3. CASE Reload(n) \/ LoseNotification(n)
  <2>1. stage' = stage /\ job' = job
    BY <1>3 DEF Reload, Receive, ReplaceSnapshot, ReplaceSettings, LoseNotification, starting
  <2> QED BY <1>1, <1>2, <2>1 DEF Keyed, Matching, Of
<1>4. CASE Restart(n)
  <2>1. /\ stage'[n] = "off" /\ \A m \in Nodes \ {n} : stage'[m] = stage[m]
        /\ \A j \in Jobs : job'[j] = IF j \in On(n) /\ job[j].at # "new" THEN [job[j] EXCEPT !.at = "done"] ELSE job[j]
    BY <1>4 DEF Restart, Shapes
  <2>2. \A j \in Jobs : job'[j].at = "public" => job'[j] = job[j]
    BY <2>1 DEF Shapes, IsTable
  <2> QED BY <1>1, <1>2, <2>1, <2>2 DEF Keyed, Of
<1> QED BY <1>3, <1>4

\* A request changes the keys only by a rotation, one half after the other.
LEMMA RequestKeyed ==
    ASSUME Shapes, Shapes', Fits, Keyed, Watch, NEW j \in Jobs, Request(j) \/ PublishFails(j)
    PROVE  Keyed'
<1> SUFFICES ASSUME ~crossed' PROVE Keyed'
  BY DEF Keyed
<1>1. /\ ~crossed /\ load' = load /\ Jobs' = Jobs
      /\ \A a, b \in KeyWriters' : a = b
      /\ \A i \in Jobs : load.jobs[i].op = "save" /\ Of(i) = PublicKey => job'[i].at = "new"
  BY WatchKeyed
<1>2. /\ stage' = stage /\ found' = found
      /\ \A i \in Jobs \ {j} : job'[i] = job[i]
  BY RequestFrame
<1>3. CASE execute_yggdrasil_action(j)
  <2>1. /\ job[j].at = "new" /\ job'[j].at = "public" /\ job'[j].value = Key(fresh')
        /\ db' = Put(db, PrivateKey, Key(fresh'))
    BY <1>3 DEF execute_yggdrasil_action, At, Shapes, IsTable
  <2>2. PrivateKey \in DOMAIN db' /\ Get(db', PrivateKey) = job'[j].value
    BY <2>1, PutGet, KeyTrim DEF Put
  <2>3. j \in KeyWriters' BY <1>1, <2>1 DEF KeyWriters
  <2>4. \A m \in Nodes : stage'[m] # "sync key"
    <3> SUFFICES ASSUME NEW m \in Nodes, stage'[m] = "sync key" PROVE FALSE
      OBVIOUS
    <3>1. m \in KeyWriters' /\ m # j BY JobFacts DEF KeyWriters, Shapes
    <3> QED BY <1>1, <2>3, <3>1
  <2>5. \A i \in Jobs : job'[i].at = "public" => i = j BY <1>1, <2>3 DEF KeyWriters
  <2>6. \A n \in Nodes : stage'[n] = "save key" => Trim(found'[n]) = found'[n]
    BY <1>1, <1>2 DEF Keyed
  <2> QED BY <1>1, <2>1, <2>2, <2>4, <2>5, <2>6 DEF Keyed, Of
<1>4. CASE RotatePublic(j)
  <2>1. /\ job[j].at = "public" /\ job'[j].at = "apply" /\ db' = Put(db, PublicKey, Pub(job[j].value[2]))
    BY <1>4 DEF RotatePublic, At, To, Shapes, IsTable
  <2>2. /\ Get(db', PublicKey) = Pub(job[j].value[2]) /\ Get(db', PrivateKey) = Get(db, PrivateKey)
        /\ PrivateKey \in DOMAIN db => PrivateKey \in DOMAIN db'
    <3>1. /\ Get(Put(db, PublicKey, Pub(job[j].value[2])), PublicKey) = Trim(Pub(job[j].value[2]))
          /\ Get(Put(db, PublicKey, Pub(job[j].value[2])), PrivateKey) = Get(db, PrivateKey)
      BY PutGet, KeyNames
    <3>2. Trim(Pub(job[j].value[2])) = Pub(job[j].value[2]) BY KeyTrim
    <3>3. DOMAIN Put(db, PublicKey, Pub(job[j].value[2])) = DOMAIN db \cup {PublicKey}
      BY PutIn
    <3> QED BY <2>1, <3>1, <3>2, <3>3
  <2>3. Get(db, PrivateKey) = job[j].value BY <1>1, <2>1 DEF Keyed
  <2>4. Matching' BY <2>2, <2>3 DEF Matching
  <2>5. \A i \in Jobs : job'[i].at = "public" => job'[i] = job[i] BY <1>2, <2>1
  <2> QED BY <1>1, <1>2, <2>2, <2>4, <2>5 DEF Keyed, Of
<1>5. CASE ~execute_yggdrasil_action(j) /\ ~RotatePublic(j)
  <2>1. KeysKept
    <3>1. CASE Upsert(j)
      <4>1. job[j].at = "upsert" /\ load.jobs[j].op = "save" /\ db' = Put(db, Of(j), job[j].value)
        BY <3>1 DEF Upsert, At
      <4>2. Of(j) # PrivateKey /\ Of(j) # PublicKey BY <1>1, <4>1 DEF Fits, Keyed
      <4>3. DOMAIN db' = DOMAIN db \cup {Of(j)} BY <4>1 DEF Put
      <4> QED BY <4>1, <4>2, <4>3, PutGet DEF KeysKept
    <3>2. CASE DeleteRow(j)
      <4>1. CASE Of(j) \in DOMAIN db \ SystemKeys
        <5>1. db' = [k \in DOMAIN db \ {Of(j)} |-> db[k]] BY <3>2, <4>1 DEF DeleteRow
        <5>2. Of(j) # PrivateKey /\ Of(j) # PublicKey BY <4>1, KeyNames
        <5> QED BY <5>1, <5>2, WithoutGet DEF KeysKept
      <4>2. CASE Of(j) \notin DOMAIN db \ SystemKeys BY <3>2, <4>2 DEF DeleteRow, KeysKept
      <4> QED BY <4>1, <4>2
    <3>3. CASE ~Upsert(j) /\ ~DeleteRow(j)
      <4>1. db' = db
        BY <1>5, <3>3 DEF Request, save_config, ApplySaved, build_audit_log_settings, WriteSettings, delete_with_audit,
             RemoveDeleted, execute_action, ApplyPrivate, ApplyPublic, Publish, PublishFails
      <4> QED BY <4>1 DEF KeysKept
    <3> QED BY <3>1, <3>2, <3>3
  <2>2. job[j].at # "public" /\ job'[j].at # "public"
    <3>1. \/ save_config(j) \/ Upsert(j) \/ ApplySaved(j) \/ build_audit_log_settings(j) \/ WriteSettings(j)
          \/ delete_with_audit(j) \/ DeleteRow(j) \/ RemoveDeleted(j) \/ execute_action(j)
          \/ ApplyPrivate(j) \/ ApplyPublic(j) \/ Publish(j) \/ PublishFails(j)
      BY <1>5 DEF Request
    <3>2. job[j].at # "public"
      BY <3>1 DEF save_config, set_config, Upsert, ApplySaved, build_audit_log_settings, WriteSettings,
         delete_with_audit, delete_config, DeleteRow, RemoveDeleted, execute_action, execute_config_action,
         ApplyPrivate, ApplyPublic, Publish, PublishFails, At
    <3>3. load.jobs[j].op = "rotate" => job[j].at # "new"
      BY <3>1 DEF save_config, set_config, Upsert, ApplySaved, build_audit_log_settings, WriteSettings,
         delete_with_audit, delete_config, DeleteRow, RemoveDeleted, execute_action, execute_config_action,
         ApplyPrivate, ApplyPublic, Publish, PublishFails, At
    <3> QED BY <3>2, <3>3, RequestMoves DEF Moves
  <2> QED
    <3>1. \A i \in Jobs : job'[i].at = "public" <=> job[i].at = "public" BY <1>2, <2>2
    <3>2. \A i \in Jobs : job'[i].at = "public" => job'[i] = job[i] BY <1>2, <2>2
    <3>3. Matching => Matching' BY <2>1 DEF Matching, KeysKept
    <3> QED BY <1>1, <1>2, <2>1, <3>1, <3>2, <3>3 DEF Keyed, KeysKept, Of
<1> QED BY <1>3, <1>4, <1>5

\* Nothing moves in a step that stutters.
LEMMA StutterKeyed == Keyed /\ UNCHANGED configVars => Keyed'
<1> SUFFICES ASSUME Keyed, UNCHANGED configVars PROVE Keyed'
  OBVIOUS
<1>1. KeyWriters' = KeyWriters /\ Matching' = Matching /\ Jobs' = Jobs
  BY DEF configVars, KeyWriters, Matching, Jobs
<1> QED BY <1>1 DEF configVars, Keyed, Of

\* What a node signs with is one key, and its metadata gives the other half.
LEMMA SignsAndTells == \A c : \A i \in sign_texture_property(c) : metadata(c).signature_publickey = Pub(i)
BY DEF sign_texture_property, metadata, signature_public_key, configured_private_key

\* What a node signs verifies with the key its metadata gives, at every step of a rotation; and once all
\* is quiet the stored public key is that of the stored private one, after a crash within a rotation too.
THEOREM KeysMatch == ConfigSpec => []SignaturesVerify
<1> DEFINE I == ConvergeInv /\ Keyed
<1>1. ConfigInit => I
  BY InitConverge, InitKeyed
<1>2. I /\ [ConfigNext]_configVars => I'
  <2> SUFFICES ASSUME ConvergeInv, Keyed, [ConfigNext]_configVars PROVE I'
    OBVIOUS
  <2>1. ConvergeInv' BY NextConverge
  <2>2. Shapes /\ Shapes' /\ Fits BY <2>1 DEF ConvergeInv
  <2>3. CASE UNCHANGED configVars BY <2>1, <2>3, StutterKeyed
  <2>4. CASE ConfigNext
    BY <2>1, <2>2, <2>4, StartKeyed, NodeKeyed, RequestKeyed DEF ConfigNext, Step
  <2> QED BY <2>3, <2>4
<1>3. I => SignaturesVerify
  <2> SUFFICES ASSUME I PROVE SignaturesVerify
    OBVIOUS
  <2>1. ASSUME Quiet, ~crossed, PrivateKey \in DOMAIN db, load.aboutKeys
        PROVE  Get(db, PublicKey) = Pub(Get(db, PrivateKey)[2])
    BY <2>1 DEF Quiet, Keyed, Matching
  <2> QED BY <2>1, SignsAndTells DEF SignaturesVerify
<1> QED BY <1>1, <1>2, <1>3, PTL DEF ConfigSpec

----------------------------------------------------------------------------
(* Cross-origin requests                                                   *)

\* Whatever rows a node works with, every origin and credentials do not go together.
LEMMA CorsPolicy ==
    ASSUME NEW c
    PROVE  LET p == runtime_cors_policy(c)
           IN ~(p.cors_allowed_origins = List({"*"}) /\ p.cors_allow_credentials = Bool(TRUE))
<1> DEFINE strict(k) == OrDefault(k, parse_bool_str(Get(c, k)))
           given == parse_allowed_origins_value(Get(c, "cors_allowed_origins"))
           origins == IF given = Refused THEN List({}) ELSE given
           credentials == strict("cors_allow_credentials")
           age == OrDefault("cors_max_age_secs", Accept(Get(c, "cors_max_age_secs"), AtLeast(Get(c, "cors_max_age_secs"), 0)))
           policy(on, o, cred, a) == [cors_enabled |-> on, cors_allowed_origins |-> o,
                                      cors_allow_credentials |-> cred, cors_max_age_secs |-> a]
           no == Bool(FALSE)
           yes == Bool(TRUE)
           none == List({})
           all == List({"*"})
           p == runtime_cors_policy(c)
<1>1. no # yes /\ none # all
  <2>1. Bool(FALSE) # Bool(TRUE) BY DEF Bool
  <2>2. List({}) # List({"*"}) BY DEF List
  <2> QED BY <2>1, <2>2
<1>2. p = IF strict("cors_enabled") = no THEN policy(no, none, no, Default("cors_max_age_secs"))
          ELSE IF ~validate_runtime_cors_combination(origins, credentials) THEN policy(yes, none, no, age)
          ELSE policy(yes, origins, credentials, age)
  BY Zenon DEF runtime_cors_policy
<1>3. validate_runtime_cors_combination(origins, credentials) => ~(origins = all /\ credentials = yes)
  BY DEF validate_runtime_cors_combination
<1> HIDE DEF strict, given, origins, credentials, age, no, yes, none, all, p
<1>4. \/ p = policy(no, none, no, Default("cors_max_age_secs"))
      \/ p = policy(yes, none, no, age)
      \/ p = policy(yes, origins, credentials, age) /\ validate_runtime_cors_combination(origins, credentials)
  BY <1>2
<1>5. \/ p.cors_allow_credentials = no
      \/ /\ validate_runtime_cors_combination(origins, credentials)
         /\ p.cors_allowed_origins = origins /\ p.cors_allow_credentials = credentials
  BY <1>4
<1>6. ~(p.cors_allowed_origins = all /\ p.cors_allow_credentials = yes)
  BY <1>1, <1>3, <1>5
<1> QED BY <1>6 DEF p, all, yes

\* No node ever lets every origin in with credentials, whatever administrators save at once on
\* several nodes: the policy checks what the normalisers could only check against a snapshot.
THEOREM CorsStaysShut == ConfigSpec => []CorsNeverOpen
<1>1. CorsNeverOpen
  BY CorsPolicy DEF CorsNeverOpen
<1> QED BY <1>1, PTL

----------------------------------------------------------------------------
(* The registry, and lists without repetition                              *)

\* Every key is defined once.
LEMMA Registry == \A g \in Categories : \A k \in DOMAIN g : k \in SystemKeys /\ CONFIG_REGISTRY[k] = g[k]
<1>1. \A g, h \in Categories : \A k : k \in DOMAIN g /\ k \in DOMAIN h => g = h
  <2> USE DEF SiteDefs, SessionDefs, LoginDefs, CaptchaDefs, MailLoginDefs, NetworkDefs, MailDefs, AccountTemplateDefs,
              OtherTemplateDefs, YggdrasilDefs, SigningDefs, PreviewDefs, PreviewViewDefs, OperationDefs
  <2>1. \A k \in DOMAIN SiteDefs :
         k \notin DOMAIN SessionDefs \cup DOMAIN LoginDefs \cup DOMAIN CaptchaDefs \cup DOMAIN MailLoginDefs \cup
                   DOMAIN NetworkDefs \cup DOMAIN MailDefs \cup DOMAIN AccountTemplateDefs \cup
                   DOMAIN OtherTemplateDefs \cup DOMAIN YggdrasilDefs \cup DOMAIN SigningDefs \cup
                   DOMAIN PreviewDefs \cup DOMAIN PreviewViewDefs \cup DOMAIN OperationDefs
    BY SMT
  <2>2. \A k \in DOMAIN SessionDefs :
         k \notin DOMAIN LoginDefs \cup DOMAIN CaptchaDefs \cup DOMAIN MailLoginDefs \cup DOMAIN NetworkDefs \cup
                   DOMAIN MailDefs \cup DOMAIN AccountTemplateDefs \cup DOMAIN OtherTemplateDefs \cup
                   DOMAIN YggdrasilDefs \cup DOMAIN SigningDefs \cup DOMAIN PreviewDefs \cup
                   DOMAIN PreviewViewDefs \cup DOMAIN OperationDefs
    BY SMT
  <2>3. \A k \in DOMAIN LoginDefs :
         k \notin DOMAIN CaptchaDefs \cup DOMAIN MailLoginDefs \cup DOMAIN NetworkDefs \cup DOMAIN MailDefs \cup
                   DOMAIN AccountTemplateDefs \cup DOMAIN OtherTemplateDefs \cup DOMAIN YggdrasilDefs \cup
                   DOMAIN SigningDefs \cup DOMAIN PreviewDefs \cup DOMAIN PreviewViewDefs \cup DOMAIN OperationDefs
    BY SMT
  <2>4. \A k \in DOMAIN CaptchaDefs :
         k \notin DOMAIN MailLoginDefs \cup DOMAIN NetworkDefs \cup DOMAIN MailDefs \cup
                   DOMAIN AccountTemplateDefs \cup DOMAIN OtherTemplateDefs \cup DOMAIN YggdrasilDefs \cup
                   DOMAIN SigningDefs \cup DOMAIN PreviewDefs \cup DOMAIN PreviewViewDefs \cup DOMAIN OperationDefs
    BY SMT
  <2>5. \A k \in DOMAIN MailLoginDefs :
         k \notin DOMAIN NetworkDefs \cup DOMAIN MailDefs \cup DOMAIN AccountTemplateDefs \cup
                   DOMAIN OtherTemplateDefs \cup DOMAIN YggdrasilDefs \cup DOMAIN SigningDefs \cup
                   DOMAIN PreviewDefs \cup DOMAIN PreviewViewDefs \cup DOMAIN OperationDefs
    BY SMT
  <2>6. \A k \in DOMAIN NetworkDefs :
         k \notin DOMAIN MailDefs \cup DOMAIN AccountTemplateDefs \cup DOMAIN OtherTemplateDefs \cup
                   DOMAIN YggdrasilDefs \cup DOMAIN SigningDefs \cup DOMAIN PreviewDefs \cup
                   DOMAIN PreviewViewDefs \cup DOMAIN OperationDefs
    BY SMT
  <2>7. \A k \in DOMAIN MailDefs :
         k \notin DOMAIN AccountTemplateDefs \cup DOMAIN OtherTemplateDefs \cup DOMAIN YggdrasilDefs \cup
                   DOMAIN SigningDefs \cup DOMAIN PreviewDefs \cup DOMAIN PreviewViewDefs \cup DOMAIN OperationDefs
    BY SMT
  <2>8. \A k \in DOMAIN AccountTemplateDefs :
         k \notin DOMAIN OtherTemplateDefs \cup DOMAIN YggdrasilDefs \cup DOMAIN SigningDefs \cup
                   DOMAIN PreviewDefs \cup DOMAIN PreviewViewDefs \cup DOMAIN OperationDefs
    BY SMT
  <2>9. \A k \in DOMAIN OtherTemplateDefs :
         k \notin DOMAIN YggdrasilDefs \cup DOMAIN SigningDefs \cup DOMAIN PreviewDefs \cup
                   DOMAIN PreviewViewDefs \cup DOMAIN OperationDefs
    BY SMT
  <2>10. \A k \in DOMAIN YggdrasilDefs :
         k \notin DOMAIN SigningDefs \cup DOMAIN PreviewDefs \cup DOMAIN PreviewViewDefs \cup DOMAIN OperationDefs
    BY SMT
  <2>11. \A k \in DOMAIN SigningDefs :
         k \notin DOMAIN PreviewDefs \cup DOMAIN PreviewViewDefs \cup DOMAIN OperationDefs
    BY SMT
  <2>12. \A k \in DOMAIN PreviewDefs :
         k \notin DOMAIN PreviewViewDefs \cup DOMAIN OperationDefs
    BY SMT
  <2>13. \A k \in DOMAIN PreviewViewDefs :
         k \notin DOMAIN OperationDefs
    BY SMT
  <2> HIDE DEF SiteDefs, SessionDefs, LoginDefs, CaptchaDefs, MailLoginDefs, NetworkDefs, MailDefs, AccountTemplateDefs,
              OtherTemplateDefs, YggdrasilDefs, SigningDefs, PreviewDefs, PreviewViewDefs, OperationDefs
  <2> QED BY <2>1, <2>2, <2>3, <2>4, <2>5, <2>6, <2>7, <2>8, <2>9, <2>10, <2>11, <2>12, <2>13 DEF Categories
<1> SUFFICES ASSUME NEW g \in Categories, NEW k \in DOMAIN g PROVE k \in SystemKeys /\ CONFIG_REGISTRY[k] = g[k]
  OBVIOUS
<1>2. (CHOOSE h \in Categories : k \in DOMAIN h) = g
  BY <1>1
<1> QED BY <1>2, RegistryIsComplete DEF ALL_CONFIGS, SystemKeys

\* The places of P, counted: Nth(P, _) runs through P from 1 to its size.
LEMMA NthCounts ==
    ASSUME NEW N \in Nat, NEW P \in SUBSET (1..N)
    PROVE  /\ IsFiniteSet(P) /\ Cardinality(P) \in Nat
           /\ \A n \in 1..Cardinality(P) : Nth(P, n) \in P
           /\ \A i \in P : \E n \in 1..Cardinality(P) : Nth(P, n) = i
           /\ \A m, n \in 1..Cardinality(P) : Nth(P, m) = Nth(P, n) => m = n
<1> DEFINE Rank(i) == Cardinality({j \in P : j <= i})
           C == Cardinality(P)
<1>1. IsFiniteSet(P) /\ C \in Nat
  <2>1. IsFiniteSet(1..N) BY FS_Interval
  <2> QED BY <2>1, FS_Subset, FS_CardinalityType
<1>2. \A i \in P : Rank(i) \in 1..C
  <2> SUFFICES ASSUME NEW i \in P PROVE Rank(i) \in 1..C
    OBVIOUS
  <2> DEFINE B == {j \in P : j <= i}
  <2>1. B \subseteq P /\ i \in B OBVIOUS
  <2>2. IsFiniteSet(B) /\ Cardinality(B) \in Nat /\ Cardinality(B) <= C
    BY <1>1, <2>1, FS_Subset, FS_CardinalityType
  <2>3. Cardinality(B) # 0 BY <2>1, <2>2, FS_EmptySet
  <2> QED BY <2>2, <2>3, <1>1
<1>3. \A i, j \in P : i < j => Rank(i) < Rank(j)
  <2> SUFFICES ASSUME NEW i \in P, NEW j \in P, i < j PROVE Rank(i) < Rank(j)
    OBVIOUS
  <2> DEFINE A == {k \in P : k <= i}
             B == {k \in P : k <= j}
  <2>1. A \subseteq B /\ j \in B /\ j \notin A
    <3>1. i \in Nat /\ j \in Nat /\ \A k \in P : k \in Nat OBVIOUS
    <3>2. j <= j /\ ~(j <= i) /\ \A k \in P : k <= i => k <= j BY <3>1
    <3> QED BY <3>2
  <2>2. IsFiniteSet(B) /\ IsFiniteSet(A) BY <1>1, FS_Subset
  <2>3. Cardinality(A) < Cardinality(B)
    <3>1. Cardinality(A) <= Cardinality(B) /\ (Cardinality(A) = Cardinality(B) => A = B)
      BY <2>1, <2>2, FS_Subset
    <3>2. Cardinality(A) \in Nat /\ Cardinality(B) \in Nat /\ A # B
      BY <2>1, <2>2, FS_CardinalityType
    <3> HIDE DEF A, B
    <3> QED BY <3>1, <3>2
  <2> QED BY <2>3
<1>4. \A i, j \in P : Rank(i) = Rank(j) => i = j
  <2> SUFFICES ASSUME NEW i \in P, NEW j \in P, Rank(i) = Rank(j), i # j PROVE FALSE
    OBVIOUS
  <2>1. i < j \/ j < i OBVIOUS
  <2> HIDE DEF Rank
  <2> QED BY <2>1, <1>2, <1>3, <1>1
<1> HIDE DEF Rank
<1>5. \A n \in 1..C : \E i \in P : Rank(i) = n
  <2> DEFINE f == [i \in P |-> Rank(i)]
             R == {f[i] : i \in P}
  <2>1. f \in Bijection(P, R) BY <1>4 DEF Bijection, Injection, Surjection, IsInjective
  <2>2. Cardinality(R) = C /\ IsFiniteSet(R)
    BY <1>1, <2>1, FS_Bijection DEF ExistsBijection
  <2>3. R \subseteq 1..C BY <1>2
  <2>4. IsFiniteSet(1..C) /\ Cardinality(1..C) = C BY <1>1, FS_Interval
  <2>5. R = 1..C BY <2>2, <2>3, <2>4, FS_Subset
  <2> QED BY <2>5
<1>6. \A n \in 1..C : Nth(P, n) \in P /\ Rank(Nth(P, n)) = n
  BY <1>5 DEF Nth, Rank
<1>7. \A i \in P : Nth(P, Rank(i)) = i
  BY <1>2, <1>4, <1>6
<1> QED BY <1>1, <1>2, <1>6, <1>7

\* All places, counted, are themselves.
LEMMA NthOfAll ==
    ASSUME NEW N \in Nat
    PROVE  Cardinality(1..N) = N /\ \A n \in 1..N : Nth(1..N, n) = n
<1>1. Cardinality(1..N) = N
  BY FS_Interval
<1> SUFFICES ASSUME NEW n \in 1..N PROVE Nth(1..N, n) = n
  BY <1>1
<1>2. \A i \in 1..N : {j \in 1..N : j <= i} = 1..i OBVIOUS
<1>3. \A i \in 1..N : Cardinality({j \in 1..N : j <= i}) = i
  <2> SUFFICES ASSUME NEW i \in 1..N PROVE Cardinality(1..i) = i
    BY <1>2
  <2> QED BY FS_Interval
<1> QED BY <1>3 DEF Nth

\* A list is a sequence of something.
LEMMA Lists == ASSUME NEW X, NEW s \in Seq(X) PROVE IsList(s) /\ DOMAIN s = 1..Len(s) /\ Len(s) \in Nat
<1>1. s \in Seq({s[i] : i \in DOMAIN s})
  <2>1. DOMAIN s = 1..Len(s) /\ Len(s) \in Nat /\ s = [i \in 1..Len(s) |-> s[i]] OBVIOUS
  <2>2. \A i \in 1..Len(s) : s[i] \in {s[k] : k \in DOMAIN s} BY <2>1
  <2> QED BY <2>1, <2>2
<1> QED BY <1>1 DEF IsList

\* Lists as they are stored: canonical entries, none twice.
Tidy(s) ==
    /\ IsList(s)
    /\ \A i \in DOMAIN s : Valid(s[i]) /\ Canonical[s[i]] = s[i]
    /\ \A i, j \in DOMAIN s : s[i] = s[j] => i = j

\* A canonical spelling is its own.
LEMMA CanonicalIsFixed ==
    \A w : Valid(w) => Valid(Canonical[w]) /\ Canonical[Canonical[w]] = Canonical[w]
<1> SUFFICES ASSUME NEW w, Valid(w)
             PROVE  Valid(Canonical[w]) /\ Canonical[Canonical[w]] = Canonical[w]
  OBVIOUS
<1>1. \A x : Valid(x) <=> x \in {"a.example", "b.example", "A.EXAMPLE", ".minecraft.net", ".mojang.com",
                               "www.gravatar.com", "api.mojang.com", "/favicon.svg"}
  BY DEF Valid, Canonical
<1>2. \A x : Valid(x) => Canonical[x] = IF x = "A.EXAMPLE" THEN "a.example" ELSE x
  BY <1>1 DEF Canonical
<1>3. Valid("a.example")
  BY <1>1
<1> QED BY <1>2, <1>3

\* UsableItems, NormalItems: what is kept of a list is tidy.
LEMMA DedupedIsTidy == ASSUME NEW s, IsList(s) PROVE Tidy(Deduped(s))
<1> DEFINE P == {i \in DOMAIN s : /\ Valid(s[i])
                                  /\ \A j \in 1..(i - 1) : Valid(s[j]) => Canonical[s[j]] # Canonical[s[i]]}
           C == Cardinality(P)
           d == [n \in 1..C |-> Canonical[s[Nth(P, n)]]]
<1>1. DOMAIN s = 1..Len(s) /\ Len(s) \in Nat /\ P \in SUBSET (1..Len(s))
  BY DEF IsList
<1>2. /\ C \in Nat /\ \A n \in 1..C : Nth(P, n) \in P
      /\ \A m, n \in 1..C : Nth(P, m) = Nth(P, n) => m = n
  BY <1>1, NthCounts
<1>3. \A i, j \in P : Canonical[s[i]] = Canonical[s[j]] => i = j
  <2> SUFFICES ASSUME NEW i \in P, NEW j \in P, Canonical[s[i]] = Canonical[s[j]], i # j PROVE FALSE
    OBVIOUS
  <2>1. i \in 1..Len(s) /\ j \in 1..Len(s) BY <1>1
  <2>2. i \in 1..(j - 1) \/ j \in 1..(i - 1) BY <2>1, <1>1
  <2> QED BY <2>2
<1>4. Deduped(s) = d
  BY DEF Deduped, Entries
<1>5. \A i \in P : Valid(s[i]) OBVIOUS
<1> HIDE DEF P
<1>6. \A n \in 1..C : Valid(d[n]) /\ Canonical[d[n]] = d[n]
  BY <1>2, <1>5, CanonicalIsFixed
<1>7. \A m, n \in 1..C : d[m] = d[n] => m = n
  BY <1>2, <1>3
<1>8. d \in Seq({d[n] : n \in 1..C}) /\ DOMAIN d = 1..C
  BY <1>2
<1> QED BY <1>4, <1>6, <1>7, <1>8, Lists DEF Tidy

\* A tidy list is kept as it is.
LEMMA TidyStays == ASSUME NEW s, Tidy(s) PROVE Deduped(s) = s
<1> DEFINE P == {i \in DOMAIN s : /\ Valid(s[i])
                                  /\ \A j \in 1..(i - 1) : Valid(s[j]) => Canonical[s[j]] # Canonical[s[i]]}
<1>1. DOMAIN s = 1..Len(s) /\ Len(s) \in Nat /\ s = [n \in 1..Len(s) |-> s[n]]
  BY DEF Tidy, IsList
<1>2. P = 1..Len(s)
  <2> SUFFICES ASSUME NEW i \in 1..Len(s), NEW j \in 1..(i - 1) PROVE s[j] # s[i] /\ Valid(s[i])
    BY <1>1 DEF Tidy
  <2>1. j \in 1..Len(s) /\ j # i BY <1>1
  <2> QED BY <1>1, <2>1 DEF Tidy
<1>3. Cardinality(P) = Len(s) /\ \A n \in 1..Len(s) : Nth(P, n) = n
  BY <1>1, <1>2, NthOfAll
<1> HIDE DEF P
<1>4. Deduped(s) = [n \in 1..Len(s) |-> Canonical[s[n]]]
  <2>1. Deduped(s) = [n \in 1..Cardinality(P) |-> Canonical[s[Nth(P, n)]]]
    BY DEF Deduped, Entries, P
  <2> QED BY <2>1, <1>3
<1>5. \A n \in 1..Len(s) : Canonical[s[n]] = s[n]
  BY <1>1 DEF Tidy
<1> QED BY <1>1, <1>4, <1>5

\* Entries of a list of which no two are equal: the places taken can be told from them.
LEMMA EntriesOf ==
    ASSUME NEW s, IsList(s), \A i, j \in DOMAIN s : s[i] = s[j] => i = j, NEW P \in SUBSET DOMAIN s
    PROVE  LET e == Entries(s, P) IN
           /\ IsList(e)
           /\ \A n \in DOMAIN e : e[n] \in {s[i] : i \in P}
           /\ \A i \in P : \E n \in DOMAIN e : e[n] = s[i]
           /\ \A m, n \in DOMAIN e : e[m] = e[n] => m = n
<1> DEFINE C == Cardinality(P)
           e == [n \in 1..C |-> s[Nth(P, n)]]
<1>1. DOMAIN s = 1..Len(s) /\ Len(s) \in Nat
  BY DEF IsList
<1>2. /\ C \in Nat /\ \A n \in 1..C : Nth(P, n) \in P
      /\ \A i \in P : \E n \in 1..C : Nth(P, n) = i
      /\ \A m, n \in 1..C : Nth(P, m) = Nth(P, n) => m = n
  BY <1>1, NthCounts
<1>3. Entries(s, P) = e
  BY DEF Entries
<1>4. IsList(e) /\ DOMAIN e = 1..C
  <2>1. e \in Seq({e[n] : n \in 1..C}) BY <1>2
  <2> QED BY <2>1, Lists
<1>5. \A n \in 1..C : e[n] = s[Nth(P, n)] OBVIOUS
<1> HIDE DEF e, C
<1>0. \A n \in 1..C : e[n] \in {s[i] : i \in P}
  BY <1>2, <1>5
<1>6. \A i \in P : \E n \in 1..C : e[n] = s[i]
  BY <1>2, <1>5
<1>7. \A m, n \in 1..C : e[m] = e[n] => m = n
  BY <1>2, <1>5
<1> QED BY <1>0, <1>3, <1>4, <1>6, <1>7

LEMMA SortedShape ==
    /\ IsList(Sorted) /\ \A i, j \in DOMAIN Sorted : Sorted[i] = Sorted[j] => i = j
    /\ \A i \in DOMAIN Sorted : Valid(Sorted[i]) /\ Canonical[Sorted[i]] = Sorted[i]
    /\ IsList(AuditActions) /\ \A i, j \in DOMAIN AuditActions : AuditActions[i] = AuditActions[j] => i = j
<1>1. DOMAIN Sorted = {1, 2, 3, 4, 5, 6, 7} /\ \A i, j \in DOMAIN Sorted : Sorted[i] = Sorted[j] => i = j
  BY DEF Sorted
<1>2. \A i \in {1, 2, 3, 4, 5, 6, 7} : Valid(Sorted[i]) /\ Canonical[Sorted[i]] = Sorted[i]
  BY DEF Sorted, Valid, Canonical
<1>3. IsList(Sorted)
  BY DEF Sorted, IsList
<1>4. IsList(AuditActions)
  BY DEF AuditActions, IsList
<1>5. \A i, j \in DOMAIN AuditActions : AuditActions[i] = AuditActions[j] => i = j
  BY DEF AuditActions
<1> QED BY <1>1, <1>2, <1>3, <1>4, <1>5

----------------------------------------------------------------------------
(* The definitions of keys, and the forms of values                        *)

Rules ==
    {"typed", "actions", "strict", "natural", "cors_origins", "cors_credentials", "length", "attempts",
     "preset", "display", "asset", "trimmed", "port", "subject", "body", "engine", "profile", "background",
     "u32", "supersampling", "float", "bool", "positive", "gravatar", "items", "origins", "optional_url",
     "required_url"}

\* A key of type t with the rule r may have the default v.
Suits(t, v, r) ==
    /\ IsBare(v)
    /\ r \in Rules
    /\ t = "array" <=> r \in {"actions", "origins", "items"}
    /\ t = "bool" => r \in {"bool", "typed", "strict", "cors_credentials"} /\ v[1] = "bool"
    /\ r = "positive" => t = "number" /\ AtLeast(v, 1)
    /\ r \in {"bool", "strict"} => t = "bool"
    /\ r = "length" => Between(v, 4, 8)
    /\ r = "attempts" => Between(v, 1, 10)
    /\ r = "port" => Between(v, 1, 65535)
    /\ r \in {"subject", "body", "display"} => v # Blank
Defined(d) == \E t, v, r : d = Def(t, v, r) /\ Suits(t, v, r)

LEMMA KindsOfKeys ==
    /\ \A r \in {"bool", "typed", "strict", "cors_credentials"} :
          Defined(Def("bool", Bool(TRUE), r)) /\ Defined(Def("bool", Bool(FALSE), r))
    /\ \A n \in Nat \ {0} : Defined(Def("number", Num(n), "positive"))
    /\ \A n \in Int : \A r \in {"typed", "natural", "u32", "supersampling", "float"} :
          Defined(Def("number", Num(n), r)) /\ Defined(Def("number", Real(n), r))
    /\ \A w : \A r \in {"display", "asset", "trimmed", "typed", "gravatar", "required_url", "background", "subject", "body"} :
          Defined(Def("string", Text(w), r))
    /\ \A r \in {"asset", "trimmed", "typed", "cors_origins", "optional_url"} : Defined(Def("string", Blank, r))
    /\ \A w : \A r \in {"preset", "engine", "profile"} : Defined(Def("enum", Text(w), r))
    /\ \A s : IsList(s) => \A r \in {"actions", "origins", "items"} : Defined(Def("array", Items(s), r))
    /\ Defined(Def("number", Num(5), "length")) /\ Defined(Def("number", Num(3), "attempts"))
    /\ Defined(Def("number", Num(587), "port"))
<1>1. \A b \in BOOLEAN : \A r \in {"bool", "typed", "strict", "cors_credentials"} : Suits("bool", Bool(b), r)
  BY DEF Suits, Rules, IsBare, Bool
<1>2. \A n \in Nat \ {0} : Suits("number", Num(n), "positive")
  BY DEF Suits, Rules, IsBare, Num, AtLeast
<1>3. \A n \in Int : \A r \in {"typed", "natural", "u32", "supersampling", "float"} : Suits("number", Num(n), r) /\ Suits("number", Real(n), r)
  BY DEF Suits, Rules, IsBare, Num, Real
<1>4. \A w : \A r \in {"display", "asset", "trimmed", "typed", "gravatar", "required_url", "background", "subject", "body"} :
          Suits("string", Text(w), r)
  BY DEF Suits, Rules, IsBare, Text, Blank
<1>5. \A r \in {"asset", "trimmed", "typed", "cors_origins", "optional_url"} : Suits("string", Blank, r)
  BY DEF Suits, Rules, IsBare, Blank
<1>6. \A w : \A r \in {"preset", "engine", "profile"} : Suits("enum", Text(w), r)
  BY DEF Suits, Rules, IsBare, Text
<1>7. \A s : IsList(s) => \A r \in {"actions", "origins", "items"} : Suits("array", Items(s), r)
  BY DEF Suits, Rules, IsBare, Items
<1>8. Suits("number", Num(5), "length") /\ Suits("number", Num(3), "attempts") /\ Suits("number", Num(587), "port")
  BY DEF Suits, Rules, IsBare, Num, Between
<1>9. \A t, v, r : Suits(t, v, r) => Defined(Def(t, v, r))
  BY DEF Defined
<1> QED BY <1>1, <1>2, <1>3, <1>4, <1>5, <1>6, <1>7, <1>8, <1>9

LEMMA SmallLists ==
    IsList(<<>>) /\ IsList(<<"config_update", "user_login">>) /\ IsList(<<".minecraft.net", ".mojang.com">>)
BY DEF IsList

\* Every definition suits: what the registry says of each key is of one of these kinds.
LEMMA Definitions == \A k \in SystemKeys : Defined(CONFIG_REGISTRY[k])
<1>1. \A k \in DOMAIN SiteDefs : Defined(SiteDefs[k])
  <2>1. /\ Defined(Def("array", Items(<<>>), "origins"))
        /\ Defined(Def("string", Text("AsterYggdrasil"), "display"))
        /\ Defined(Def("string", Text("Self-hosted"), "display"))
        /\ Defined(Def("string", Text("/favicon.svg"), "asset")) /\ Defined(Def("string", Blank, "asset"))
    BY SMT, KindsOfKeys, SmallLists DEF Bool
  <2> QED BY SMT, <2>1 DEF Bool, SiteDefs
<1>2. \A k \in DOMAIN SessionDefs : Defined(SessionDefs[k])
  <2>1. /\ Defined(Def("bool", Bool(TRUE), "bool")) /\ Defined(Def("number", Num(900), "positive"))
        /\ Defined(Def("number", Num(604800), "positive")) /\ Defined(Def("number", Num(86400), "positive"))
        /\ Defined(Def("number", Num(3600), "positive"))
    BY SMT, KindsOfKeys, SmallLists DEF Bool
  <2> QED BY SMT, <2>1 DEF Bool, SessionDefs
<1>3. \A k \in DOMAIN LoginDefs : Defined(LoginDefs[k])
  <2>1. /\ Defined(Def("number", Num(60), "positive")) /\ Defined(Def("bool", Bool(TRUE), "bool"))
        /\ Defined(Def("bool", Bool(FALSE), "bool"))
    BY SMT, KindsOfKeys, SmallLists DEF Bool
  <2> QED BY SMT, <2>1 DEF Bool, LoginDefs
<1>4. \A k \in DOMAIN CaptchaDefs : Defined(CaptchaDefs[k])
  <2>1. /\ Defined(Def("bool", Bool(FALSE), "bool")) /\ Defined(Def("bool", Bool(TRUE), "bool"))
        /\ Defined(Def("enum", Text("balanced"), "preset")) /\ Defined(Def("number", Num(120), "positive"))
        /\ Defined(Def("number", Num(5), "length")) /\ Defined(Def("number", Num(3), "attempts"))
    BY SMT, KindsOfKeys, SmallLists DEF Bool
  <2> QED BY SMT, <2>1 DEF Bool, CaptchaDefs
<1>5. \A k \in DOMAIN MailLoginDefs : Defined(MailLoginDefs[k])
  <2>1. /\ Defined(Def("bool", Bool(FALSE), "bool")) /\ Defined(Def("number", Num(600), "positive"))
        /\ Defined(Def("number", Num(60), "positive")) /\ Defined(Def("array", Items(<<>>), "items"))
        /\ Defined(Def("string", Text("www.gravatar.com"), "gravatar"))
    BY SMT, KindsOfKeys, SmallLists DEF Bool
  <2> QED BY SMT, <2>1 DEF Bool, MailLoginDefs
<1>6. \A k \in DOMAIN NetworkDefs : Defined(NetworkDefs[k])
  <2>1. /\ Defined(Def("bool", Bool(FALSE), "strict")) /\ Defined(Def("string", Blank, "cors_origins"))
        /\ Defined(Def("bool", Bool(FALSE), "cors_credentials"))
        /\ Defined(Def("number", Num(3600), "natural")) /\ Defined(Def("bool", Bool(TRUE), "typed"))
        /\ Defined(Def("number", Num(180), "typed"))
        /\ Defined(Def("array", Items(<<"config_update", "user_login">>), "actions"))
    BY SMT, KindsOfKeys, SmallLists DEF Bool
  <2> QED BY SMT, <2>1 DEF Bool, NetworkDefs
<1>7. \A k \in DOMAIN MailDefs : Defined(MailDefs[k])
  <2>1. /\ Defined(Def("string", Blank, "trimmed")) /\ Defined(Def("number", Num(587), "port"))
        /\ Defined(Def("string", Blank, "typed")) /\ Defined(Def("string", Text("AsterYggdrasil"), "trimmed"))
        /\ Defined(Def("bool", Bool(TRUE), "bool"))
    BY SMT, KindsOfKeys, SmallLists DEF Bool
  <2> QED BY SMT, <2>1 DEF Bool, MailDefs
<1>8. \A k \in DOMAIN AccountTemplateDefs : Defined(AccountTemplateDefs[k])
  <2>1. /\ Defined(Def("string", Text("activate"), "subject"))
        /\ Defined(Def("string", Text("activate_body"), "body"))
        /\ Defined(Def("string", Text("confirm"), "subject"))
        /\ Defined(Def("string", Text("confirm_body"), "body"))
        /\ Defined(Def("string", Text("reset"), "subject"))
        /\ Defined(Def("string", Text("reset_body"), "body"))
        /\ Defined(Def("string", Text("was_reset"), "subject"))
        /\ Defined(Def("string", Text("was_reset_body"), "body"))
    BY SMT, KindsOfKeys, SmallLists DEF Bool
  <2> QED BY SMT, <2>1 DEF Bool, AccountTemplateDefs
<1>9. \A k \in DOMAIN OtherTemplateDefs : Defined(OtherTemplateDefs[k])
  <2>1. /\ Defined(Def("string", Text("changed"), "subject"))
        /\ Defined(Def("string", Text("changed_body"), "body"))
        /\ Defined(Def("string", Text("verify"), "subject"))
        /\ Defined(Def("string", Text("verify_body"), "body"))
        /\ Defined(Def("string", Text("code"), "subject"))
        /\ Defined(Def("string", Text("code_body"), "body"))
        /\ Defined(Def("string", Text("invited"), "subject"))
        /\ Defined(Def("string", Text("invited_body"), "body"))
    BY SMT, KindsOfKeys, SmallLists DEF Bool
  <2> QED BY SMT, <2>1 DEF Bool, OtherTemplateDefs
<1>10. \A k \in DOMAIN YggdrasilDefs : Defined(YggdrasilDefs[k])
  <2>1. /\ Defined(Def("string", Text("AsterYggdrasil"), "typed"))
        /\ Defined(Def("bool", Bool(TRUE), "typed")) /\ Defined(Def("number", Num(15), "positive"))
        /\ Defined(Def("number", Num(10), "positive")) /\ Defined(Def("number", Num(4194304), "positive"))
        /\ Defined(Def("number", Num(16777216), "positive"))
    BY SMT, KindsOfKeys, SmallLists DEF Bool
  <2> QED BY SMT, <2>1 DEF Bool, YggdrasilDefs
<1>11. \A k \in DOMAIN SigningDefs : Defined(SigningDefs[k])
  <2>1. /\ Defined(Def("array", Items(<<".minecraft.net", ".mojang.com">>), "items"))
        /\ Defined(Def("array", Items(<<>>), "origins")) /\ Defined(Def("string", Blank, "optional_url"))
        /\ Defined(Def("string", Blank, "typed")) /\ Defined(Def("number", Num(1), "positive"))
        /\ Defined(Def("bool", Bool(TRUE), "typed")) /\ Defined(Def("number", Num(3), "positive"))
        /\ Defined(Def("string", Text("api.mojang.com"), "required_url"))
    BY SMT, KindsOfKeys, SmallLists DEF Bool
  <2> QED BY SMT, <2>1 DEF Bool, SigningDefs
<1>12. \A k \in DOMAIN PreviewDefs : Defined(PreviewDefs[k])
  <2>1. /\ Defined(Def("bool", Bool(TRUE), "bool")) /\ Defined(Def("enum", Text("skin-3d"), "engine"))
        /\ Defined(Def("enum", Text("default"), "profile")) /\ Defined(Def("number", Num(430), "u32"))
        /\ Defined(Def("string", Text("transparent"), "background"))
        /\ Defined(Def("number", Real(1150), "float")) /\ Defined(Def("number", Num(30), "float"))
        /\ Defined(Def("number", Num(-45), "float"))
    BY SMT, KindsOfKeys, SmallLists DEF Bool
  <2> QED BY SMT, <2>1 DEF Bool, PreviewDefs
<1>13. \A k \in DOMAIN PreviewViewDefs : Defined(PreviewViewDefs[k])
  <2>1. /\ Defined(Def("number", Num(135), "float")) /\ Defined(Def("number", Num(35), "float"))
        /\ Defined(Def("number", Num(0), "float")) /\ Defined(Def("number", Num(-24), "float"))
        /\ Defined(Def("number", Real(56), "float")) /\ Defined(Def("number", Num(2), "supersampling"))
        /\ Defined(Def("number", Num(24), "u32")) /\ Defined(Def("number", Num(35), "u32"))
    BY SMT, KindsOfKeys, SmallLists DEF Bool
  <2> QED BY SMT, <2>1 DEF Bool, PreviewViewDefs
<1>14. \A k \in DOMAIN OperationDefs : Defined(OperationDefs[k])
  <2>1. /\ Defined(Def("number", Num(5), "positive")) /\ Defined(Def("number", Num(60), "positive"))
        /\ Defined(Def("number", Num(4), "positive")) /\ Defined(Def("number", Num(3), "positive"))
        /\ Defined(Def("number", Num(24), "positive")) /\ Defined(Def("number", Num(100), "positive"))
        /\ Defined(Def("number", Num(3600), "positive"))
    BY SMT, KindsOfKeys, SmallLists DEF Bool
  <2> QED BY SMT, <2>1 DEF Bool, OperationDefs
<1> SUFFICES ASSUME NEW g \in Categories, NEW k \in DOMAIN g PROVE Defined(CONFIG_REGISTRY[k])
  BY RegistryIsComplete DEF ALL_CONFIGS, SystemKeys
<1>15. CONFIG_REGISTRY[k] = g[k]
  BY Registry
<1> QED
  BY <1>1, <1>2, <1>3, <1>4, <1>5, <1>6, <1>7, <1>8, <1>9, <1>10, <1>11, <1>12, <1>13, <1>14, <1>15 DEF Categories

RuleOf(k) == CONFIG_REGISTRY[k].rule
TypeOf(k) == CONFIG_REGISTRY[k].type

\* What the definition of a key says suits.
LEMMA Suitable == ASSUME NEW k \in SystemKeys PROVE Suits(TypeOf(k), Default(k), RuleOf(k))
<1>1. PICK t, v, r : CONFIG_REGISTRY[k] = Def(t, v, r) /\ Suits(t, v, r)
  BY Definitions DEF Defined
<1>2. TypeOf(k) = t /\ Default(k) = v /\ RuleOf(k) = r
  BY <1>1 DEF TypeOf, Default, RuleOf, Def
<1> QED BY <1>1, <1>2

\* The forms of values.
LEMMA Forms ==
    /\ \A b \in BOOLEAN : IsBare(<<"bool", b>>)
    /\ \A n \in Int : IsBare(Num(n))
    /\ \A w : IsBare(Text(w)) /\ IsBare(List(w)) /\ IsBare(Key(w)) /\ IsBare(Pub(w))
    /\ \A s : IsList(s) => IsBare(Items(s))
    /\ IsBare(Blank) /\ Blank[1] = "blank"
<1>1. \A b \in BOOLEAN : IsBare(<<"bool", b>>)
  BY DEF IsBare
<1>2. \A n \in Int : IsBare(Num(n))
  BY DEF IsBare, Num
<1>3. \A w : IsBare(Text(w)) /\ IsBare(List(w))
  BY DEF IsBare, Text, List
<1>4. \A w : IsBare(Key(w)) /\ IsBare(Pub(w))
  BY DEF IsBare, Key, Pub
<1>5. \A s : IsList(s) => IsBare(Items(s))
  BY DEF IsBare, Items
<1>6. IsBare(Blank) /\ Blank[1] = "blank"
  BY DEF IsBare, Blank
<1> QED BY <1>1, <1>2, <1>3, <1>4, <1>5, <1>6

\* A value is bare, or bare within blanks.
LEMMA TrimIsBare ==
    ASSUME NEW v, IsValue(v)
    PROVE  IsBare(Trim(v)) /\ Trim(Trim(v)) = Trim(v)
BY DEF IsValue, IsBare, Trim, Padded
LEMMA BareIsTrim ==
    ASSUME NEW v, IsBare(v)
    PROVE  /\ IsValue(v) /\ Trim(v) = v /\ v # Missing /\ v # Refused /\ v = <<v[1], v[2]>>
           /\ v[1] = "items" => v = Items(v[2]) /\ IsList(v[2])
BY DEF IsValue, IsBare, Trim, Missing, Refused, Items

\* Arrays are the keys with rules for lists.
LEMMA ArrayRules ==
    ASSUME NEW k \in SystemKeys
    PROVE  /\ TypeOf(k) = "array" <=> RuleOf(k) \in {"actions", "origins", "items"}
           /\ RuleOf(k) \in Rules
BY Suitable DEF Suits

EmailLists == {"auth_local_email_allowlist", "auth_local_email_blocklist"}

\* Where the keys with rules of their own belong.
LEMMA SpecialKeys ==
    /\ \A k \in EmailLists : k \in SystemKeys /\ RuleOf(k) = "items"
    /\ "public_site_url" \in SystemKeys /\ RuleOf("public_site_url") = "origins"
<1>1. MailLoginDefs \in Categories /\ SiteDefs \in Categories
  BY DEF Categories
<1>2. EmailLists \subseteq DOMAIN MailLoginDefs /\ \A k \in EmailLists : MailLoginDefs[k].rule = "items"
  BY DEF MailLoginDefs, EmailLists, Def
<1>3. "public_site_url" \in DOMAIN SiteDefs /\ SiteDefs["public_site_url"].rule = "origins"
  BY DEF SiteDefs, Def
<1> QED BY <1>1, <1>2, <1>3, Registry DEF RuleOf

\* The rules whose normaliser keeps a value or refuses it, and the others.
Keeping ==
    {"strict", "natural", "length", "attempts", "preset", "display", "asset", "trimmed", "port", "subject", "body",
     "profile", "u32", "supersampling", "float", "positive"}
CorsRules == {"cors_origins", "cors_credentials"}
Kept(k, v) ==
    /\ RuleOf(k) = "strict" => v[1] = "bool"
    /\ RuleOf(k) = "natural" => AtLeast(v, 0)
    /\ RuleOf(k) = "positive" => AtLeast(v, 1)
    /\ RuleOf(k) = "length" => Between(v, 4, 8)
    /\ RuleOf(k) = "attempts" => Between(v, 1, 10)
    /\ RuleOf(k) = "preset" => v \in {Text("readable"), Text("balanced"), Text("hardened")}
    /\ RuleOf(k) = "display" => v # Text("long")
    /\ RuleOf(k) = "asset" => v = Blank \/ (v[1] = "text" /\ Valid(v[2]))
    /\ RuleOf(k) = "port" => Between(v, 1, 65535)
    /\ RuleOf(k) = "subject" => v # Text("two_lines")
    /\ RuleOf(k) = "profile" => v \in {Text("fast"), Text("default"), Text("quality")}
    /\ RuleOf(k) = "u32" => v[1] = "num" /\ v[2] > 0
    /\ RuleOf(k) = "supersampling" => Between(v, 1, 4)
    /\ RuleOf(k) = "float" => v[1] \in {"num", "real", "huge"}

\* What is made of a value of the right shape, by the rule of the key.
LEMMA Normalizers ==
    ASSUME NEW c, NEW k \in SystemKeys, NEW raw, TypeOf(k) = "array" <=> Trim(raw)[1] = "items"
    PROVE  LET N == Normalize(c, k, raw) r == RuleOf(k) v == Trim(raw) IN
           /\ r = "typed" => N = IF validate_value_type(k, v) THEN raw ELSE Refused
           /\ r = "actions" => N = normalize_recorded_actions(v)
           /\ r = "cors_origins" => N = normalize_cors_allowed_origins(c, v)
           /\ r = "cors_credentials" => N = normalize_cors_allow_credentials(c, v)
           /\ r = "strict" => N = parse_bool_str(v)
           /\ r = "natural" => N = Accept(v, AtLeast(v, 0))
           /\ r = "length" => N = Accept(v, Between(v, 4, 8))
           /\ r = "attempts" => N = Accept(v, Between(v, 1, 10))
           /\ r = "preset" => N = parse_captcha_preset_selection(v)
           /\ r \in {"display", "asset"} => N = normalize_branding(k, v)
           /\ r \in {"trimmed", "port", "subject", "body"} => N = normalize_mail(k, v)
           /\ r \in {"engine", "profile", "background", "u32", "supersampling", "float"} =>
                 N = normalize_texture_preview_config_value(k, v)
           /\ r = "bool" => N = ParseBoolLike(v)
           /\ r = "positive" => N = normalize_interval_config_value(v)
           /\ r = "gravatar" => N = normalize_gravatar_base_url(v)
           /\ k \in EmailLists => N = normalize_local_email_policy(v)
           /\ r \in {"items", "origins"} /\ k \notin EmailLists => N = NormalItems(v)
           /\ r \in {"optional_url", "required_url"} => N = normalize_yggdrasil_config_value(k, v)
<1> DEFINE v == Trim(raw)
<1>1. \A x \in EmailLists : x # "public_site_url"
  BY DEF EmailLists
<1>2. Normalize(c, k, raw) =
       CASE RuleOf(k) = "typed" -> (IF validate_value_type(k, v) THEN raw ELSE Refused)
         [] RuleOf(k) = "actions" -> normalize_recorded_actions(v)
         [] RuleOf(k) = "strict" -> parse_bool_str(v)
         [] RuleOf(k) = "natural" -> Accept(v, AtLeast(v, 0))
         [] RuleOf(k) = "cors_origins" -> normalize_cors_allowed_origins(c, v)
         [] RuleOf(k) = "cors_credentials" -> normalize_cors_allow_credentials(c, v)
         [] RuleOf(k) = "length" -> Accept(v, Between(v, 4, 8))
         [] RuleOf(k) = "attempts" -> Accept(v, Between(v, 1, 10))
         [] RuleOf(k) = "preset" -> parse_captcha_preset_selection(v)
         [] RuleOf(k) \in {"display", "asset"} -> normalize_branding(k, v)
         [] RuleOf(k) \in {"trimmed", "port", "subject", "body"} -> normalize_mail(k, v)
         [] RuleOf(k) \in {"engine", "profile", "background", "u32", "supersampling", "float"} ->
              normalize_texture_preview_config_value(k, v)
         [] RuleOf(k) = "bool" -> ParseBoolLike(v)
         [] RuleOf(k) = "positive" -> normalize_interval_config_value(v)
         [] RuleOf(k) = "gravatar" -> normalize_gravatar_base_url(v)
         [] k \in EmailLists -> normalize_local_email_policy(v)
         [] k = "public_site_url" -> NormalItems(v)
         [] OTHER -> normalize_yggdrasil_config_value(k, v)
  BY DEF Normalize, RuleOf, TypeOf, EmailLists
<1>3. RuleOf(k) \in {"items", "origins"} => normalize_yggdrasil_config_value(k, v) = NormalItems(v)
  BY ArrayRules, Forms DEF normalize_yggdrasil_config_value, RuleOf
<1> HIDE DEF v
<1> QED BY <1>1, <1>2, <1>3, SpecialKeys DEF v

----------------------------------------------------------------------------
(* Normalisation: what was stored is stored again unchanged                *)

\* A value that is not refused has the shape of its key.
LEMMA RightShape ==
    ASSUME NEW c, NEW k \in SystemKeys, NEW raw, Normalize(c, k, raw) # Refused
    PROVE  TypeOf(k) = "array" <=> Trim(raw)[1] = "items"
BY DEF Normalize, TypeOf

\* Most normalisers keep a value or refuse it.
LEMMA KeepingKeeps ==
    ASSUME NEW c, NEW k \in SystemKeys, NEW raw, RuleOf(k) \in Keeping,
           TypeOf(k) = "array" <=> Trim(raw)[1] = "items"
    PROVE  Normalize(c, k, raw) = Accept(Trim(raw), Kept(k, Trim(raw)))
<1> DEFINE v == Trim(raw)
           N == Normalize(c, k, raw)
           R == Accept(v, Kept(k, v))
<1>1. CASE RuleOf(k) = "strict"
  <2>1. N = Accept(v, v[1] = "bool")
    <3>1. N = parse_bool_str(v) BY <1>1, Normalizers
    <3> HIDE DEF N, v
    <3> QED BY <1>1, <3>1 DEF parse_bool_str
  <2>2. Kept(k, v) <=> (v[1] = "bool") BY <1>1 DEF Kept
  <2> QED BY <2>1, <2>2 DEF Accept
<1>2. CASE RuleOf(k) = "natural"
  <2>1. N = Accept(v, AtLeast(v, 0)) BY <1>2, Normalizers
  <2>2. Kept(k, v) <=> (AtLeast(v, 0)) BY <1>2 DEF Kept
  <2> QED BY <2>1, <2>2 DEF Accept
<1>3. CASE RuleOf(k) = "length"
  <2>1. N = Accept(v, Between(v, 4, 8)) BY <1>3, Normalizers
  <2>2. Kept(k, v) <=> (Between(v, 4, 8)) BY <1>3 DEF Kept
  <2> QED BY <2>1, <2>2 DEF Accept
<1>4. CASE RuleOf(k) = "attempts"
  <2>1. N = Accept(v, Between(v, 1, 10)) BY <1>4, Normalizers
  <2>2. Kept(k, v) <=> (Between(v, 1, 10)) BY <1>4 DEF Kept
  <2> QED BY <2>1, <2>2 DEF Accept
<1>5. CASE RuleOf(k) = "positive"
  <2>1. N = Accept(v, AtLeast(v, 1))
    <3>1. N = normalize_interval_config_value(v) BY <1>5, Normalizers
    <3> HIDE DEF N, v
    <3> QED BY <1>5, <3>1 DEF normalize_interval_config_value
  <2>2. Kept(k, v) <=> (AtLeast(v, 1)) BY <1>5 DEF Kept
  <2> QED BY <2>1, <2>2 DEF Accept
<1>6. CASE RuleOf(k) = "preset"
  <2>1. N = Accept(v, v \in {Text("readable"), Text("balanced"), Text("hardened")})
    <3>1. N = parse_captcha_preset_selection(v) BY <1>6, Normalizers
    <3> HIDE DEF N, v
    <3> QED BY <1>6, <3>1 DEF parse_captcha_preset_selection
  <2>2. Kept(k, v) <=> (v \in {Text("readable"), Text("balanced"), Text("hardened")})
    BY <1>6 DEF Kept
  <2> QED BY <2>1, <2>2 DEF Accept
<1>7. CASE RuleOf(k) = "display"
  <2>1. N = Accept(v, v # Text("long"))
    <3>1. N = normalize_branding(k, v) BY <1>7, Normalizers
    <3> HIDE DEF N, v
    <3> QED BY <1>7, <3>1 DEF normalize_branding, RuleOf
  <2>2. Kept(k, v) <=> (v # Text("long")) BY <1>7 DEF Kept
  <2> QED BY <2>1, <2>2 DEF Accept
<1>8. CASE RuleOf(k) = "asset"
  <2>1. N = Accept(v, v = Blank \/ (v[1] = "text" /\ Valid(v[2])))
    <3>1. N = normalize_branding(k, v) BY <1>8, Normalizers
    <3> HIDE DEF N, v
    <3> QED BY <1>8, <3>1 DEF normalize_branding, RuleOf
  <2>2. Kept(k, v) <=> (v = Blank \/ (v[1] = "text" /\ Valid(v[2]))) BY <1>8 DEF Kept
  <2> QED BY <2>1, <2>2 DEF Accept
<1>9. CASE RuleOf(k) = "trimmed"
  <2>1. N = Accept(v, TRUE)
    <3>1. N = normalize_mail(k, v) BY <1>9, Normalizers
    <3> HIDE DEF N, v
    <3> QED BY <1>9, <3>1 DEF normalize_mail, RuleOf, Accept
  <2>2. Kept(k, v) <=> TRUE BY <1>9 DEF Kept
  <2> QED BY <2>1, <2>2 DEF Accept
<1>10. CASE RuleOf(k) = "port"
  <2>1. N = Accept(v, Between(v, 1, 65535))
    <3>1. N = normalize_mail(k, v) BY <1>10, Normalizers
    <3> HIDE DEF N, v
    <3> QED BY <1>10, <3>1 DEF normalize_mail, RuleOf
  <2>2. Kept(k, v) <=> (Between(v, 1, 65535)) BY <1>10 DEF Kept
  <2> QED BY <2>1, <2>2 DEF Accept
<1>11. CASE RuleOf(k) = "subject"
  <2>1. N = Accept(v, v # Text("two_lines"))
    <3>1. N = normalize_mail(k, v) BY <1>11, Normalizers
    <3> HIDE DEF N, v
    <3> QED BY <1>11, <3>1 DEF normalize_mail, RuleOf
  <2>2. Kept(k, v) <=> (v # Text("two_lines")) BY <1>11 DEF Kept
  <2> QED BY <2>1, <2>2 DEF Accept
<1>12. CASE RuleOf(k) = "body"
  <2>1. N = Accept(v, TRUE)
    <3>1. N = normalize_mail(k, v) BY <1>12, Normalizers
    <3> HIDE DEF N, v
    <3> QED BY <1>12, <3>1 DEF normalize_mail, RuleOf, Accept
  <2>2. Kept(k, v) <=> TRUE BY <1>12 DEF Kept
  <2> QED BY <2>1, <2>2 DEF Accept
<1>13. CASE RuleOf(k) = "profile"
  <2>1. N = Accept(v, v \in {Text("fast"), Text("default"), Text("quality")})
    <3>1. N = normalize_texture_preview_config_value(k, v) BY <1>13, Normalizers
    <3> HIDE DEF N, v
    <3> QED BY <1>13, <3>1 DEF normalize_texture_preview_config_value, RuleOf
  <2>2. Kept(k, v) <=> (v \in {Text("fast"), Text("default"), Text("quality")})
    BY <1>13 DEF Kept
  <2> QED BY <2>1, <2>2 DEF Accept
<1>14. CASE RuleOf(k) = "u32"
  <2>1. N = Accept(v, v[1] = "num" /\ v[2] > 0)
    <3>1. N = normalize_texture_preview_config_value(k, v) BY <1>14, Normalizers
    <3> HIDE DEF N, v
    <3> QED BY <1>14, <3>1 DEF normalize_texture_preview_config_value, RuleOf
  <2>2. Kept(k, v) <=> (v[1] = "num" /\ v[2] > 0) BY <1>14 DEF Kept
  <2> QED BY <2>1, <2>2 DEF Accept
<1>15. CASE RuleOf(k) = "supersampling"
  <2>1. N = Accept(v, Between(v, 1, 4))
    <3>1. N = normalize_texture_preview_config_value(k, v) BY <1>15, Normalizers
    <3> HIDE DEF N, v
    <3> QED BY <1>15, <3>1 DEF normalize_texture_preview_config_value, RuleOf
  <2>2. Kept(k, v) <=> (Between(v, 1, 4)) BY <1>15 DEF Kept
  <2> QED BY <2>1, <2>2 DEF Accept
<1>16. CASE RuleOf(k) = "float"
  <2>1. N = Accept(v, v[1] \in {"num", "real", "huge"})
    <3>1. N = normalize_texture_preview_config_value(k, v) BY <1>16, Normalizers
    <3> HIDE DEF N, v
    <3> QED BY <1>16, <3>1 DEF normalize_texture_preview_config_value, RuleOf
  <2>2. Kept(k, v) <=> (v[1] \in {"num", "real", "huge"}) BY <1>16 DEF Kept
  <2> QED BY <2>1, <2>2 DEF Accept
<1> QED
  BY <1>1, <1>2, <1>3, <1>4, <1>5, <1>6, <1>7, <1>8, <1>9, <1>10, <1>11, <1>12, <1>13, <1>14, <1>15, <1>16 DEF Keeping

\* Values one of these rules accepts are accepted again.
LEMMA KeptOnce ==
    ASSUME NEW c, NEW d, NEW k \in SystemKeys, NEW raw, IsValue(raw), RuleOf(k) \in Keeping,
           Normalize(c, k, raw) # Refused
    PROVE  LET N == Normalize(c, k, raw)
           IN IsBare(N) /\ Normalize(d, k, N) = N /\ Kept(k, N)
<1> DEFINE N == Normalize(c, k, raw)
<1>1. N = Accept(Trim(raw), Kept(k, Trim(raw)))
  BY RightShape, KeepingKeeps
<1>2. N = Trim(raw) /\ Kept(k, N) /\ IsBare(N) /\ Trim(N) = N
  BY <1>1, TrimIsBare DEF Accept
<1>3. Normalize(d, k, N) = Accept(N, Kept(k, N))
  <2>1. TypeOf(k) = "array" <=> Trim(N)[1] = "items" BY <1>2, RightShape
  <2> HIDE DEF N
  <2> QED BY <1>2, <2>1, KeepingKeeps
<1> QED BY <1>2, <1>3 DEF Accept

\* Values with types only are stored as they come.
LEMMA TypedOnce ==
    ASSUME NEW c, NEW d, NEW k \in SystemKeys, NEW raw, IsValue(raw), RuleOf(k) = "typed",
           Normalize(c, k, raw) # Refused
    PROVE  Normalize(c, k, raw) = raw /\ Normalize(d, k, raw) = raw /\ validate_value_type(k, Trim(raw))
<1>1. TypeOf(k) = "array" <=> Trim(raw)[1] = "items"
  BY RightShape
<1>2. \A x : Normalize(x, k, raw) = IF validate_value_type(k, Trim(raw)) THEN raw ELSE Refused
  BY <1>1, Normalizers
<1> QED BY <1>2

\* Booleans: another word is stored as a boolean.
LEMMA BoolOnce ==
    ASSUME NEW c, NEW d, NEW k \in SystemKeys, NEW raw, IsValue(raw), RuleOf(k) = "bool",
           Normalize(c, k, raw) # Refused
    PROVE  LET N == Normalize(c, k, raw) IN IsBare(N) /\ Normalize(d, k, N) = N /\ N[1] = "bool"
<1> DEFINE v == Trim(raw)
           N == Normalize(c, k, raw)
<1>1. TypeOf(k) # "array" /\ v[1] # "items"
  BY RightShape, ArrayRules
<1>2. N = ParseBoolLike(v)
  BY <1>1, Normalizers
<1>3. IsBare(v)
  BY TrimIsBare
<1> HIDE DEF v
<1>4. ParseBoolLike(v) # Refused => \E b \in BOOLEAN : ParseBoolLike(v) = <<"bool", b>>
  <2>1. CASE v[1] \in {"bool", "like"}
    <3>1. v[2] \in BOOLEAN BY <1>3, <2>1 DEF IsBare
    <3>2. ParseBoolLike(v) = <<"bool", v[2]>> BY <2>1 DEF ParseBoolLike, Bool, Num
    <3> QED BY <3>1, <3>2
  <2>2. CASE v = Num(0) BY <2>2 DEF ParseBoolLike, Bool, Num
  <2>3. CASE v = Num(1) BY <2>3 DEF ParseBoolLike, Bool, Num
  <2>4. CASE v[1] \notin {"bool", "like"} /\ v \notin {Num(0), Num(1)}
    BY <2>4 DEF ParseBoolLike
  <2> QED BY <2>1, <2>2, <2>3, <2>4
<1>5. PICK b \in BOOLEAN : N = <<"bool", b>>
  BY <1>2, <1>4
<1> HIDE DEF N
<1>6. IsBare(N) /\ Trim(N) = N /\ N[1] = "bool"
  BY <1>5, Forms, BareIsTrim
<1>7. Normalize(d, k, N) = ParseBoolLike(N)
  BY <1>1, <1>6, Normalizers
<1>8. ParseBoolLike(N) = N
  BY <1>5 DEF ParseBoolLike, Bool, Num
<1> QED BY <1>6, <1>7, <1>8 DEF N

\* URLs are stored in their canonical spelling.
UrlRules == {"gravatar", "optional_url", "required_url"}
Url(w) == IF w[1] = "text" /\ Valid(w[2]) THEN Text(Canonical[w[2]]) ELSE Refused
LEMMA UrlNormalizers ==
    ASSUME NEW c, NEW k \in SystemKeys, NEW raw, RuleOf(k) \in UrlRules,
           TypeOf(k) = "array" <=> Trim(raw)[1] = "items"
    PROVE  LET v == Trim(raw) N == Normalize(c, k, raw) IN
           /\ v # Blank => N = Url(v)
           /\ v = Blank => N \in {Blank, Refused}
           /\ v = Blank /\ RuleOf(k) # "required_url" => N = Blank
           /\ v = Blank /\ RuleOf(k) = "required_url" => N = Refused
<1> DEFINE v == Trim(raw)
           N == Normalize(c, k, raw)
<1>1. /\ RuleOf(k) = "gravatar" => N = normalize_gravatar_base_url(v)
      /\ RuleOf(k) \in {"optional_url", "required_url"} => N = normalize_yggdrasil_config_value(k, v)
  BY Normalizers
<1> HIDE DEF v, N
<1>2. Blank[1] # "text" /\ Blank # Refused
  BY Forms, BareIsTrim
<1>3. CASE RuleOf(k) = "gravatar"
  BY <1>1, <1>2, <1>3 DEF normalize_gravatar_base_url, Url, v, N
<1>4. CASE RuleOf(k) \in {"optional_url", "required_url"}
  <2>1. CONFIG_REGISTRY[k].rule \notin {"origins", "items", "positive"} BY <1>4 DEF RuleOf
  <2>2. N = IF v = Blank THEN Accept(v, RuleOf(k) = "optional_url") ELSE Url(v)
    BY <1>1, <1>2, <1>4, <2>1 DEF normalize_yggdrasil_config_value, Url, RuleOf
  <2> QED BY <1>2, <1>4, <2>2 DEF Accept, v, N
<1> QED BY <1>3, <1>4 DEF UrlRules
LEMMA UrlOnce ==
    ASSUME NEW c, NEW d, NEW k \in SystemKeys, NEW raw, IsValue(raw), RuleOf(k) \in UrlRules,
           Normalize(c, k, raw) # Refused
    PROVE  LET N == Normalize(c, k, raw) IN IsBare(N) /\ Normalize(d, k, N) = N
<1> DEFINE v == Trim(raw)
           N == Normalize(c, k, raw)
<1>1. TypeOf(k) # "array" /\ v[1] # "items"
  BY RightShape, ArrayRules DEF UrlRules
<1>2. CASE v = Blank
  <2>1. N = Blank /\ RuleOf(k) # "required_url" BY <1>1, <1>2, UrlNormalizers
  <2>2. Trim(Blank) = Blank /\ IsBare(Blank) /\ Blank[1] # "items" BY Forms, BareIsTrim
  <2>3. Normalize(d, k, Blank) = Blank BY <1>1, <2>1, <2>2, UrlNormalizers
  <2> QED BY <2>1, <2>2, <2>3
<1>3. CASE v # Blank
  <2>1. N = Url(v) BY <1>1, <1>3, UrlNormalizers
  <2> HIDE DEF v, N
  <2>2. N # Refused BY DEF N
  <2>3. Valid(v[2]) /\ N = Text(Canonical[v[2]]) BY <2>1, <2>2 DEF Url
  <2>4. IsBare(N) /\ Trim(N) = N BY <2>3, Forms, BareIsTrim
  <2>5. N[1] = "text" /\ N[2] = Canonical[v[2]] BY <2>3 DEF Text
  <2>6. N # Blank BY <2>5, Forms
  <2>7. Url(N) = N BY <2>3, <2>5, CanonicalIsFixed DEF Url
  <2>8. Normalize(d, k, N) = Url(N) BY <1>1, <2>4, <2>5, <2>6, UrlNormalizers
  <2> QED BY <2>4, <2>7, <2>8 DEF N
<1> QED BY <1>2, <1>3

\* The engine and the background of previews have several spellings.
LEMMA SpellingOnce ==
    ASSUME NEW c, NEW d, NEW k \in SystemKeys, NEW raw, IsValue(raw), RuleOf(k) \in {"engine", "background"},
           Normalize(c, k, raw) # Refused
    PROVE  LET N == Normalize(c, k, raw) IN IsBare(N) /\ Normalize(d, k, N) = N
<1> DEFINE v == Trim(raw)
           N == Normalize(c, k, raw)
           P(w) == normalize_texture_preview_config_value(k, w)
<1>1. TypeOf(k) # "array" /\ v[1] # "items"
  BY RightShape, ArrayRules
<1>2. N = P(v)
  BY <1>1, Normalizers
<1> HIDE DEF v
<1>5. \A w : RuleOf(k) \in {"engine", "background"} => IsBare(Text(w)) /\ Normalize(d, k, Text(w)) = P(Text(w))
  <2> SUFFICES ASSUME NEW w, RuleOf(k) \in {"engine", "background"}
               PROVE  IsBare(Text(w)) /\ Normalize(d, k, Text(w)) = P(Text(w))
    OBVIOUS
  <2>1. IsBare(Text(w)) /\ Trim(Text(w)) = Text(w) BY Forms, BareIsTrim
  <2>2. Trim(Text(w))[1] # "items" BY <2>1 DEF Text
  <2>3. Normalize(d, k, Text(w)) = normalize_texture_preview_config_value(k, Trim(Text(w)))
    BY <1>1, <2>2, Normalizers
  <2> QED BY <2>1, <2>3
<1>3. CASE RuleOf(k) = "engine"
  <2>1. P(v) \in {Text("skin-3d"), Text("skin-2d"), Refused}
    BY <1>3 DEF normalize_texture_preview_config_value, RuleOf, Text
  <2>2. P(Text("skin-3d")) = Text("skin-3d") /\ P(Text("skin-2d")) = Text("skin-2d")
    BY <1>3 DEF normalize_texture_preview_config_value, RuleOf, Text
  <2>3. N \in {Text("skin-3d"), Text("skin-2d")} BY <1>2, <2>1
  <2> QED BY <1>5, <2>2, <2>3, <1>3
<1>4. CASE RuleOf(k) = "background"
  <2>1. P(v) \in {Text("transparent"), Text("#ffffffff"), Refused}
    BY <1>4 DEF normalize_texture_preview_config_value, parse_background, RuleOf, Text
  <2>2. P(Text("transparent")) = Text("transparent") /\ P(Text("#ffffffff")) = Text("#ffffffff")
    BY <1>4 DEF normalize_texture_preview_config_value, parse_background, RuleOf, Text
  <2>3. N \in {Text("transparent"), Text("#ffffffff")} BY <1>2, <2>1
  <2> QED BY <1>5, <2>2, <2>3, <1>4
<1> QED BY <1>3, <1>4

\* A list is Items of a list.
LEMMA ListForm ==
    ASSUME NEW s, IsList(s)
    PROVE  LET v == Items(s) IN IsBare(v) /\ Trim(v) = v /\ v[1] = "items" /\ v[2] = s /\ v # Refused
<1>1. IsBare(Items(s))
  BY Forms
<1>2. Items(s)[1] = "items" /\ Items(s)[2] = s
  BY DEF Items
<1> QED BY <1>1, <1>2, BareIsTrim

\* Lists are stored with canonical entries, none twice.
LEMMA ItemsOnce ==
    ASSUME NEW c, NEW d, NEW k \in SystemKeys, NEW raw, IsValue(raw), RuleOf(k) \in {"items", "origins"},
           k \notin EmailLists, Normalize(c, k, raw) # Refused
    PROVE  LET N == Normalize(c, k, raw)
           IN IsBare(N) /\ Normalize(d, k, N) = N /\ N[1] = "items" /\ Items(Deduped(N[2])) = N
<1> DEFINE v == Trim(raw)
           N == Normalize(c, k, raw)
           s == Deduped(v[2])
<1>1. TypeOf(k) = "array" /\ v[1] = "items"
  BY RightShape, ArrayRules
<1>2. N = NormalItems(v)
  BY <1>1, Normalizers
<1>3. IsList(v[2])
  BY <1>1, TrimIsBare, BareIsTrim
<1>4. N = Items(s)
  BY <1>2 DEF NormalItems
<1>5. Tidy(s) /\ IsList(s)
  BY <1>3, DedupedIsTidy DEF Tidy
<1> HIDE DEF s, v, N
<1>6. IsBare(N) /\ Trim(N) = N /\ N[1] = "items" /\ N[2] = s
  BY <1>4, <1>5, ListForm
<1>7. NormalItems(N) = Items(Deduped(s))
  <2>1. \A i \in DOMAIN s : Valid(s[i]) BY <1>5 DEF Tidy
  <2> QED BY <1>6, <2>1 DEF NormalItems
<1>8. Deduped(s) = s
  BY <1>5, TidyStays
<1>9. Normalize(d, k, N) = NormalItems(N)
  BY <1>1, <1>6, Normalizers
<1> QED BY <1>4, <1>6, <1>7, <1>8, <1>9 DEF N

\* The lists of e-mail hosts are stored sorted.
LEMMA EmailOnce ==
    ASSUME NEW c, NEW d, NEW k \in EmailLists, NEW raw, IsValue(raw), Normalize(c, k, raw) # Refused
    PROVE  LET N == Normalize(c, k, raw) IN IsBare(N) /\ Normalize(d, k, N) = N
<1> DEFINE v == Trim(raw)
           N == Normalize(c, k, raw)
           P(w) == {i \in DOMAIN Sorted : \E j \in DOMAIN w[2] : Canonical[w[2][j]] = Sorted[i]}
           e == Entries(Sorted, P(v))
<1>0. k \in SystemKeys /\ RuleOf(k) = "items"
  BY SpecialKeys
<1>1. TypeOf(k) = "array" /\ v[1] = "items"
  BY <1>0, RightShape, ArrayRules
<1>2. N = normalize_local_email_policy(v)
  BY <1>0, <1>1, Normalizers
<1>4. N = Items(e)
  BY <1>2 DEF normalize_local_email_policy
<1>5. /\ IsList(e)
      /\ \A n \in DOMAIN e : e[n] \in {Sorted[i] : i \in P(v)}
      /\ \A i \in P(v) : \E n \in DOMAIN e : e[n] = Sorted[i]
  <2> DEFINE R == P(v)
  <2>1. R \in SUBSET DOMAIN Sorted OBVIOUS
  <2> HIDE DEF R
  <2>2. LET f == Entries(Sorted, R) IN
        /\ IsList(f) /\ \A n \in DOMAIN f : f[n] \in {Sorted[i] : i \in R}
        /\ \A i \in R : \E n \in DOMAIN f : f[n] = Sorted[i]
    BY <2>1, EntriesOf, SortedShape
  <2> QED BY <2>2 DEF R
<1> DEFINE Q == P(v)
<1> HIDE DEF e, N, Q
<1>6. IsBare(N) /\ Trim(N) = N /\ N[1] = "items" /\ N[2] = e
  BY <1>4, <1>5, ListForm
<1>7. \A n \in DOMAIN e : Valid(e[n]) /\ Canonical[e[n]] = e[n]
  BY <1>5, SortedShape
<1>8. P(N) = Q
  <2>1. P(N) = {i \in DOMAIN Sorted : \E j \in DOMAIN e : e[j] = Sorted[i]} BY <1>6, <1>7
  <2>2. Q \subseteq DOMAIN Sorted BY DEF Q
  <2>3. ASSUME NEW i \in DOMAIN Sorted, NEW j \in DOMAIN e, e[j] = Sorted[i] PROVE i \in Q
    <3>1. PICK m \in Q : e[j] = Sorted[m] BY <1>5 DEF Q
    <3> QED BY <2>2, <2>3, <3>1, SortedShape
  <2>4. \A i \in Q : \E n \in DOMAIN e : e[n] = Sorted[i] BY <1>5 DEF Q
  <2> HIDE DEF P
  <2> QED BY <2>1, <2>2, <2>3, <2>4
<1>9. normalize_local_email_policy(N) = Items(Entries(Sorted, P(N)))
  <2>1. \A i \in DOMAIN e : Valid(e[i]) BY <1>7
  <2>2. NormalItems(N) = Items(Deduped(e)) /\ Items(Deduped(e)) # Refused
    <3>1. NormalItems(N) = Items(Deduped(e)) BY <1>6, <2>1 DEF NormalItems
    <3>2. Items(Deduped(e))[1] = "items" /\ Refused[1] = "refused" BY DEF Items, Refused
    <3> QED BY <3>1, <3>2
  <2> QED BY <2>2 DEF normalize_local_email_policy
<1>10. normalize_local_email_policy(N) = N
  BY <1>4, <1>8, <1>9 DEF e, Q
<1>11. Normalize(d, k, N) = normalize_local_email_policy(N)
  BY <1>0, <1>1, <1>6, Normalizers
<1> QED BY <1>6, <1>10, <1>11 DEF N

\* The actions to record are stored in the order the program knows them.
LEMMA ActionsOnce ==
    ASSUME NEW c, NEW d, NEW k \in SystemKeys, NEW raw, IsValue(raw), RuleOf(k) = "actions",
           Normalize(c, k, raw) # Refused
    PROVE  LET N == Normalize(c, k, raw) IN IsBare(N) /\ Normalize(d, k, N) = N
<1> DEFINE v == Trim(raw)
           N == Normalize(c, k, raw)
           P(w) == {i \in DOMAIN AuditActions : AuditActions[i] \in parse_recorded_actions(w)}
           e == Entries(AuditActions, P(v))
<1>1. TypeOf(k) = "array" /\ v[1] = "items"
  BY RightShape, ArrayRules
<1>2. N = normalize_recorded_actions(v)
  BY <1>1, Normalizers
<1>4. N = Items(e)
  BY <1>2 DEF normalize_recorded_actions
<1>5. /\ IsList(e)
      /\ \A n \in DOMAIN e : e[n] \in {AuditActions[i] : i \in P(v)}
      /\ \A i \in P(v) : \E n \in DOMAIN e : e[n] = AuditActions[i]
      /\ \A m, n \in DOMAIN e : e[m] = e[n] => m = n
  BY EntriesOf, SortedShape
<1> DEFINE Q == P(v)
<1> HIDE DEF e, N, Q
<1>6. IsBare(N) /\ Trim(N) = N /\ N[1] = "items" /\ N[2] = e
  BY <1>4, <1>5, ListForm
<1>7. Q \subseteq DOMAIN AuditActions
  BY DEF Q
<1>8. parse_recorded_actions(N) = {AuditActions[i] : i \in Q}
  <2>1. \A n \in DOMAIN e : \E a \in DOMAIN AuditActions : AuditActions[a] = e[n]
    BY <1>5, <1>7 DEF Q
  <2>2. parse_recorded_actions(N) = {e[n] : n \in DOMAIN e}
    BY <1>5, <1>6, <2>1 DEF parse_recorded_actions
  <2>3. {e[n] : n \in DOMAIN e} = {AuditActions[i] : i \in Q} BY <1>5 DEF Q
  <2> QED BY <2>2, <2>3
<1>9. {AuditActions[i] : i \in Q} # {"invalid"}
  <2>1. \A i \in DOMAIN AuditActions : AuditActions[i] # "invalid" BY DEF AuditActions
  <2> QED BY <1>7, <2>1
<1>10. P(N) = Q
  <2>1. \A i, j \in DOMAIN AuditActions : AuditActions[i] = AuditActions[j] => i = j
    BY SortedShape
  <2> QED BY <1>7, <1>8, <2>1
<1>11. normalize_recorded_actions(N) = N
  BY <1>4, <1>8, <1>9, <1>10 DEF e, Q, normalize_recorded_actions
<1>12. Normalize(d, k, N) = normalize_recorded_actions(N)
  BY <1>1, <1>6, Normalizers
<1> QED BY <1>6, <1>11, <1>12 DEF N

\* What is accepted for the keys of cross-origin requests is a value too.
LEMMA CorsValues ==
    ASSUME NEW c, NEW k \in SystemKeys, NEW raw, IsValue(raw), RuleOf(k) \in CorsRules,
           Normalize(c, k, raw) # Refused
    PROVE  IsBare(Normalize(c, k, raw))
<1> DEFINE v == Trim(raw)
<1>1. TypeOf(k) # "array" /\ v[1] # "items" /\ IsBare(v)
  BY RightShape, ArrayRules, TrimIsBare DEF CorsRules
<1>2. \A w : parse_allowed_origins_value(w) \in {Refused, parse_allowed_origins_value(w)} OBVIOUS
<1>3. \A w : parse_allowed_origins_value(w) = Refused \/ \E S : parse_allowed_origins_value(w) = List(S)
  BY DEF parse_allowed_origins_value
<1>4. CASE RuleOf(k) = "cors_origins"
  <2>1. Normalize(c, k, raw) = normalize_cors_allowed_origins(c, v)
    BY <1>1, <1>4, Normalizers
  <2>2. normalize_cors_allowed_origins(c, v) \in {Refused, Blank, parse_allowed_origins_value(v)}
    BY DEF normalize_cors_allowed_origins
  <2> QED BY <1>3, <2>1, <2>2, Forms
<1>5. CASE RuleOf(k) = "cors_credentials"
  <2>1. Normalize(c, k, raw) = normalize_cors_allow_credentials(c, v)
    BY <1>1, <1>5, Normalizers
  <2>2. normalize_cors_allow_credentials(c, v) \in {Refused, v}
    BY DEF normalize_cors_allow_credentials, parse_bool_str, Accept
  <2> QED BY <1>1, <2>1, <2>2
<1> QED BY <1>4, <1>5 DEF CorsRules

\* What the administration API stored it would store again unchanged, whatever else is configured.
LEMMA StoredOnce ==
    ASSUME NEW c, NEW k \in SystemKeys, NEW raw, IsValue(raw), Normalize(c, k, raw) # Refused
    PROVE  LET N == Normalize(c, k, raw)
           IN IsValue(N) /\ (RuleOf(k) \notin CorsRules => \A d : Normalize(d, k, N) = N)
<1>1. RuleOf(k) \in Rules
  BY ArrayRules
<1>2. CASE RuleOf(k) \in Keeping
  BY <1>2, KeptOnce, BareIsTrim DEF Keeping, CorsRules
<1>3. CASE RuleOf(k) = "typed"
  BY <1>3, TypedOnce
<1>4. CASE RuleOf(k) = "bool"
  BY <1>4, BoolOnce, BareIsTrim
<1>5. CASE RuleOf(k) \in UrlRules
  BY <1>5, UrlOnce, BareIsTrim
<1>6. CASE RuleOf(k) \in {"engine", "background"}
  BY <1>6, SpellingOnce, BareIsTrim
<1>7. CASE RuleOf(k) \in {"items", "origins"} /\ k \notin EmailLists
  BY <1>7, ItemsOnce, BareIsTrim
<1>8. CASE k \in EmailLists
  BY <1>8, EmailOnce, BareIsTrim
<1>9. CASE RuleOf(k) = "actions"
  BY <1>9, ActionsOnce, BareIsTrim
<1>10. CASE RuleOf(k) \in CorsRules
  BY <1>10, CorsValues, BareIsTrim
<1> QED BY <1>1, <1>2, <1>3, <1>4, <1>5, <1>6, <1>7, <1>8, <1>9, <1>10 DEF Rules, Keeping, UrlRules, CorsRules

----------------------------------------------------------------------------
(* The policies: what is read of each key                                  *)

\* Keys that are read alone, and keys that are not read as one value.
OwnReaders ==
    {"auth_user_invitation_ttl_secs", "audit_log_retention_days", "audit_log_enabled", "task_retention_hours",
     "background_task_max_attempts", "gravatar_base_url", "public_site_url", "cors_enabled"}
ReadTogether ==
    {"auth_local_email_allowlist", "auth_local_email_blocklist", "audit_log_recorded_actions", "cors_allowed_origins",
     "cors_allow_credentials", "cors_max_age_secs", "yggdrasil_skin_domains", "yggdrasil_public_base_url",
     "yggdrasil_texture_public_base_url"}

\* Every key has one reader.
LEMMA Readers ==
    ASSUME NEW c, NEW k
    PROVE  /\ k = "auth_user_invitation_ttl_secs" => Effective(c, k) = user_invitation_ttl_secs(c)
           /\ k = "audit_log_retention_days" => Effective(c, k) = RetentionDays(c)
           /\ k = "audit_log_enabled" => Effective(c, k) = AuditSettings(c).enabled
           /\ k = "task_retention_hours" => Effective(c, k) = load_task_retention_hours(c)
           /\ k = "background_task_max_attempts" => Effective(c, k) = background_task_max_attempts(c)
           /\ k = "gravatar_base_url" => Effective(c, k) = gravatar_base_url_or_default(c)
           /\ k = "public_site_url" => Effective(c, k) = Items(public_site_urls(c))
           /\ k = "cors_enabled" => Effective(c, k) = runtime_cors_policy(c).cors_enabled
           /\ k \in CaptchaKeys => Effective(c, k) = RuntimeCaptchaPolicy(c, <<>>)[k]
           /\ k \in DOMAIN MailDefs => Effective(c, k) = runtime_mail_settings(c)[k]
           /\ k \in TemplateKeys => Effective(c, k) = MailTemplates(c)[k]
           /\ k \in BrandingKeys => Effective(c, k) = Branding(c)[k]
           /\ k \in LibraryKeys => Effective(c, k) = RuntimeTextureLibraryPolicy(c)[k]
           /\ k \in PreviewKeys => Effective(c, k) = RuntimeTexturePreviewPolicy(c)[k]
           /\ k \in OperationKeys => Effective(c, k) = Operations(c)[k]
           /\ k \in YggdrasilKeys => Effective(c, k) = RuntimeYggdrasilPolicy(c)[k]
           /\ k \in AuthKeys => Effective(c, k) = RuntimeAuthPolicy(c)[k]
           /\ k \in ContactKeys => Effective(c, k) = RuntimeContactVerificationPolicy(c)[k]
           /\ k \in EmailCodeKeys => Effective(c, k) = RuntimeEmailCodeLoginPolicy(c)[k]
           /\ k \in ReadTogether => Effective(c, k) = Missing
<1> USE DEF OwnReaders, CaptchaKeys, TemplateKeys, BrandingKeys, LibraryKeys, PreviewKeys, OperationKeys, YggdrasilKeys,
           AuthKeys, ContactKeys, EmailCodeKeys, ReadTogether, SiteDefs, SessionDefs, LoginDefs, CaptchaDefs, MailLoginDefs,
           NetworkDefs, MailDefs, AccountTemplateDefs, OtherTemplateDefs, YggdrasilDefs, SigningDefs, PreviewDefs,
           PreviewViewDefs, OperationDefs
<1>1. \A x \in CaptchaKeys :
       x \notin DOMAIN MailDefs \cup TemplateKeys \cup BrandingKeys \cup LibraryKeys \cup PreviewKeys \cup
                 OperationKeys \cup YggdrasilKeys \cup AuthKeys \cup ContactKeys \cup EmailCodeKeys \cup OwnReaders
  BY SMT
<1>2. \A x \in DOMAIN MailDefs :
       x \notin TemplateKeys \cup BrandingKeys \cup LibraryKeys \cup PreviewKeys \cup OperationKeys \cup
                 YggdrasilKeys \cup AuthKeys \cup ContactKeys \cup EmailCodeKeys \cup OwnReaders
  BY SMT
<1>3. \A x \in TemplateKeys :
       x \notin BrandingKeys \cup LibraryKeys \cup PreviewKeys \cup OperationKeys \cup YggdrasilKeys \cup
                 AuthKeys \cup ContactKeys \cup EmailCodeKeys \cup OwnReaders
  BY SMT
<1>4. \A x \in BrandingKeys :
       x \notin LibraryKeys \cup PreviewKeys \cup OperationKeys \cup YggdrasilKeys \cup AuthKeys \cup
                 ContactKeys \cup EmailCodeKeys \cup OwnReaders
  BY SMT
<1>5. \A x \in LibraryKeys :
       x \notin PreviewKeys \cup OperationKeys \cup YggdrasilKeys \cup AuthKeys \cup ContactKeys \cup
                 EmailCodeKeys \cup OwnReaders
  BY SMT
<1>6. \A x \in PreviewKeys :
       x \notin OperationKeys \cup YggdrasilKeys \cup AuthKeys \cup ContactKeys \cup EmailCodeKeys \cup OwnReaders
  BY SMT
<1>7. \A x \in OperationKeys :
       x \notin YggdrasilKeys \cup AuthKeys \cup ContactKeys \cup EmailCodeKeys \cup OwnReaders
  BY SMT
<1>8. \A x \in YggdrasilKeys :
       x \notin AuthKeys \cup ContactKeys \cup EmailCodeKeys \cup OwnReaders
  BY SMT
<1>9. \A x \in AuthKeys :
       x \notin ContactKeys \cup EmailCodeKeys \cup OwnReaders
  BY SMT
<1>10. \A x \in ContactKeys :
       x \notin EmailCodeKeys \cup OwnReaders
  BY SMT
<1>11. \A x \in EmailCodeKeys :
       x \notin OwnReaders
  BY SMT
<1>12. \A x \in ReadTogether :
       x \notin OwnReaders \cup CaptchaKeys \cup DOMAIN MailDefs \cup TemplateKeys \cup BrandingKeys \cup
                 LibraryKeys \cup PreviewKeys \cup OperationKeys \cup YggdrasilKeys \cup AuthKeys \cup
                 ContactKeys \cup EmailCodeKeys
  BY SMT
<1> HIDE DEF OwnReaders, CaptchaKeys, TemplateKeys, BrandingKeys, LibraryKeys, PreviewKeys, OperationKeys, YggdrasilKeys,
           AuthKeys, ContactKeys, EmailCodeKeys, ReadTogether, SiteDefs, SessionDefs, LoginDefs, CaptchaDefs, MailLoginDefs,
           NetworkDefs, MailDefs, AccountTemplateDefs, OtherTemplateDefs, YggdrasilDefs, SigningDefs, PreviewDefs,
           PreviewViewDefs, OperationDefs
<1> USE <1>1, <1>2, <1>3, <1>4, <1>5, <1>6, <1>7, <1>8, <1>9, <1>10, <1>11 DEF Effective, OwnReaders
<1>13. k = "auth_user_invitation_ttl_secs" => Effective(c, k) = user_invitation_ttl_secs(c)
  OBVIOUS
<1>14. k = "audit_log_retention_days" => Effective(c, k) = RetentionDays(c) OBVIOUS
<1>15. k = "audit_log_enabled" => Effective(c, k) = AuditSettings(c).enabled OBVIOUS
<1>16. k = "task_retention_hours" => Effective(c, k) = load_task_retention_hours(c) OBVIOUS
<1>17. k = "background_task_max_attempts" => Effective(c, k) = background_task_max_attempts(c)
  OBVIOUS
<1>18. k = "gravatar_base_url" => Effective(c, k) = gravatar_base_url_or_default(c) OBVIOUS
<1>19. k = "public_site_url" => Effective(c, k) = Items(public_site_urls(c)) OBVIOUS
<1>20. k = "cors_enabled" => Effective(c, k) = runtime_cors_policy(c).cors_enabled OBVIOUS
<1>21. k \in CaptchaKeys => Effective(c, k) = RuntimeCaptchaPolicy(c, <<>>)[k] OBVIOUS
<1>22. k \in DOMAIN MailDefs => Effective(c, k) = runtime_mail_settings(c)[k] OBVIOUS
<1>23. k \in TemplateKeys => Effective(c, k) = MailTemplates(c)[k] OBVIOUS
<1>24. k \in BrandingKeys => Effective(c, k) = Branding(c)[k] OBVIOUS
<1>25. k \in LibraryKeys => Effective(c, k) = RuntimeTextureLibraryPolicy(c)[k] OBVIOUS
<1>26. k \in PreviewKeys => Effective(c, k) = RuntimeTexturePreviewPolicy(c)[k] OBVIOUS
<1>27. k \in OperationKeys => Effective(c, k) = Operations(c)[k] OBVIOUS
<1>28. k \in YggdrasilKeys => Effective(c, k) = RuntimeYggdrasilPolicy(c)[k] OBVIOUS
<1>29. k \in AuthKeys => Effective(c, k) = RuntimeAuthPolicy(c)[k] OBVIOUS
<1>30. k \in ContactKeys => Effective(c, k) = RuntimeContactVerificationPolicy(c)[k] OBVIOUS
<1>31. k \in EmailCodeKeys => Effective(c, k) = RuntimeEmailCodeLoginPolicy(c)[k] OBVIOUS
<1>32. k \in ReadTogether => Effective(c, k) = Missing
  BY <1>12 DEF Effective, OwnReaders
<1> QED
  BY <1>13, <1>14, <1>15, <1>16, <1>17, <1>18, <1>19, <1>20, <1>21, <1>22, <1>23, <1>24, <1>25, <1>26, <1>27, <1>28, <1>29, <1>30, <1>31, <1>32

CaptchaChoices == {"auth_captcha_preset", "auth_captcha_length", "auth_captcha_max_attempts"}
PreviewRules == {"engine", "profile", "background", "bool", "u32", "float"}

\* The rules of the keys, by who reads them.
LEMMA KeyRules ==
    ASSUME NEW k \in SystemKeys
    PROVE  /\ k \in AuthKeys \cup EmailCodeKeys => RuleOf(k) \in {"bool", "positive"}
           /\ k \in ContactKeys \cup OperationKeys => RuleOf(k) = "positive"
           /\ k \in {"auth_user_invitation_ttl_secs", "task_retention_hours", "background_task_max_attempts"} =>
                RuleOf(k) = "positive"
           /\ k \in LibraryKeys => RuleOf(k) = "bool"
           /\ k \in CaptchaKeys =>
                \/ k = "auth_captcha_preset" /\ RuleOf(k) = "preset"
                \/ k = "auth_captcha_length" /\ RuleOf(k) = "length"
                \/ k = "auth_captcha_max_attempts" /\ RuleOf(k) = "attempts"
                \/ k \notin CaptchaChoices /\ RuleOf(k) \in {"bool", "positive"}
           /\ k \in DOMAIN MailDefs =>
                \/ k = "mail_smtp_port" /\ RuleOf(k) = "port"
                \/ k = "mail_security" /\ RuleOf(k) = "bool"
                \/ k \notin {"mail_smtp_port", "mail_security"} /\ RuleOf(k) \in {"trimmed", "typed"}
           /\ k \in TemplateKeys => RuleOf(k) \in {"subject", "body"}
           /\ k \in BrandingKeys => RuleOf(k) \in {"display", "asset"}
           /\ k \in PreviewKeys =>
                IF k = "texture_preview_3d_supersampling" THEN RuleOf(k) = "supersampling" ELSE RuleOf(k) \in PreviewRules
           /\ k \in YggdrasilKeys =>
                \/ TypeOf(k) = "string" /\ RuleOf(k) \in {"typed", "required_url"}
                \/ TypeOf(k) = "bool" /\ RuleOf(k) = "typed"
                \/ TypeOf(k) = "number" /\ RuleOf(k) = "positive"
           /\ k = "gravatar_base_url" => RuleOf(k) = "gravatar"
           /\ k = "public_site_url" => RuleOf(k) = "origins"
           /\ k = "cors_enabled" => RuleOf(k) = "strict"
           /\ k \in {"audit_log_enabled", "audit_log_retention_days"} => RuleOf(k) = "typed"
           /\ k = "audit_log_enabled" => TypeOf(k) = "bool"
           /\ RuleOf(k) \in CorsRules => k \in Combined
           /\ \/ k \in OwnReaders \cup ReadTogether \cup CaptchaKeys \cup DOMAIN MailDefs \cup TemplateKeys
              \/ k \in BrandingKeys \cup LibraryKeys \cup PreviewKeys \cup OperationKeys \cup YggdrasilKeys
              \/ k \in AuthKeys \cup ContactKeys \cup EmailCodeKeys
<1> DEFINE r(g) == g[k].rule
<1>1. k \in DOMAIN SiteDefs =>
        /\ k \in BrandingKeys \cup {"public_site_url"}
        /\ IF k = "public_site_url" THEN r(SiteDefs) = "origins" ELSE r(SiteDefs) \in {"display", "asset"}
  BY SMT DEF BrandingKeys, SiteDefs, Def, Bool
<1>2. k \in DOMAIN SessionDefs =>
        /\ k \in AuthKeys \cup ContactKeys \cup {"auth_user_invitation_ttl_secs"} /\ r(SessionDefs) \in {"bool", "positive"}
        /\ k \in ContactKeys \cup {"auth_user_invitation_ttl_secs"} => r(SessionDefs) = "positive"
  BY SMT DEF AuthKeys, ContactKeys, SessionDefs, Def, Bool
<1>3. k \in DOMAIN LoginDefs =>
        /\ k \in AuthKeys \cup ContactKeys \cup EmailCodeKeys /\ r(LoginDefs) \in {"bool", "positive"}
        /\ k \in ContactKeys => r(LoginDefs) = "positive"
  BY SMT DEF AuthKeys, ContactKeys, EmailCodeKeys, LoginDefs, Def, Bool
<1>4. k \in DOMAIN CaptchaDefs =>
        /\ k \in CaptchaKeys
        /\ \/ k = "auth_captcha_preset" /\ r(CaptchaDefs) = "preset"
           \/ k = "auth_captcha_length" /\ r(CaptchaDefs) = "length"
           \/ k = "auth_captcha_max_attempts" /\ r(CaptchaDefs) = "attempts"
           \/ k \notin CaptchaChoices /\ r(CaptchaDefs) \in {"bool", "positive"}
  BY SMT DEF CaptchaChoices, CaptchaKeys, CaptchaDefs, Def, Bool
<1>5. k \in DOMAIN MailLoginDefs =>
        /\ k \in EmailCodeKeys \cup EmailLists \cup {"gravatar_base_url"}
        /\ k \in EmailCodeKeys => r(MailLoginDefs) \in {"bool", "positive"}
        /\ k \in EmailLists => r(MailLoginDefs) = "items" /\ k \in ReadTogether
        /\ k = "gravatar_base_url" => r(MailLoginDefs) = "gravatar"
  BY SMT DEF EmailCodeKeys, EmailLists, ReadTogether, MailLoginDefs, Def, Bool
<1>6. k \in DOMAIN NetworkDefs =>
        /\ k \in OwnReaders \cup ReadTogether
        /\ k = "cors_enabled" => r(NetworkDefs) = "strict"
        /\ k = "audit_log_enabled" => r(NetworkDefs) = "typed" /\ NetworkDefs[k].type = "bool"
        /\ k = "audit_log_retention_days" => r(NetworkDefs) = "typed"
        /\ r(NetworkDefs) \in CorsRules => k \in Combined
  BY SMT DEF OwnReaders, ReadTogether, CorsRules, Combined, NetworkDefs, Def, Bool
<1>7. k \in DOMAIN MailDefs =>
        /\ \/ k = "mail_smtp_port" /\ r(MailDefs) = "port"
           \/ k = "mail_security" /\ r(MailDefs) = "bool"
           \/ k \notin {"mail_smtp_port", "mail_security"} /\ r(MailDefs) \in {"trimmed", "typed"}
  BY SMT DEF MailDefs, Def, Bool
<1>8. k \in DOMAIN AccountTemplateDefs =>
        /\ r(AccountTemplateDefs) \in {"subject", "body"}
  BY SMT DEF AccountTemplateDefs, Def, Bool
<1>9. k \in DOMAIN OtherTemplateDefs =>
        /\ r(OtherTemplateDefs) \in {"subject", "body"}
  BY SMT DEF OtherTemplateDefs, Def, Bool
<1>10. k \in DOMAIN YggdrasilDefs =>
        /\ k \in YggdrasilKeys
        /\ \/ YggdrasilDefs[k].type = "string" /\ r(YggdrasilDefs) \in {"typed", "required_url"}
           \/ YggdrasilDefs[k].type = "bool" /\ r(YggdrasilDefs) = "typed"
           \/ YggdrasilDefs[k].type = "number" /\ r(YggdrasilDefs) = "positive"
  BY SMT DEF YggdrasilKeys, YggdrasilDefs, Def, Bool
<1>11. k \in DOMAIN SigningDefs =>
        /\ k \in YggdrasilKeys \cup ReadTogether /\ r(SigningDefs) \notin CorsRules
        /\ \/ k \in ReadTogether
           \/ SigningDefs[k].type = "string" /\ r(SigningDefs) \in {"typed", "required_url"}
           \/ SigningDefs[k].type = "bool" /\ r(SigningDefs) = "typed"
           \/ SigningDefs[k].type = "number" /\ r(SigningDefs) = "positive"
  BY SMT DEF YggdrasilKeys, YggdrasilDefs, ReadTogether, CorsRules, SigningDefs, Def, Bool
<1>12. k \in DOMAIN PreviewDefs =>
        /\ k \in LibraryKeys \cup PreviewKeys /\ k # "texture_preview_3d_supersampling" /\ r(PreviewDefs) \in PreviewRules
        /\ k \in LibraryKeys => r(PreviewDefs) = "bool"
  BY SMT DEF LibraryKeys, PreviewKeys, PreviewRules, PreviewDefs, Def, Bool
<1>13. k \in DOMAIN PreviewViewDefs =>
        /\ k \in PreviewKeys
        /\ IF k = "texture_preview_3d_supersampling" THEN r(PreviewViewDefs) = "supersampling" ELSE r(PreviewViewDefs) \in PreviewRules
  BY SMT DEF PreviewKeys, LibraryKeys, PreviewDefs, PreviewRules, PreviewViewDefs, Def, Bool
<1>14. k \in DOMAIN OperationDefs =>
        /\ k \in OperationKeys \cup {"background_task_max_attempts", "task_retention_hours"} /\ r(OperationDefs) = "positive"
  BY SMT DEF OperationKeys, OperationDefs, Def, Bool
<1>15. /\ AuthKeys \subseteq DOMAIN SessionDefs \cup DOMAIN LoginDefs
       /\ ContactKeys \subseteq DOMAIN SessionDefs \cup DOMAIN LoginDefs
       /\ EmailCodeKeys \subseteq DOMAIN LoginDefs \cup DOMAIN MailLoginDefs
       /\ LibraryKeys \subseteq DOMAIN PreviewDefs
  BY SMT DEF AuthKeys, ContactKeys, EmailCodeKeys, LibraryKeys, SessionDefs, LoginDefs, MailLoginDefs, PreviewDefs
<1>16. /\ BrandingKeys \subseteq DOMAIN SiteDefs /\ CaptchaKeys = DOMAIN CaptchaDefs
       /\ TemplateKeys = DOMAIN AccountTemplateDefs \cup DOMAIN OtherTemplateDefs
       /\ PreviewKeys \subseteq DOMAIN PreviewDefs \cup DOMAIN PreviewViewDefs
       /\ OperationKeys \subseteq DOMAIN OperationDefs
       /\ YggdrasilKeys \subseteq DOMAIN YggdrasilDefs \cup DOMAIN SigningDefs
       /\ \A x \in YggdrasilKeys : x \notin ReadTogether
  BY SMT DEF BrandingKeys, CaptchaKeys, TemplateKeys, PreviewKeys, OperationKeys, YggdrasilKeys, ReadTogether,
     YggdrasilDefs, SigningDefs
<1>17. /\ "auth_user_invitation_ttl_secs" \in DOMAIN SessionDefs
       /\ {"task_retention_hours", "background_task_max_attempts"} \subseteq DOMAIN OperationDefs
       /\ "gravatar_base_url" \in DOMAIN MailLoginDefs /\ "public_site_url" \in DOMAIN SiteDefs
       /\ {"cors_enabled", "audit_log_enabled", "audit_log_retention_days"} \subseteq DOMAIN NetworkDefs
  BY SMT DEF SessionDefs, OperationDefs, MailLoginDefs, SiteDefs, NetworkDefs
<1>18. \E g \in Categories : k \in DOMAIN g
  BY RegistryIsComplete DEF SystemKeys, ALL_CONFIGS
<1>19. \A g \in Categories : k \in DOMAIN g => RuleOf(k) = r(g) /\ TypeOf(k) = g[k].type
  BY Registry DEF RuleOf, TypeOf
<1> HIDE DEF r
<1>20. /\ k \in AuthKeys \cup EmailCodeKeys => RuleOf(k) \in {"bool", "positive"}
       /\ k \in ContactKeys => RuleOf(k) = "positive"
       /\ k \in LibraryKeys => RuleOf(k) = "bool"
  BY <1>2, <1>3, <1>5, <1>12, <1>15, <1>19 DEF Categories
<1>21. /\ k \in OperationKeys => RuleOf(k) = "positive"
       /\ k \in {"auth_user_invitation_ttl_secs", "task_retention_hours", "background_task_max_attempts"} =>
            RuleOf(k) = "positive"
  BY <1>2, <1>14, <1>16, <1>17, <1>19 DEF Categories
<1>22. k \in CaptchaKeys =>
         \/ k = "auth_captcha_preset" /\ RuleOf(k) = "preset"
         \/ k = "auth_captcha_length" /\ RuleOf(k) = "length"
         \/ k = "auth_captcha_max_attempts" /\ RuleOf(k) = "attempts"
         \/ k \notin CaptchaChoices /\ RuleOf(k) \in {"bool", "positive"}
  BY <1>4, <1>16, <1>19 DEF Categories
<1>23. k \in DOMAIN MailDefs =>
         \/ k = "mail_smtp_port" /\ RuleOf(k) = "port"
         \/ k = "mail_security" /\ RuleOf(k) = "bool"
         \/ k \notin {"mail_smtp_port", "mail_security"} /\ RuleOf(k) \in {"trimmed", "typed"}
  BY <1>7, <1>19 DEF Categories
<1>24. /\ k \in TemplateKeys => RuleOf(k) \in {"subject", "body"}
       /\ k \in BrandingKeys => RuleOf(k) \in {"display", "asset"}
       /\ k = "public_site_url" => RuleOf(k) = "origins"
       /\ k = "gravatar_base_url" => RuleOf(k) = "gravatar"
  <2>1. "public_site_url" \notin BrandingKeys BY DEF BrandingKeys
  <2> QED BY <1>1, <1>5, <1>8, <1>9, <1>16, <1>17, <1>19, <2>1 DEF Categories
<1>25. k \in PreviewKeys =>
         IF k = "texture_preview_3d_supersampling" THEN RuleOf(k) = "supersampling" ELSE RuleOf(k) \in PreviewRules
  BY <1>12, <1>13, <1>16, <1>19 DEF Categories
<1>26. k \in YggdrasilKeys =>
         \/ TypeOf(k) = "string" /\ RuleOf(k) \in {"typed", "required_url"}
         \/ TypeOf(k) = "bool" /\ RuleOf(k) = "typed"
         \/ TypeOf(k) = "number" /\ RuleOf(k) = "positive"
  BY <1>10, <1>11, <1>16, <1>19 DEF Categories
<1>27. /\ k = "cors_enabled" => RuleOf(k) = "strict"
       /\ k \in {"audit_log_enabled", "audit_log_retention_days"} => RuleOf(k) = "typed"
       /\ k = "audit_log_enabled" => TypeOf(k) = "bool"
  BY <1>6, <1>17, <1>19 DEF Categories
<1>28. /\ RuleOf(k) \in CorsRules => k \in Combined
       /\ \/ k \in OwnReaders \cup ReadTogether \cup CaptchaKeys \cup DOMAIN MailDefs \cup TemplateKeys
          \/ k \in BrandingKeys \cup LibraryKeys \cup PreviewKeys \cup OperationKeys \cup YggdrasilKeys
          \/ k \in AuthKeys \cup ContactKeys \cup EmailCodeKeys
  <2>1. PICK g \in Categories : k \in DOMAIN g BY <1>18
  <2>2. RuleOf(k) = r(g) BY <1>19, <2>1
  <2>3. EmailLists \subseteq ReadTogether BY DEF EmailLists, ReadTogether
  <2>4. {"auth_user_invitation_ttl_secs", "gravatar_base_url", "public_site_url", "background_task_max_attempts",
         "task_retention_hours"} \subseteq OwnReaders
    BY DEF OwnReaders
  <2>5. {"bool", "positive", "origins", "display", "asset", "preset", "length", "attempts", "items", "gravatar", "port",
         "trimmed", "typed", "subject", "body", "required_url", "supersampling"} \cap CorsRules = {} /\ PreviewRules \cap CorsRules = {}
    BY DEF CorsRules, PreviewRules
  <2>6. CASE g = SiteDefs BY <1>1, <1>16, <2>1, <2>2, <2>3, <2>4, <2>5, <2>6
  <2>7. CASE g = SessionDefs BY <1>2, <1>16, <2>1, <2>2, <2>3, <2>4, <2>5, <2>7
  <2>8. CASE g = LoginDefs BY <1>3, <1>16, <2>1, <2>2, <2>3, <2>4, <2>5, <2>8
  <2>9. CASE g = CaptchaDefs BY <1>4, <1>16, <2>1, <2>2, <2>3, <2>4, <2>5, <2>9
  <2>10. CASE g = MailLoginDefs BY <1>5, <1>16, <2>1, <2>2, <2>3, <2>4, <2>5, <2>10
  <2>11. CASE g = NetworkDefs BY <1>6, <1>16, <2>1, <2>2, <2>3, <2>4, <2>5, <2>11
  <2>12. CASE g = MailDefs BY <1>7, <1>16, <2>1, <2>2, <2>3, <2>4, <2>5, <2>12
  <2>13. CASE g = AccountTemplateDefs BY <1>8, <1>16, <2>1, <2>2, <2>3, <2>4, <2>5, <2>13
  <2>14. CASE g = OtherTemplateDefs BY <1>9, <1>16, <2>1, <2>2, <2>3, <2>4, <2>5, <2>14
  <2>15. CASE g = YggdrasilDefs BY <1>10, <1>16, <2>1, <2>2, <2>3, <2>4, <2>5, <2>15
  <2>16. CASE g = SigningDefs BY <1>11, <1>16, <2>1, <2>2, <2>3, <2>4, <2>5, <2>16
  <2>17. CASE g = PreviewDefs BY <1>12, <1>16, <2>1, <2>2, <2>3, <2>4, <2>5, <2>17
  <2>18. CASE g = PreviewViewDefs BY <1>13, <1>16, <2>1, <2>2, <2>3, <2>4, <2>5, <2>18
  <2>19. CASE g = OperationDefs BY <1>14, <1>16, <2>1, <2>2, <2>3, <2>4, <2>5, <2>19
  <2> QED
    BY <2>6, <2>7, <2>8, <2>9, <2>10, <2>11, <2>12, <2>13, <2>14, <2>15, <2>16, <2>17, <2>18, <2>19 DEF Categories
<1> QED BY <1>20, <1>21, <1>22, <1>23, <1>24, <1>25, <1>26, <1>27, <1>28

\* A value the administration API stored.
Fixed(k, v) == IsValue(v) /\ \A d : Normalize(d, k, v) = v
\* What the program may use for a key, and when what is stored is what it uses.
Within(k, u) ==
    /\ RuleOf(k) = "positive" => AtLeast(u, 1) /\ (k = "background_task_max_attempts" => u # Huge)
    /\ RuleOf(k) = "bool" => u[1] = "bool"
    /\ RuleOf(k) = "length" => Between(u, 4, 8)
    /\ RuleOf(k) = "attempts" => Between(u, 1, 10)
    /\ RuleOf(k) = "supersampling" => Between(u, 1, 4)
    /\ RuleOf(k) = "port" => Between(u, 1, 65535)
    /\ RuleOf(k) \in {"subject", "body", "display"} => Trim(u) # Blank
AsStored(k, v, u) == u \in {Missing, v, Trim(v)} \/ (v \in {Blank, Text("legacy")} /\ u = Default(k))
Sound(k, v, u) ==
    /\ u # Missing => Within(k, u)
    /\ k \notin Combined /\ Fixed(k, v) => AsStored(k, v, u)

\* What the normaliser of a key leaves alone.
LEMMA FixedFacts ==
    ASSUME NEW k \in SystemKeys, NEW v, Fixed(k, v)
    PROVE  /\ RuleOf(k) \in Keeping => Kept(k, v) /\ IsBare(v)
           /\ RuleOf(k) = "typed" => validate_value_type(k, Trim(v))
           /\ RuleOf(k) = "bool" => IsBare(v) /\ v[1] = "bool"
           /\ RuleOf(k) \in {"items", "origins"} /\ k \notin EmailLists =>
                IsBare(v) /\ v[1] = "items" /\ Items(Deduped(v[2])) = v
           /\ RuleOf(k) \in UrlRules => IsBare(v) /\ (v = Blank \/ Url(v) = v)
           /\ RuleOf(k) \in {"engine", "background"} =>
                IsBare(v) /\ normalize_texture_preview_config_value(k, v) = v
<1>1. IsValue(v) /\ Normalize(NoRows, k, v) = v /\ v # Refused
  <2>1. IsValue(v) /\ Normalize(NoRows, k, v) = v BY DEF Fixed
  <2>2. v # Refused BY <2>1 DEF IsValue, IsBare, Refused, Padded
  <2> QED BY <2>1, <2>2
<1>2. RuleOf(k) \in Keeping => Kept(k, v) /\ IsBare(v)
  BY <1>1, KeptOnce
<1>3. RuleOf(k) = "typed" => validate_value_type(k, Trim(v))
  BY <1>1, TypedOnce
<1>4. RuleOf(k) = "bool" => IsBare(v) /\ v[1] = "bool"
  BY <1>1, BoolOnce
<1>5. RuleOf(k) \in {"items", "origins"} /\ k \notin EmailLists =>
         IsBare(v) /\ v[1] = "items" /\ Items(Deduped(v[2])) = v
  BY <1>1, ItemsOnce
<1>6. RuleOf(k) \in UrlRules => IsBare(v) /\ (v = Blank \/ Url(v) = v)
  <2> SUFFICES ASSUME RuleOf(k) \in UrlRules PROVE IsBare(v) /\ (v = Blank \/ Url(v) = v)
    OBVIOUS
  <2>1. IsBare(v) BY <1>1, UrlOnce
  <2>2. Trim(v) = v /\ (TypeOf(k) = "array" <=> Trim(v)[1] = "items")
    BY <1>1, <2>1, BareIsTrim, RightShape
  <2> QED BY <1>1, <2>1, <2>2, UrlNormalizers
<1>7. RuleOf(k) \in {"engine", "background"} => IsBare(v) /\ normalize_texture_preview_config_value(k, v) = v
  <2> SUFFICES ASSUME RuleOf(k) \in {"engine", "background"}
               PROVE  IsBare(v) /\ normalize_texture_preview_config_value(k, v) = v
    OBVIOUS
  <2>1. IsBare(v) BY <1>1, SpellingOnce
  <2>2. Trim(v) = v /\ (TypeOf(k) = "array" <=> Trim(v)[1] = "items")
    BY <1>1, <2>1, BareIsTrim, RightShape
  <2>3. Normalize(NoRows, k, v) = normalize_texture_preview_config_value(k, Trim(v))
    BY <2>2, Normalizers
  <2> QED BY <1>1, <2>1, <2>2, <2>3
<1> QED BY <1>2, <1>3, <1>4, <1>5, <1>6, <1>7

\* A switch is read as a boolean, whatever is stored.
LEMMA SwitchRead ==
    ASSUME NEW c, NEW k \in SystemKeys, k \in DOMAIN c, IsValue(c[k]), TypeOf(k) = "bool",
           RuleOf(k) \in {"bool", "typed"}
    PROVE  Sound(k, c[k], ReadBool(c, k))
<1> DEFINE v == Trim(c[k])
           u == ReadBool(c, k)
<1>1. u = OrDefault(k, ParseBoolLike(v))
  BY GetIn DEF ReadBool
<1>2. Default(k)[1] = "bool"
  BY Suitable DEF Suits
<1>3. ParseBoolLike(v)[1] = "bool" \/ ParseBoolLike(v) = Refused
  <2>1. ASSUME v[1] \in {"bool", "like"} PROVE ParseBoolLike(v)[1] = "bool"
    BY <2>1 DEF ParseBoolLike, Bool, Num
  <2>2. ASSUME v[1] \notin {"bool", "like"} PROVE ParseBoolLike(v)[1] = "bool" \/ ParseBoolLike(v) = Refused
    BY <2>2 DEF ParseBoolLike, Bool, Num
  <2> QED BY <2>1, <2>2
<1>4. u[1] = "bool"
  BY <1>1, <1>2, <1>3 DEF OrDefault
<1>5. ASSUME Fixed(k, c[k]) PROVE u = v
  <2>1. v[1] = "bool"
    <3>1. CASE RuleOf(k) = "bool" BY <1>5, <3>1, FixedFacts, BareIsTrim
    <3>2. CASE RuleOf(k) = "typed"
      BY <1>5, <3>2, FixedFacts DEF validate_value_type, TypeOf
    <3> QED BY <3>1, <3>2
  <2>2. IsBare(v) BY TrimIsBare
  <2> HIDE DEF v
  <2>3. ParseBoolLike(v) = <<"bool", v[2]>> /\ v = <<v[1], v[2]>>
    BY <2>1, <2>2 DEF ParseBoolLike, Bool, Num, IsBare
  <2>4. v # Refused BY <2>2, BareIsTrim
  <2> QED BY <1>1, <2>1, <2>3, <2>4 DEF OrDefault
<1> HIDE DEF u
<1> QED BY <1>4, <1>5 DEF Sound, Within, AsStored, u

\* A lifetime, an interval or a limit is read as a number above zero.
LEMMA PositiveRead ==
    ASSUME NEW c, NEW k \in SystemKeys, k \in DOMAIN c, IsValue(c[k]), RuleOf(k) = "positive",
           k # "background_task_max_attempts"
    PROVE  Sound(k, c[k], ReadPositive(c, k))
<1> DEFINE v == Trim(c[k])
           u == ReadPositive(c, k)
<1>1. u = OrDefault(k, Accept(v, AtLeast(v, 1)))
  BY GetIn DEF ReadPositive
<1>2. AtLeast(Default(k), 1)
  BY Suitable DEF Suits
<1>3. ~AtLeast(Refused, 1)
  BY DEF Refused, AtLeast
<1>4. AtLeast(u, 1) /\ (AtLeast(v, 1) => u = v)
  BY <1>1, <1>2, <1>3 DEF OrDefault, Accept
<1>5. Fixed(k, c[k]) => AtLeast(v, 1)
  BY FixedFacts, BareIsTrim DEF Keeping, Kept
<1> QED BY <1>4, <1>5 DEF Sound, Within, AsStored

\* A number with limits is read within them.
LEMMA BoundedRead ==
    ASSUME NEW c, NEW k \in SystemKeys, NEW a \in Int, NEW b \in Int, k \in DOMAIN c, IsValue(c[k]),
           \/ RuleOf(k) = "length" /\ a = 4 /\ b = 8
           \/ RuleOf(k) = "attempts" /\ a = 1 /\ b = 10
           \/ RuleOf(k) = "port" /\ a = 1 /\ b = 65535
    PROVE  Sound(k, c[k], ReadBounded(c, k, a, b))
<1> DEFINE v == Trim(c[k])
           u == ReadBounded(c, k, a, b)
<1>1. u = OrDefault(k, Accept(v, Between(v, a, b)))
  BY GetIn DEF ReadBounded
<1>2. Between(Default(k), a, b)
  BY Suitable DEF Suits
<1>3. ~Between(Refused, a, b)
  BY DEF Refused, Between
<1>4. Between(u, a, b) /\ (Between(v, a, b) => u = v)
  BY <1>1, <1>2, <1>3 DEF OrDefault, Accept
<1>5. Fixed(k, c[k]) => Between(v, a, b)
  BY FixedFacts, BareIsTrim DEF Keeping, Kept
<1> HIDE DEF u
<1>6. Within(k, u)
  BY <1>4 DEF Within
<1> QED BY <1>4, <1>5, <1>6 DEF Sound, AsStored, u

\* A row that is there is read without its blanks.
LEMMA GetBare ==
    ASSUME NEW c, NEW k \in DOMAIN c, IsValue(c[k])
    PROVE  /\ Get(c, k) = Trim(c[k]) /\ IsBare(Get(c, k)) /\ Get(c, k) # Missing /\ Get(c, k) # Refused
           /\ \A p : ReadAs(c, k, p) = OrDefault(k, p)
<1>1. Get(c, k) = Trim(c[k]) /\ IsBare(Get(c, k))
  BY GetIn, TrimIsBare
<1> QED BY <1>1, BareIsTrim DEF ReadAs

\* A key that is a switch or a number above zero.
LEMMA PlainRead ==
    ASSUME NEW c, NEW k \in SystemKeys, k \in DOMAIN c, IsValue(c[k]), k # "background_task_max_attempts",
           RuleOf(k) \in {"bool", "positive"} \/ (TypeOf(k) = "bool" /\ RuleOf(k) = "typed")
    PROVE  Sound(k, c[k], Read(c, k))
<1>1. (RuleOf(k) = "bool" => TypeOf(k) = "bool") /\ (RuleOf(k) = "positive" => TypeOf(k) = "number")
  BY Suitable DEF Suits
<1>2. CASE TypeOf(k) = "bool"
  <2>1. RuleOf(k) \in {"bool", "typed"} BY <1>1, <1>2
  <2>2. Read(c, k) = ReadBool(c, k) BY <1>2 DEF Read, TypeOf
  <2> QED BY <1>2, <2>1, <2>2, SwitchRead
<1>3. CASE TypeOf(k) # "bool"
  <2>1. RuleOf(k) = "positive" BY <1>1, <1>3
  <2>2. Read(c, k) = ReadPositive(c, k) BY <1>3 DEF Read, TypeOf
  <2> QED BY <2>1, <2>2, PositiveRead
<1> QED BY <1>2, <1>3

\* Sessions, one-time codes, addresses to confirm, invitations and the intervals of the runtime.
LEMMA TimesSound ==
    ASSUME NEW c, NEW k \in SystemKeys, k \in DOMAIN c, IsValue(c[k]),
           \/ k \in AuthKeys \cup EmailCodeKeys \cup ContactKeys \cup OperationKeys
           \/ k \in {"auth_user_invitation_ttl_secs", "task_retention_hours"}
    PROVE  Sound(k, c[k], Effective(c, k))
<1>1. k # "background_task_max_attempts"
  BY SMT DEF AuthKeys, EmailCodeKeys, ContactKeys, OperationKeys
<1>2. CASE k \in AuthKeys
  <2>1. Effective(c, k) = Read(c, k) BY <1>2, Readers DEF RuntimeAuthPolicy
  <2> QED BY <1>1, <1>2, <2>1, KeyRules, PlainRead
<1>3. CASE k \in EmailCodeKeys
  <2>1. Effective(c, k) = Read(c, k) BY <1>3, Readers DEF RuntimeEmailCodeLoginPolicy
  <2> QED BY <1>1, <1>3, <2>1, KeyRules, PlainRead
<1>4. CASE k \in ContactKeys
  <2>1. Effective(c, k) = ReadPositive(c, k)
    BY <1>4, Readers DEF RuntimeContactVerificationPolicy
  <2> QED BY <1>1, <1>4, <2>1, KeyRules, PositiveRead
<1>5. CASE k \in OperationKeys
  <2>1. Effective(c, k) = ReadPositive(c, k) BY <1>5, Readers DEF Operations
  <2> QED BY <1>1, <1>5, <2>1, KeyRules, PositiveRead
<1>6. CASE k \in {"auth_user_invitation_ttl_secs", "task_retention_hours"}
  <2>1. Effective(c, k) = ReadPositive(c, k)
    BY <1>6, Readers DEF user_invitation_ttl_secs, load_task_retention_hours
  <2> QED BY <1>1, <1>6, <2>1, KeyRules, PositiveRead
<1> QED BY <1>2, <1>3, <1>4, <1>5, <1>6

\* The number of attempts of a task.
LEMMA AttemptsSound ==
    ASSUME NEW c, NEW k, k = "background_task_max_attempts", k \in SystemKeys, k \in DOMAIN c, IsValue(c[k])
    PROVE  Sound(k, c[k], Effective(c, k))
<1> DEFINE v == Get(c, k)
           u == background_task_max_attempts(c)
<1>1. Effective(c, k) = u /\ RuleOf(k) = "positive"
  BY Readers, KeyRules
<1>2. k \in Combined
  BY DEF Combined
<1>3. IsBare(v)
  BY GetBare
<1>4. AtLeast(u, 1) /\ u # Huge
  <2>1. CASE v[1] = "num" /\ v[2] > 0
    <3>1. u = v BY <2>1 DEF background_task_max_attempts
    <3>2. v[2] \in Int BY <1>3, <2>1 DEF IsBare
    <3> HIDE DEF u, v
    <3> QED BY <2>1, <3>1, <3>2 DEF AtLeast, Huge
  <2>2. CASE ~(v[1] = "num" /\ v[2] > 0)
    <3>1. u = Num(3) BY <2>2 DEF background_task_max_attempts
    <3> HIDE DEF u, v
    <3> QED BY <3>1 DEF AtLeast, Huge, Num
  <2> QED BY <2>1, <2>2
<1> HIDE DEF u
<1>5. Within(k, u)
  BY <1>1, <1>4 DEF Within
<1> QED BY <1>1, <1>2, <1>5 DEF Sound

LEMMA SwitchesSound ==
    ASSUME NEW c, NEW k \in SystemKeys, k \in DOMAIN c, IsValue(c[k]), k \in LibraryKeys \cup {"audit_log_enabled"}
    PROVE  Sound(k, c[k], Effective(c, k))
<1>1. CASE k \in LibraryKeys
  <2>1. Effective(c, k) = ReadBool(c, k) BY <1>1, Readers DEF RuntimeTextureLibraryPolicy
  <2>2. RuleOf(k) = "bool" /\ TypeOf(k) = "bool" BY <1>1, KeyRules, Suitable DEF Suits
  <2> QED BY <2>1, <2>2, SwitchRead
<1>2. CASE k = "audit_log_enabled"
  <2>1. Effective(c, k) = ReadBool(c, k) BY <1>2, Readers DEF AuditSettings
  <2>2. RuleOf(k) = "typed" /\ TypeOf(k) = "bool" BY <1>2, KeyRules
  <2> QED BY <2>1, <2>2, SwitchRead
<1> QED BY <1>1, <1>2

\* A value read through the function that checks it when it is saved.
LEMMA CheckedRead ==
    ASSUME NEW k \in SystemKeys, NEW v, NEW u, NEW p, IsValue(v), u = OrDefault(k, p),
           RuleOf(k) \in {"preset", "display", "asset", "u32", "float", "profile", "engine", "background", "bool", "gravatar"},
           p # Refused /\ RuleOf(k) = "bool" => p[1] = "bool",
           p # Refused /\ RuleOf(k) = "display" => Trim(p) # Blank,
           Fixed(k, v) => p \in {v, Trim(v)} /\ p # Refused
    PROVE  Sound(k, v, u)
<1>1. Suits(TypeOf(k), Default(k), RuleOf(k))
  BY Suitable
<1>2. IsBare(Default(k)) /\ Trim(Default(k)) = Default(k)
  BY <1>1, BareIsTrim DEF Suits
<1>3. RuleOf(k) = "bool" => u[1] = "bool"
  BY <1>1 DEF Suits, OrDefault
<1>4. RuleOf(k) = "display" => Trim(u) # Blank
  BY <1>1, <1>2 DEF Suits, OrDefault
<1>5. Within(k, u)
  BY <1>3, <1>4 DEF Within
<1>6. Fixed(k, v) => AsStored(k, v, u)
  BY DEF OrDefault, AsStored
<1> QED BY <1>5, <1>6 DEF Sound

\* The captcha.
LEMMA CaptchaSound ==
    ASSUME NEW c, NEW k \in SystemKeys, k \in DOMAIN c, IsValue(c[k]), k \in CaptchaKeys
    PROVE  Sound(k, c[k], Effective(c, k))
<1> DEFINE g == [x \in DOMAIN c \cup DOMAIN <<>> |-> IF x \in DOMAIN <<>> THEN (<<>>)[x] ELSE c[x]]
<1>1. k \in DOMAIN g /\ g[k] = c[k] OBVIOUS
<1>2. Effective(c, k) = CASE k = "auth_captcha_preset" -> read_captcha_render_preset(g)
                          [] k = "auth_captcha_length" -> ReadBounded(g, k, 4, 8)
                          [] k = "auth_captcha_max_attempts" -> ReadBounded(g, k, 1, 10)
                          [] OTHER -> Read(g, k)
  BY Readers DEF RuntimeCaptchaPolicy
<1> HIDE DEF g
<1>3. CASE k = "auth_captcha_preset"
  <2> DEFINE v == Get(g, k)
             p == parse_captcha_preset_selection(v)
  <2>1. Effective(c, k) = OrDefault(k, p)
    BY <1>1, <1>2, <1>3, GetBare DEF read_captcha_render_preset
  <2>2. RuleOf(k) = "preset" BY <1>3, KeyRules DEF CaptchaChoices
  <2>3. v = Trim(c[k]) /\ v # Refused BY <1>1, GetBare
  <2>4. Fixed(k, c[k]) => v \in {Text("readable"), Text("balanced"), Text("hardened")}
    BY <2>2, <2>3, FixedFacts, BareIsTrim DEF Keeping, Kept
  <2> HIDE DEF v
  <2>5. Fixed(k, c[k]) => p = v BY <2>4 DEF parse_captcha_preset_selection, Accept
  <2> HIDE DEF p
  <2> QED BY <2>1, <2>2, <2>3, <2>5, CheckedRead
<1>4. CASE k = "auth_captcha_length"
  <2>1. Effective(c, k) = ReadBounded(g, k, 4, 8) BY <1>2, <1>4
  <2> QED BY <1>1, <1>4, <2>1, BoundedRead, KeyRules DEF CaptchaChoices
<1>5. CASE k = "auth_captcha_max_attempts"
  <2>1. Effective(c, k) = ReadBounded(g, k, 1, 10) BY <1>2, <1>5
  <2> QED BY <1>1, <1>5, <2>1, BoundedRead, KeyRules DEF CaptchaChoices
<1>6. CASE k \notin CaptchaChoices
  <2>1. Effective(c, k) = Read(g, k) /\ RuleOf(k) \in {"bool", "positive"}
    BY <1>2, <1>6, KeyRules DEF CaptchaChoices
  <2>2. k # "background_task_max_attempts" BY SMT DEF CaptchaKeys, CaptchaDefs
  <2>3. Sound(k, g[k], Read(g, k)) BY <1>1, <2>1, <2>2, PlainRead
  <2> QED BY <1>1, <2>1, <2>3
<1> QED BY <1>3, <1>4, <1>5, <1>6 DEF CaptchaChoices

\* Mail and its templates.
LEMMA MailSound ==
    ASSUME NEW c, NEW k \in SystemKeys, k \in DOMAIN c, IsValue(c[k]), k \in DOMAIN MailDefs
    PROVE  Sound(k, c[k], Effective(c, k))
<1>1. Effective(c, k) = IF k = "mail_smtp_port" THEN ReadBounded(c, k, 1, 65535)
                        ELSE IF k = "mail_security" THEN ReadBool(c, k) ELSE c[k]
  <2>1. Effective(c, k) = runtime_mail_settings(c)[k] BY Readers
  <2> DEFINE u(x) == CASE x = "mail_smtp_port" -> ReadBounded(c, x, 1, 65535)
                       [] x = "mail_security" -> ReadBool(c, x)
                       [] OTHER -> IF x \in DOMAIN c THEN c[x] ELSE Blank
  <2>2. runtime_mail_settings(c) = [x \in DOMAIN MailDefs |-> u(x)]
    BY DEF runtime_mail_settings
  <2>3. u(k) = IF k = "mail_smtp_port" THEN ReadBounded(c, k, 1, 65535)
               ELSE IF k = "mail_security" THEN ReadBool(c, k) ELSE c[k]
    OBVIOUS
  <2> HIDE DEF u
  <2> QED BY <2>1, <2>2, <2>3
<1>2. CASE k = "mail_smtp_port"
  BY <1>1, <1>2, BoundedRead, KeyRules
<1>3. CASE k = "mail_security"
  BY <1>1, <1>3, SwitchRead, KeyRules, Suitable DEF Suits
<1>4. CASE k \notin {"mail_smtp_port", "mail_security"}
  <2>1. Effective(c, k) = c[k] /\ RuleOf(k) \in {"trimmed", "typed"}
    BY <1>1, <1>4, KeyRules
  <2> QED BY <2>1 DEF Sound, Within, AsStored
<1> QED BY <1>2, <1>3, <1>4

LEMMA TemplatesSound ==
    ASSUME NEW c, NEW k \in SystemKeys, k \in DOMAIN c, IsValue(c[k]), k \in TemplateKeys
    PROVE  Sound(k, c[k], Effective(c, k))
<1> DEFINE u == IF Get(c, k) \in {Missing, Blank} THEN Default(k) ELSE c[k]
<1>1. Effective(c, k) = u
  BY Readers DEF MailTemplates, template
<1>2. RuleOf(k) \in {"subject", "body"}
  BY KeyRules
<1>3. IsBare(Default(k)) /\ Trim(Default(k)) = Default(k) /\ Default(k) # Blank
  BY <1>2, Suitable, BareIsTrim DEF Suits
<1>4. Get(c, k) = Trim(c[k]) /\ Get(c, k) # Missing
  BY GetBare
<1>5. Trim(u) # Blank
  BY <1>3, <1>4
<1>6. Fixed(k, c[k]) => Trim(c[k]) = c[k]
  BY <1>2, FixedFacts, BareIsTrim DEF Keeping
<1>7. Fixed(k, c[k]) => AsStored(k, c[k], u)
  BY <1>4, <1>6 DEF AsStored
<1> HIDE DEF u
<1>8. Within(k, u)
  BY <1>2, <1>5 DEF Within
<1> QED BY <1>1, <1>7, <1>8 DEF Sound

\* The name, the description and the images of the site.
LEMMA BrandingSound ==
    ASSUME NEW c, NEW k \in SystemKeys, k \in DOMAIN c, IsValue(c[k]), k \in BrandingKeys
    PROVE  Sound(k, c[k], Effective(c, k))
<1> DEFINE v == Get(c, k)
           p == normalize_branding(k, v)
<1>1. v = Trim(c[k]) /\ v # Refused /\ IsBare(v) /\ Trim(v) = v
  BY GetBare, BareIsTrim
<1>2. RuleOf(k) \in {"display", "asset"}
  BY KeyRules
<1>3. p \in {v, Refused}
  BY DEF normalize_branding, Accept
<1>4. Fixed(k, c[k]) => p = v
  <2>1. Fixed(k, c[k]) => Kept(k, v) /\ c[k] = v
    BY <1>1, <1>2, FixedFacts, BareIsTrim DEF Keeping
  <2>2. RuleOf(k) = "display" => p = Accept(v, v # Text("long"))
    BY DEF normalize_branding, RuleOf
  <2>3. RuleOf(k) = "asset" => p = Accept(v, v = Blank \/ (v[1] = "text" /\ Valid(v[2])))
    BY DEF normalize_branding, RuleOf
  <2> HIDE DEF v, p
  <2> QED BY <1>2, <2>1, <2>2, <2>3 DEF Kept, Accept
<1>5. Effective(c, k) = IF v = Blank \/ (k = "branding_description" /\ v = Text("legacy"))
                          THEN Default(k) ELSE ReadAs(c, k, p)
  BY Readers DEF Branding
<1> HIDE DEF v, p
<1>6. CASE v = Blank \/ (k = "branding_description" /\ v = Text("legacy"))
  <2>1. Effective(c, k) = Default(k) BY <1>5, <1>6
  <2>2. IsBare(Default(k)) /\ Trim(Default(k)) = Default(k) /\ (RuleOf(k) = "display" => Default(k) # Blank)
    BY Suitable, BareIsTrim DEF Suits
  <2>3. Within(k, Default(k)) BY <1>2, <2>2 DEF Within
  <2>4. Fixed(k, c[k]) => c[k] = v BY <1>1, <1>2, FixedFacts, BareIsTrim DEF Keeping
  <2>5. Fixed(k, c[k]) => AsStored(k, c[k], Default(k)) BY <1>6, <2>4 DEF AsStored
  <2> QED BY <2>1, <2>3, <2>5 DEF Sound
<1>7. CASE ~(v = Blank \/ (k = "branding_description" /\ v = Text("legacy")))
  <2>1. Effective(c, k) = OrDefault(k, p) BY <1>5, <1>7, GetBare
  <2> QED BY <1>1, <1>2, <1>3, <1>4, <1>7, <2>1, CheckedRead
<1> QED BY <1>6, <1>7

\* The previews of textures.
LEMMA PreviewSound ==
    ASSUME NEW c, NEW k \in SystemKeys, k \in DOMAIN c, IsValue(c[k]), k \in PreviewKeys
    PROVE  Sound(k, c[k], Effective(c, k))
<1> DEFINE v == Get(c, k)
           p == normalize_texture_preview_config_value(k, v)
<1>1. v = Trim(c[k]) /\ v # Refused /\ IsBare(v) /\ Trim(v) = v
  BY GetBare, BareIsTrim
<1>2. Effective(c, k) = IF k = "texture_preview_3d_supersampling" THEN read_supersampling(c) ELSE ReadAs(c, k, p)
  BY Readers DEF RuntimeTexturePreviewPolicy
<1>3. CASE k = "texture_preview_3d_supersampling"
  <2> DEFINE w == Get(c, "texture_preview_3d_supersampling")
             u == read_supersampling(c)
  <2>1. k \in Combined /\ RuleOf(k) = "supersampling" BY <1>3, KeyRules DEF Combined
  <2>2. Between(w, 1, 4) /\ w # Num(2) => u = w BY DEF read_supersampling
  <2>3. ~(Between(w, 1, 4) /\ w # Num(2)) => u \in {Num(1), Num(2), Num(3)}
    BY DEF read_supersampling, Text
  <2>4. Between(Num(1), 1, 4) /\ Between(Num(2), 1, 4) /\ Between(Num(3), 1, 4)
    BY DEF Between, Num
  <2> HIDE DEF w, u
  <2>5. Between(u, 1, 4) BY <2>2, <2>3, <2>4
  <2>6. Within(k, u) BY <2>1, <2>5 DEF Within
  <2> QED BY <1>2, <1>3, <2>1, <2>6 DEF Sound, u
<1>4. CASE k # "texture_preview_3d_supersampling"
  <2>1. Effective(c, k) = OrDefault(k, p) BY <1>2, <1>4, GetBare
  <2>2. RuleOf(k) \in PreviewRules BY <1>4, KeyRules
  <2>3. CASE RuleOf(k) = "bool"
    <3>1. p = ParseBoolLike(v)
      <4> HIDE DEF v
      <4> QED BY <2>3 DEF normalize_texture_preview_config_value, RuleOf
    <3>2. Effective(c, k) = ReadBool(c, k) BY <2>1, <3>1 DEF ReadBool
    <3> QED BY <2>3, <3>2, SwitchRead, Suitable DEF Suits
  <2>4. CASE RuleOf(k) \in {"engine", "background"}
    <3>1. Fixed(k, c[k]) => c[k] = v /\ p = v BY <1>1, <2>4, FixedFacts, BareIsTrim
    <3> HIDE DEF v, p
    <3> QED BY <1>1, <2>1, <2>4, <3>1, CheckedRead
  <2>5. CASE RuleOf(k) \in {"profile", "u32", "float"}
    <3>1. Fixed(k, c[k]) => Kept(k, v) /\ c[k] = v
      BY <1>1, <2>5, FixedFacts, BareIsTrim DEF Keeping
    <3> HIDE DEF v
    <3>2. Kept(k, v) => p = v
      <4>1. CASE RuleOf(k) = "profile"
        BY <4>1 DEF normalize_texture_preview_config_value, RuleOf, Kept, Accept
      <4>2. CASE RuleOf(k) = "u32"
        BY <4>2 DEF normalize_texture_preview_config_value, RuleOf, Kept, Accept
      <4>3. CASE RuleOf(k) = "float"
        BY <4>3 DEF normalize_texture_preview_config_value, RuleOf, Kept, Accept
      <4> QED BY <2>5, <4>1, <4>2, <4>3
    <3> HIDE DEF p
    <3> QED BY <1>1, <2>1, <2>5, <3>1, <3>2, CheckedRead
  <2> QED BY <2>2, <2>3, <2>4, <2>5 DEF PreviewRules
<1> QED BY <1>3, <1>4

\* What the Yggdrasil API works with.
LEMMA YggdrasilSound ==
    ASSUME NEW c, NEW k \in SystemKeys, k \in DOMAIN c, IsValue(c[k]), k \in YggdrasilKeys
    PROVE  Sound(k, c[k], Effective(c, k))
<1>1. Effective(c, k) = IF TypeOf(k) = "string" THEN ReadText(c, k) ELSE Read(c, k)
  BY Readers DEF RuntimeYggdrasilPolicy, TypeOf
<1>2. CASE TypeOf(k) = "string" /\ RuleOf(k) \in {"typed", "required_url"}
  <2>1. Effective(c, k) = c[k] BY <1>1, <1>2, GetBare DEF ReadText
  <2> QED BY <1>2, <2>1 DEF Sound, Within, AsStored
<1>3. CASE \/ TypeOf(k) = "bool" /\ RuleOf(k) = "typed"
           \/ TypeOf(k) = "number" /\ RuleOf(k) = "positive"
  <2>1. Effective(c, k) = Read(c, k) BY <1>1, <1>3
  <2>2. k # "background_task_max_attempts"
    BY SMT DEF YggdrasilKeys, YggdrasilDefs, SigningDefs
  <2> QED BY <1>3, <2>1, <2>2, PlainRead
<1> QED BY <1>2, <1>3, KeyRules

LEMMA GravatarSound ==
    ASSUME NEW c, NEW k, k = "gravatar_base_url", k \in SystemKeys, k \in DOMAIN c, IsValue(c[k])
    PROVE  Sound(k, c[k], Effective(c, k))
<1> DEFINE v == Get(c, k)
           p == normalize_gravatar_base_url(v)
<1>1. v = Trim(c[k]) /\ v # Refused /\ IsBare(v) /\ Trim(v) = v
  BY GetBare, BareIsTrim
<1>2. RuleOf(k) = "gravatar"
  BY KeyRules
<1>3. Effective(c, k) = IF v = Blank THEN Default(k) ELSE OrDefault(k, p)
  BY Readers, GetBare DEF gravatar_base_url_or_default
<1>4. Fixed(k, c[k]) => c[k] = v /\ (v = Blank \/ Url(v) = v)
  BY <1>1, <1>2, FixedFacts, BareIsTrim DEF UrlRules
<1> HIDE DEF v
<1>5. v # Blank => p = Url(v)
  BY DEF normalize_gravatar_base_url, Url
<1> HIDE DEF p
<1>6. \A u : Within(k, u)
  BY <1>2 DEF Within
<1>7. Fixed(k, c[k]) => AsStored(k, c[k], Effective(c, k))
  BY <1>1, <1>3, <1>4, <1>5 DEF AsStored, OrDefault
<1> QED BY <1>6, <1>7 DEF Sound

LEMMA SiteUrlSound ==
    ASSUME NEW c, NEW k, k = "public_site_url", k \in SystemKeys, k \in DOMAIN c, IsValue(c[k])
    PROVE  Sound(k, c[k], Effective(c, k))
<1> DEFINE v == Get(c, k)
<1>1. v = Trim(c[k]) /\ Trim(v) = v
  BY GetBare, BareIsTrim
<1>2. RuleOf(k) = "origins" /\ k \notin EmailLists
  BY KeyRules DEF EmailLists
<1>3. Effective(c, k) = Items(UsableItems(v))
  BY Readers DEF public_site_urls
<1>4. Fixed(k, c[k]) => c[k] = v /\ v[1] = "items" /\ Items(Deduped(v[2])) = v
  BY <1>1, <1>2, FixedFacts, BareIsTrim
<1>5. \A u : Within(k, u)
  BY <1>2 DEF Within
<1>6. Fixed(k, c[k]) => AsStored(k, c[k], Effective(c, k))
  BY <1>3, <1>4 DEF AsStored, UsableItems
<1> QED BY <1>5, <1>6 DEF Sound

LEMMA CorsSwitchSound ==
    ASSUME NEW c, NEW k, k = "cors_enabled", k \in SystemKeys, k \in DOMAIN c, IsValue(c[k])
    PROVE  Sound(k, c[k], Effective(c, k))
<1> DEFINE v == Get(c, k)
           on == OrDefault(k, parse_bool_str(v))
           u == runtime_cors_policy(c).cors_enabled
<1>1. v = Trim(c[k]) /\ v # Refused /\ IsBare(v) /\ Trim(v) = v
  BY GetBare, BareIsTrim
<1>2. RuleOf(k) = "strict"
  BY KeyRules
<1>3. Effective(c, k) = u
  BY Readers
<1>4. u = IF on = Bool(FALSE) THEN Bool(FALSE) ELSE Bool(TRUE)
  BY DEF runtime_cors_policy, Bool
<1>5. Fixed(k, c[k]) => c[k] = v /\ v[1] = "bool"
  BY <1>1, <1>2, FixedFacts, BareIsTrim DEF Keeping, Kept
<1> HIDE DEF u
<1>6. v[1] = "bool" => v = <<"bool", TRUE>> \/ v = <<"bool", FALSE>>
  BY <1>1 DEF IsBare
<1>7. v[1] = "bool" => on = v
  BY <1>1 DEF parse_bool_str, OrDefault, Accept
<1> HIDE DEF v, on
<1>8. \A x : Within(k, x)
  BY <1>2 DEF Within
<1>9. v[1] = "bool" => u = v
  BY <1>4, <1>6, <1>7 DEF Bool
<1> QED BY <1>3, <1>5, <1>8, <1>9 DEF Sound, AsStored

\* Whatever a row holds, what the program uses for its key is within its limits; and what was accepted
\* is what is used.
LEMMA AllSound ==
    ASSUME NEW c, NEW k \in SystemKeys, k \in DOMAIN c, IsValue(c[k])
    PROVE  Sound(k, c[k], Effective(c, k))
<1>1. CASE k \in OwnReaders
  <2>1. CASE k = "audit_log_retention_days"
    <3>1. k \in Combined /\ RuleOf(k) = "typed" BY <2>1, KeyRules DEF Combined
    <3> QED BY <3>1 DEF Sound, Within
  <2>2. CASE k # "audit_log_retention_days"
    BY <1>1, <2>2, TimesSound, SwitchesSound, AttemptsSound, GravatarSound, SiteUrlSound, CorsSwitchSound DEF OwnReaders
  <2> QED BY <2>1, <2>2
<1>2. CASE k \in ReadTogether
  <2>1. Effective(c, k) = Missing BY <1>2, Readers
  <2> QED BY <2>1 DEF Sound, AsStored
<1> QED
  BY <1>1, <1>2, KeyRules, TimesSound, SwitchesSound, CaptchaSound, MailSound, TemplatesSound, BrandingSound,
     PreviewSound, YggdrasilSound

----------------------------------------------------------------------------
(* What the rows of a deployment hold                                      *)

\* A configuration of values, in which the private key is empty or one of those generated so far.
Tended(c, last) ==
    /\ \A k \in DOMAIN c : IsValue(c[k])
    /\ PrivateKey \in DOMAIN c => Trim(c[PrivateKey]) \in {Blank} \cup {Key(i) : i \in 0..last}

LEMMA NoRowsTended == \A last : Tended(NoRows, last)
BY DEF Tended, NoRows

LEMMA PutTended ==
    ASSUME NEW c, NEW last, NEW k, NEW v, Tended(c, last), IsValue(v),
           k = PrivateKey => v \in {Key(i) : i \in 0..last}
    PROVE  Tended(Put(c, k, v), last)
<1> DEFINE d == Put(c, k, v)
<1>1. DOMAIN d = DOMAIN c \cup {k} /\ \A x \in DOMAIN d : d[x] = IF x = k THEN v ELSE c[x]
  BY DEF Put
<1>2. \A i : Trim(Key(i)) = Key(i)
  BY Forms, BareIsTrim
<1> HIDE DEF d
<1>3. \A x \in DOMAIN d : IsValue(d[x])
  BY <1>1 DEF Tended
<1>4. PrivateKey \in DOMAIN d => Trim(d[PrivateKey]) \in {Blank} \cup {Key(i) : i \in 0..last}
  BY <1>1, <1>2 DEF Tended
<1> QED BY <1>3, <1>4 DEF Tended, d

LEMMA OverTended ==
    ASSUME NEW c, NEW d, NEW last, Tended(c, last), Tended(d, last)
    PROVE  Tended(Over(c, d), last)
<1> DEFINE e == Over(c, d)
<1>1. DOMAIN e = DOMAIN c \cup DOMAIN d /\ \A x \in DOMAIN e : e[x] = IF x \in DOMAIN c THEN c[x] ELSE d[x]
  BY DEF Over
<1> HIDE DEF e
<1> QED BY <1>1 DEF Tended, e

LEMMA FewerTended ==
    ASSUME NEW c, NEW last, NEW S, Tended(c, last)
    PROVE  Tended([k \in DOMAIN c \ S |-> c[k]], last)
BY DEF Tended

LEMMA LaterTended ==
    ASSUME NEW c, NEW a \in Nat, NEW b \in Nat, a <= b, Tended(c, a)
    PROVE  Tended(c, b)
<1>1. {Key(i) : i \in 0..a} \subseteq {Key(i) : i \in 0..b} OBVIOUS
<1> QED BY <1>1 DEF Tended

\* The defaults are values, and there is no private key by default.
LEMMA DefaultsTended ==
    /\ \A k \in SystemKeys : IsValue(Default(k))
    /\ Default(PrivateKey) = Blank
<1>1. \A k \in SystemKeys : IsValue(Default(k))
  BY Suitable, BareIsTrim DEF Suits
<1>2. SigningDefs \in Categories
  BY DEF Categories
<1>3. PrivateKey \in DOMAIN SigningDefs /\ SigningDefs[PrivateKey].default = Blank
  BY SMT DEF SigningDefs, Def, Bool, PrivateKey
<1>4. Default(PrivateKey) = Blank
  BY <1>2, <1>3, Registry DEF Default
<1> QED BY <1>1, <1>4

\* The key a node signs with is one of those generated so far.
LEMMA SigningKey ==
    ASSUME NEW c, NEW last, Tended(c, last)
    PROVE  configured_private_key(c) \subseteq 0..last
<1> DEFINE v == ReadText(c, PrivateKey)
<1>1. Trim(v) \in {Blank} \cup {Key(i) : i \in 0..last}
  <2>1. CASE PrivateKey \in DOMAIN c
    <3>1. IsValue(c[PrivateKey]) BY <2>1 DEF Tended
    <3>2. Get(c, PrivateKey) # Missing BY <2>1, <3>1, GetBare
    <3>3. v = c[PrivateKey] BY <3>2 DEF ReadText
    <3> QED BY <2>1, <3>3 DEF Tended
  <2>2. CASE PrivateKey \notin DOMAIN c
    <3>1. v = Blank BY <2>2, DefaultsTended DEF ReadText, Get
    <3> QED BY <3>1, Forms, BareIsTrim
  <2> QED BY <2>1, <2>2
<1>2. Trim(v)[1] = "key" => Trim(v)[2] \in 0..last
  BY <1>1, Forms DEF Key
<1> HIDE DEF v
<1>3. configured_private_key(c) = IF Trim(v)[1] = "key" THEN {Trim(v)[2]} ELSE {}
  BY DEF configured_private_key, v
<1> QED BY <1>2, <1>3

\* The addresses of textures are on hosts the metadata names.
LEMMA Servable ==
    ASSUME NEW c, \A k \in DOMAIN c : IsValue(c[k])
    PROVE  texture_public_url(c) \cup required_texture_object_public_url(c) \subseteq metadata(c).skin_domains
<1>1. \A k : IsList(UsableItems(Get(c, k)))
  <2> SUFFICES ASSUME NEW k PROVE IsList(UsableItems(Get(c, k)))
    OBVIOUS
  <2>1. CASE Get(c, k)[1] = "items"
    <3>1. k \in DOMAIN c BY <2>1 DEF Get, Missing
    <3>2. IsList(Get(c, k)[2]) BY <2>1, <3>1, GetBare, BareIsTrim
    <3>3. UsableItems(Get(c, k)) = Deduped(Get(c, k)[2]) BY <2>1 DEF UsableItems
    <3> QED BY <3>2, <3>3, DedupedIsTidy DEF Tidy
  <2>2. CASE Get(c, k)[1] # "items" BY <2>2, SmallLists DEF UsableItems
  <2> QED BY <2>1, <2>2
<1> DEFINE urls == read_effective_public_base_urls(c)
<1>2. IsList(urls)
  BY <1>1 DEF read_effective_public_base_urls, public_site_urls
<1>3. urls # <<>> => urls[1] \in {urls[i] : i \in DOMAIN urls}
  BY <1>2 DEF IsList
<1>4. metadata(c).skin_domains = read_effective_skin_domains(c)
  BY DEF metadata
<1>5. {urls[i] : i \in DOMAIN urls} \cup read_texture_public_base_url(c) \subseteq read_effective_skin_domains(c)
  BY DEF read_effective_skin_domains
<1>6. texture_public_url(c) \subseteq {urls[i] : i \in DOMAIN urls}
  BY <1>3 DEF texture_public_url
<1> HIDE DEF urls
<1>7. required_texture_object_public_url(c) \in {read_texture_public_base_url(c), texture_public_url(c)}
  BY DEF required_texture_object_public_url
<1> QED BY <1>4, <1>5, <1>6, <1>7

\* The named limits are those of the rules of their keys.
LEMMA LimitedKeys ==
    ASSUME NEW k \in SystemKeys
    PROVE  /\ k = "auth_captcha_length" => RuleOf(k) = "length"
           /\ k = "auth_captcha_max_attempts" => RuleOf(k) = "attempts"
           /\ k = "texture_preview_3d_supersampling" => RuleOf(k) = "supersampling"
           /\ k = "mail_smtp_port" => RuleOf(k) = "port"
           /\ k = "branding_title" => RuleOf(k) = "display"
<1>1. CaptchaDefs \in Categories /\ PreviewViewDefs \in Categories /\ MailDefs \in Categories /\ SiteDefs \in Categories
  BY DEF Categories
<1>2. /\ {"auth_captcha_length", "auth_captcha_max_attempts"} \subseteq DOMAIN CaptchaDefs
      /\ CaptchaDefs["auth_captcha_length"].rule = "length" /\ CaptchaDefs["auth_captcha_max_attempts"].rule = "attempts"
  BY SMT DEF CaptchaDefs, Def, Bool
<1>3. /\ "texture_preview_3d_supersampling" \in DOMAIN PreviewViewDefs
      /\ PreviewViewDefs["texture_preview_3d_supersampling"].rule = "supersampling"
  BY SMT DEF PreviewViewDefs, Def, Bool
<1>4. "mail_smtp_port" \in DOMAIN MailDefs /\ MailDefs["mail_smtp_port"].rule = "port"
  BY SMT DEF MailDefs, Def, Bool
<1>5. "branding_title" \in DOMAIN SiteDefs /\ SiteDefs["branding_title"].rule = "display"
  BY SMT DEF SiteDefs, Def, Bool
<1> QED BY <1>1, <1>2, <1>3, <1>4, <1>5, Registry DEF RuleOf

\* Whatever the rows of a node hold, its policies are within their limits.
LEMMA BoundsHold ==
    ASSUME \A n \in Nodes : \A k \in DOMAIN snap[n] : IsValue(snap[n][k])
    PROVE  PoliciesInBounds
<1> SUFFICES ASSUME NEW n \in Nodes, NEW k \in DOMAIN snap[n] \cap SystemKeys,
                    NEW used \in {Effective(snap[n], k)}, used # Missing
             PROVE  /\ CONFIG_REGISTRY[k].rule = "positive" => AtLeast(used, 1) /\ (k = "background_task_max_attempts" => used # Huge)
                    /\ CONFIG_REGISTRY[k].rule = "bool" => used[1] = "bool"
                    /\ k = "auth_captcha_length" => Between(used, 4, 8)
                    /\ k = "auth_captcha_max_attempts" => Between(used, 1, 10)
                    /\ k = "texture_preview_3d_supersampling" => Between(used, 1, 4)
                    /\ k = "mail_smtp_port" => Between(used, 1, 65535)
                    /\ CONFIG_REGISTRY[k].rule \in {"subject", "body"} \/ k = "branding_title" => Trim(used) # Blank
  BY DEF PoliciesInBounds
<1>1. Sound(k, snap[n][k], used)
  BY AllSound
<1>2. Within(k, used)
  BY <1>1 DEF Sound
<1>3. /\ k = "auth_captcha_length" => RuleOf(k) = "length"
      /\ k = "auth_captcha_max_attempts" => RuleOf(k) = "attempts"
      /\ k = "texture_preview_3d_supersampling" => RuleOf(k) = "supersampling"
      /\ k = "mail_smtp_port" => RuleOf(k) = "port"
      /\ k = "branding_title" => RuleOf(k) = "display"
  BY LimitedKeys
<1>4. CONFIG_REGISTRY[k].rule = RuleOf(k)
  BY DEF RuleOf
<1> QED BY <1>2, <1>3, <1>4 DEF Within

----------------------------------------------------------------------------
(* The policies of every reachable state                                   *)

\* The rows, the snapshots and the rows a subscription has read.
RowsTended ==
    /\ fresh \in 0..MaxKey
    /\ Tended(db, fresh)
    /\ \A n \in Nodes : Tended(snap[n], fresh) /\ Tended(sub[n].rows, fresh)
\* A key on its way to the rows is one that was generated.
Generated(v) == v \in {Key(i) : i \in 0..fresh}
KeysMade ==
    /\ \A n \in Nodes : stage[n] = "save key" => Generated(found[n])
    /\ \A j \in Jobs : load.jobs[j].op = "rotate" /\ job[j].at \in {"public", "apply", "apply public"} => Generated(job[j].value)
\* What a request for a save works with: a value no normaliser changes any more, unless it was refused.
Checked(k, v) == IsValue(v) /\ (k \in SystemKeys \ Combined => Fixed(k, v))
SavesChecked ==
    \A j \in Jobs : load.jobs[j].op = "save" =>
        /\ job[j].at # "new" => job[j].value = Refused \/ Checked(Of(j), job[j].value)
        /\ job[j].at \in {"upsert", "apply"} => job[j].value # Refused /\ Of(j) # PrivateKey
PolicyInv == ConvergeInv /\ RowsTended /\ KeysMade /\ SavesChecked

\* Numbers of keys only grow.
LEMMA LaterKeys ==
    ASSUME RowsTended, fresh' \in 0..MaxKey, fresh' >= fresh
    PROVE  /\ \A c : Tended(c, fresh) => Tended(c, fresh')
           /\ \A v : Generated(v) => Generated(v)'
           /\ \A v : Generated(v)' => IsValue(v)
<1>1. fresh \in Nat /\ fresh' \in Nat /\ fresh <= fresh'
  BY ConfigAssumption DEF RowsTended
<1>2. \A c : Tended(c, fresh) => Tended(c, fresh')
  BY <1>1, LaterTended
<1>3. \A v : Generated(v) => Generated(v)'
  BY <1>1 DEF Generated
<1>4. \A v : Generated(v)' => IsValue(v)
  BY Forms, BareIsTrim DEF Generated
<1> QED BY <1>2, <1>3, <1>4

\* What the program would store of a value it accepts.
LEMMA NormalizeChecked ==
    ASSUME NEW c, NEW k, NEW raw, IsValue(raw)
    PROVE  Normalize(c, k, raw) = Refused \/ Checked(k, Normalize(c, k, raw))
<1>1. CASE k \notin SystemKeys
  <2>1. Normalize(c, k, raw) = raw BY <1>1 DEF Normalize
  <2> QED BY <1>1, <2>1 DEF Checked
<1>2. CASE k \in SystemKeys /\ Normalize(c, k, raw) # Refused
  <2> DEFINE v == Normalize(c, k, raw)
  <2>1. IsValue(v) /\ (RuleOf(k) \notin CorsRules => \A d : Normalize(d, k, v) = v)
    BY <1>2, StoredOnce
  <2>2. RuleOf(k) \in CorsRules => k \in Combined BY <1>2, KeyRules
  <2> HIDE DEF v
  <2>3. Checked(k, v) BY <2>1, <2>2 DEF Checked, Fixed
  <2> QED BY <2>3 DEF v
<1> QED BY <1>1, <1>2

\* The rows a deployment starts with.
LEMMA RelevantTended == \A last : Tended(Relevant, last)
<1> SUFFICES ASSUME NEW last PROVE Tended(Relevant, last)
  OBVIOUS
<1>1. DOMAIN Relevant \subseteq SystemKeys /\ \A k \in DOMAIN Relevant : Relevant[k] = Default(k)
  BY DEF Relevant, Default
<1>2. Trim(Blank) = Blank
  BY Forms, BareIsTrim
<1> QED BY <1>1, <1>2, DefaultsTended DEF Tended

LEMMA InitPolicies == ConfigInit => PolicyInv
<1> SUFFICES ASSUME ConfigInit PROVE PolicyInv
  OBVIOUS
<1>1. ConvergeInv
  BY InitConverge
<1>2. fresh = 0 /\ fresh \in 0..MaxKey
  BY ConfigAssumption DEF ConfigInit
<1>3. Tended(load.rows, 0)
  <2>1. /\ \A k \in DOMAIN load.rows : IsValue(load.rows[k])
        /\ PrivateKey \in DOMAIN load.rows => Trim(load.rows[PrivateKey]) \in {Blank, Key(0)}
    BY ConfigAssumption DEF ConfigInit
  <2>2. Key(0) \in {Key(i) : i \in 0..0} OBVIOUS
  <2> QED BY <2>1, <2>2 DEF Tended
<1>4. Tended(Over(load.rows, Relevant), 0)
  BY <1>3, RelevantTended, OverTended
<1>5. Tended(db, 0)
  BY <1>3, <1>4 DEF ConfigInit
<1>6. \A n \in Nodes : Tended(snap[n], 0) /\ Tended(sub[n].rows, 0)
  <2> SUFFICES ASSUME NEW n \in Nodes PROVE Tended(snap[n], 0) /\ Tended(sub[n].rows, 0)
    OBVIOUS
  <2>1. snap[n] \in {db, NoRows} /\ sub[n].rows = NoRows BY DEF ConfigInit
  <2> QED BY <1>5, <2>1, NoRowsTended
<1>7. /\ \A n \in Nodes : stage[n] # "save key"
      /\ \A j \in Jobs : job[j].at = "new"
  BY DEF ConfigInit
<1> QED BY <1>1, <1>2, <1>5, <1>6, <1>7 DEF PolicyInv, RowsTended, KeysMade, SavesChecked

\* The start of a node.
LEMMA StartPolicies ==
    ASSUME PolicyInv, Watch, NEW n \in Nodes, Started(n)
    PROVE  RowsTended' /\ KeysMade' /\ SavesChecked'
<1>1. load' = load /\ Jobs' = Jobs /\ Shapes
  BY DEF Watch, Jobs, PolicyInv, ConvergeInv
<1>2. /\ job' = job /\ sub' = sub /\ \A m \in Nodes \ {n} : stage'[m] = stage[m]
  BY <1>1 DEF Started, bootstrap_insecure_cookies, ensure_defaults, prepare_runtime_config, ensure_signature_key,
         SaveGeneratedKey, sync_public_key_config, Booting, reload, Shapes
<1>3. RowsTended /\ KeysMade /\ SavesChecked /\ fresh \in Nat /\ fresh \in 0..MaxKey /\ MaxKey \in Nat
  BY ConfigAssumption DEF PolicyInv, RowsTended
<1>4. SavesChecked'
  BY <1>1, <1>2, <1>3 DEF SavesChecked, Of
<1>5. CASE ensure_signature_key(n)
  <2>1. db' = db /\ snap' = snap BY <1>5 DEF ensure_signature_key, local
  <2>2. \/ fresh' = fresh + 1 /\ fresh < MaxKey /\ found' = [found EXCEPT ![n] = Key(fresh')]
        \/ fresh' = fresh /\ stage'[n] = "sync key" /\ \A m \in Nodes \ {n} : found'[m] = found[m]
    BY <1>1, <1>5 DEF ensure_signature_key, Booting, Shapes
  <2>3. fresh' \in 0..MaxKey /\ fresh' >= fresh
    <3>1. fresh' = fresh \/ fresh' = fresh + 1 BY <1>5 DEF ensure_signature_key
    <3>2. fresh' = fresh \/ fresh < MaxKey BY <1>5 DEF ensure_signature_key
    <3> QED BY <1>3, <3>1, <3>2
  <2>4. RowsTended' BY <1>2, <1>3, <2>1, <2>3, LaterKeys DEF RowsTended
  <2>5. \A m \in Nodes : stage'[m] = "save key" => Generated(found[m])' \/ found'[m] = Key(fresh')
    BY <1>1, <1>2, <1>3, <2>2, <2>3, LaterKeys DEF KeysMade, Shapes
  <2>6. Generated(Key(fresh))' BY <2>3 DEF Generated
  <2>7. KeysMade' BY <1>1, <1>2, <1>3, <2>3, <2>5, <2>6, LaterKeys DEF KeysMade
  <2> QED BY <1>4, <2>4, <2>7
<1>6. CASE ~ensure_signature_key(n)
  <2>1. fresh' = fresh /\ found' = found
    BY <1>6 DEF Started, bootstrap_insecure_cookies, ensure_defaults, prepare_runtime_config, SaveGeneratedKey,
         sync_public_key_config
  <2>2. stage'[n] # "save key"
    BY <1>1, <1>6 DEF Started, bootstrap_insecure_cookies, ensure_defaults, prepare_runtime_config, SaveGeneratedKey,
         sync_public_key_config, Booting, Shapes
  <2>3. KeysMade' BY <1>1, <1>2, <1>3, <2>1, <2>2 DEF KeysMade, Generated
  <2>4. Tended(db', fresh)
    <3>1. CASE bootstrap_insecure_cookies(n)
      <4>1. db' = db \/ db' = Put(db, "auth_cookie_secure", Bool(FALSE))
        BY <3>1 DEF bootstrap_insecure_cookies
      <4>2. IsValue(<<"bool", FALSE>>) BY Forms, BareIsTrim
      <4>3. Tended(Put(db, "auth_cookie_secure", <<"bool", FALSE>>), fresh)
        BY <1>3, <4>2, PutTended, KeyNames DEF RowsTended
      <4> QED BY <1>3, <4>1, <4>3 DEF RowsTended, Bool
    <3>2. CASE ensure_defaults(n)
      <4>1. db' = Over([k \in DOMAIN db \ DeprecatedKeys |-> db[k]], Relevant)
        BY <3>2 DEF ensure_defaults
      <4> DEFINE kept == [k \in DOMAIN db \ DeprecatedKeys |-> db[k]]
      <4>2. Tended(db, fresh) BY <1>3 DEF RowsTended
      <4>3. Tended(kept, fresh) BY <4>2, FewerTended
      <4> HIDE DEF kept
      <4>4. Tended(Over(kept, Relevant), fresh) BY <4>3, RelevantTended, OverTended
      <4> QED BY <4>1, <4>4 DEF kept
    <3>3. CASE prepare_runtime_config(n)
      BY <1>3, <3>3 DEF prepare_runtime_config, RowsTended
    <3>4. CASE SaveGeneratedKey(n)
      <4>1. db' = Put(db, PrivateKey, found[n]) /\ stage[n] = "save key"
        BY <3>4 DEF SaveGeneratedKey, Booting
      <4>2. found[n] \in {Key(i) : i \in 0..fresh} BY <1>3, <4>1 DEF KeysMade, Generated
      <4>3. IsValue(found[n]) BY <4>2, Forms, BareIsTrim
      <4> QED BY <1>3, <4>1, <4>2, <4>3, PutTended DEF RowsTended
    <3>5. CASE sync_public_key_config(n)
      <4>1. db' = db \/ db' = Put(db, PublicKey, Pub(found[n][2]))
        BY <3>5 DEF sync_public_key_config
      <4>2. IsValue(Pub(found[n][2])) BY Forms, BareIsTrim
      <4> QED BY <1>3, <4>1, <4>2, PutTended, KeyNames DEF RowsTended
    <3> QED BY <1>6, <3>1, <3>2, <3>3, <3>4, <3>5 DEF Started
  <2>5. \A m \in Nodes : snap'[m] \in {snap[m], db}
    BY <1>1 DEF Started, bootstrap_insecure_cookies, ensure_defaults, prepare_runtime_config, ensure_signature_key,
         SaveGeneratedKey, sync_public_key_config, local, Shapes
  <2>6. RowsTended' BY <1>2, <1>3, <2>1, <2>4, <2>5 DEF RowsTended
  <2> QED BY <1>4, <2>3, <2>6
<1> QED BY <1>5, <1>6

\* The subscription of a node, its restart and a lost notification.
LEMMA NodePolicies ==
    ASSUME PolicyInv, Watch, NEW n \in Nodes, Reload(n) \/ Restart(n) \/ LoseNotification(n)
    PROVE  RowsTended' /\ KeysMade' /\ SavesChecked'
<1>1. load' = load /\ Jobs' = Jobs /\ Shapes
  BY DEF Watch, Jobs, PolicyInv, ConvergeInv
<1>2. RowsTended /\ KeysMade /\ SavesChecked
  BY DEF PolicyInv
<1>3. db' = db /\ fresh' = fresh /\ found' = found
  BY DEF Reload, Receive, ReplaceSnapshot, ReplaceSettings, Restart, LoseNotification, starting
<1>4. \A m \in Nodes : snap'[m] \in {snap[m], sub[m].rows, NoRows} /\ sub'[m].rows \in {sub[m].rows, db, NoRows}
  <2>1. CASE Receive(n) BY <1>1, <2>1 DEF Receive, Shapes, local
  <2>2. CASE ReplaceSnapshot(n) BY <1>1, <2>2 DEF ReplaceSnapshot, Shapes
  <2>3. CASE ReplaceSettings(n) BY <1>1, <2>3 DEF ReplaceSettings, Shapes
  <2>4. CASE Restart(n) BY <1>1, <2>4 DEF Restart, Shapes
  <2>5. CASE LoseNotification(n) BY <1>1, <2>5 DEF LoseNotification, local
  <2> QED BY <2>1, <2>2, <2>3, <2>4, <2>5 DEF Reload
<1>5. RowsTended'
  BY <1>2, <1>3, <1>4, NoRowsTended DEF RowsTended
<1>6. \A m \in Nodes : stage'[m] = "save key" => stage[m] = "save key"
  <2>1. CASE Restart(n) BY <1>1, <2>1 DEF Restart, Shapes
  <2>2. CASE ~Restart(n)
    BY <2>2 DEF Reload, Receive, ReplaceSnapshot, ReplaceSettings, LoseNotification, starting
  <2> QED BY <2>1, <2>2
<1>7. \A j \in Jobs : job'[j] = job[j] \/ (job'[j].at = "done" /\ job'[j].value = job[j].value /\ job[j].at # "new")
  <2>1. CASE Restart(n) BY <1>1, <2>1 DEF Restart, Shapes, IsTable
  <2>2. CASE ~Restart(n)
    BY <2>2 DEF Reload, Receive, ReplaceSnapshot, ReplaceSettings, LoseNotification
  <2> QED BY <2>1, <2>2
<1>8. KeysMade'
  BY <1>1, <1>2, <1>3, <1>6, <1>7 DEF KeysMade, Generated
<1>9. SavesChecked'
  BY <1>1, <1>2, <1>7 DEF SavesChecked, Of
<1> QED BY <1>5, <1>8, <1>9

\* What a request does to its own value.
LEMMA RequestValue ==
    ASSUME Shapes, NEW j \in Jobs, Request(j) \/ PublishFails(j)
    PROVE  \/ save_config(j) \/ execute_action(j) \/ execute_yggdrasil_action(j)
           \/ job'[j].value = job[j].value /\ job[j].at # "new" /\ fresh' = fresh
           \/ job'[j].value = job[j].value /\ load.jobs[j].op = "delete" /\ fresh' = fresh
<1>1. \A s : To(j, s) => job'[j].value = job[j].value
  BY DEF To, Shapes, IsTable
<1>2. CASE Upsert(j)
  BY <1>1, <1>2 DEF Upsert, At
<1>3. CASE ApplySaved(j)
  BY <1>1, <1>3 DEF ApplySaved, At
<1>4. CASE build_audit_log_settings(j)
  BY <1>4 DEF build_audit_log_settings, At, Shapes, IsTable
<1>5. CASE WriteSettings(j)
  BY <1>1, <1>5 DEF WriteSettings, At
<1>6. CASE RemoveDeleted(j)
  BY <1>1, <1>6 DEF RemoveDeleted, At
<1>7. CASE RotatePublic(j)
  BY <1>1, <1>7 DEF RotatePublic, At
<1>8. CASE ApplyPrivate(j)
  BY <1>1, <1>8 DEF ApplyPrivate, At
<1>9. CASE ApplyPublic(j)
  BY <1>1, <1>9 DEF ApplyPublic, At
<1>10. CASE Publish(j)
  BY <1>1, <1>10 DEF Publish, At
<1>11. CASE PublishFails(j)
  BY <1>1, <1>11 DEF PublishFails, At
<1>12. CASE delete_with_audit(j)
  BY <1>1, <1>12 DEF delete_with_audit, delete_config, At
<1>13. CASE DeleteRow(j)
  <2>1. job[j].at = "delete" /\ fresh' = fresh BY <1>13 DEF DeleteRow, At
  <2>2. To(j, "remove") \/ To(j, "refused") BY <1>13 DEF DeleteRow
  <2> QED BY <1>1, <2>1, <2>2
<1> QED BY <1>2, <1>3, <1>4, <1>5, <1>6, <1>7, <1>8, <1>9, <1>10, <1>11, <1>12, <1>13 DEF Request

\* The requests.
LEMMA RequestPolicies ==
    ASSUME PolicyInv, Watch, NEW j \in Jobs, Request(j) \/ PublishFails(j)
    PROVE  RowsTended' /\ KeysMade' /\ SavesChecked'
<1>1. Shapes /\ Fits /\ RowsTended /\ KeysMade /\ SavesChecked /\ fresh \in Nat /\ MaxKey \in Nat
  BY ConfigAssumption DEF PolicyInv, ConvergeInv, RowsTended
<1>2. /\ Shapes' /\ Jobs' = Jobs /\ load' = load /\ \A i \in Jobs \ {j} : job'[i] = job[i]
      /\ stage' = stage /\ found' = found /\ sub' = sub /\ Here(j) \in Nodes
      /\ \A n \in Nodes \ {Here(j)} : snap'[n] = snap[n]
  BY <1>1, RequestFrame
<1>3. Moves(j)
  BY <1>1, RequestMoves
<1>4. fresh' \in 0..MaxKey /\ fresh' >= fresh
  <2>1. CASE execute_yggdrasil_action(j) BY <1>1, <2>1 DEF execute_yggdrasil_action
  <2>2. CASE ~execute_yggdrasil_action(j)
    <3>1. fresh' = fresh
      BY <2>2 DEF Request, save_config, Upsert, ApplySaved, build_audit_log_settings, WriteSettings, delete_with_audit,
           DeleteRow, RemoveDeleted, execute_action, RotatePublic, ApplyPrivate, ApplyPublic, Publish, PublishFails
    <3> QED BY <1>1, <3>1 DEF RowsTended
  <2> QED BY <2>1, <2>2
<1>5. /\ \A c : Tended(c, fresh) => Tended(c, fresh')
      /\ \A v : Generated(v) => Generated(v)'
      /\ \A v : Generated(v)' => IsValue(v)
  BY <1>1, <1>4, LaterKeys
<1>6. SavesChecked'
  <2> SUFFICES ASSUME NEW i \in Jobs, load.jobs[i].op = "save"
               PROVE  /\ job'[i].at # "new" => job'[i].value = Refused \/ Checked(Of(i), job'[i].value)
                      /\ job'[i].at \in {"upsert", "apply"} => job'[i].value # Refused /\ Of(i) # PrivateKey
    BY <1>2 DEF SavesChecked, Of
  <2>1. CASE i # j BY <1>1, <1>2, <2>1 DEF SavesChecked
  <2>2. CASE i = j /\ save_config(j)
    <3> DEFINE raw == load.jobs[j].value
               v == Normalize(snap[Here(j)], Of(j), raw)
    <3>1. IsValue(raw) BY <1>1, ConfigAssumption DEF Shapes, Jobs
    <3>2. v = Refused \/ Checked(Of(j), v) BY <3>1, NormalizeChecked
    <3> HIDE DEF v
    <3>3. job' = [job EXCEPT ![j].at = IF validate_targets(j) /\ v # Refused THEN "upsert" ELSE "refused", ![j].value = v]
      BY <2>2 DEF save_config, v
    <3>4. job'[j].value = v /\ (job'[j].at \in {"upsert", "apply"} => validate_targets(j) /\ v # Refused)
      BY <1>1, <3>3 DEF Shapes, IsTable
    <3> QED BY <2>2, <3>2, <3>4 DEF validate_targets
  <2>3. CASE i = j /\ ~save_config(j)
    <3>1. job[j].at # "new" /\ job'[j].value = job[j].value
      BY <1>1, <2>3, RequestValue DEF execute_action, execute_config_action, execute_yggdrasil_action, At
    <3>2. job'[j].at \in {"upsert", "apply"} => job[j].at = "upsert"
      BY <1>3, <2>3, <3>1 DEF Moves
    <3> QED BY <1>1, <2>3, <3>1, <3>2 DEF SavesChecked
  <2> QED BY <2>1, <2>2, <2>3
<1>7. KeysMade'
  <2>1. \A n \in Nodes : stage'[n] = "save key" => Generated(found[n])'
    BY <1>1, <1>2, <1>5 DEF KeysMade
  <2>2. ASSUME NEW i \in Jobs, load.jobs[i].op = "rotate", job'[i].at \in {"public", "apply", "apply public"}
        PROVE  Generated(job[i].value)'
    <3>1. CASE i # j BY <1>1, <1>2, <1>5, <2>2, <3>1 DEF KeysMade
    <3>2. CASE i = j /\ execute_yggdrasil_action(j)
      <4>1. job'[j].value = Key(fresh')
        BY <1>1, <3>2 DEF execute_yggdrasil_action, Shapes, IsTable
      <4> QED BY <1>4, <3>2, <4>1 DEF Generated
    <3>3. CASE i = j /\ ~execute_yggdrasil_action(j)
      <4>1. job[j].at # "new" /\ job'[j].value = job[j].value
        BY <1>1, <2>2, <3>3, RequestValue DEF execute_action, execute_config_action, save_config, set_config, At
      <4>2. job[j].at \in {"public", "apply", "apply public"}
        BY <1>3, <2>2, <3>3, <4>1 DEF Moves
      <4> QED BY <1>1, <1>5, <2>2, <3>3, <4>1, <4>2 DEF KeysMade
    <3> QED BY <3>1, <3>2, <3>3
  <2> QED BY <1>2, <2>1, <2>2 DEF KeysMade
<1>8. Tended(db', fresh')
  <2>0. Tended(db, fresh') BY <1>1, <1>5 DEF RowsTended
  <2>1. CASE Upsert(j)
    <3>1. db' = Put(db, Of(j), job[j].value) /\ job[j].at = "upsert" /\ load.jobs[j].op = "save"
      BY <2>1 DEF Upsert, At
    <3>2. IsValue(job[j].value) /\ Of(j) # PrivateKey
      BY <1>1, <3>1 DEF SavesChecked, Checked
    <3> QED BY <2>0, <3>1, <3>2, PutTended
  <2>2. CASE DeleteRow(j)
    <3>1. db' = db \/ db' = [k \in DOMAIN db \ {Of(j)} |-> db[k]] BY <2>2 DEF DeleteRow
    <3>2. Tended([k \in DOMAIN db \ {Of(j)} |-> db[k]], fresh') BY <2>0, FewerTended
    <3> QED BY <2>0, <3>1, <3>2
  <2>3. CASE execute_yggdrasil_action(j)
    <3>1. db' = Put(db, PrivateKey, Key(fresh')) BY <2>3 DEF execute_yggdrasil_action
    <3>2. Key(fresh') \in {Key(i) : i \in 0..fresh'} /\ IsValue(Key(fresh'))
      BY <1>4, Forms, BareIsTrim
    <3> QED BY <2>0, <3>1, <3>2, PutTended
  <2>4. CASE RotatePublic(j)
    <3>1. db' = Put(db, PublicKey, Pub(job[j].value[2])) BY <2>4 DEF RotatePublic
    <3>2. IsValue(Pub(job[j].value[2])) BY Forms, BareIsTrim
    <3> QED BY <2>0, <3>1, <3>2, PutTended, KeyNames
  <2>5. CASE ~(Upsert(j) \/ DeleteRow(j) \/ execute_yggdrasil_action(j) \/ RotatePublic(j))
    <3>1. db' = db
      BY <2>5 DEF Request, save_config, ApplySaved, build_audit_log_settings, WriteSettings, delete_with_audit,
           RemoveDeleted, execute_action, ApplyPrivate, ApplyPublic, Publish, PublishFails
    <3> QED BY <2>0, <3>1
  <2> QED BY <2>1, <2>2, <2>3, <2>4, <2>5
<1>9. Tended(snap'[Here(j)], fresh')
  <2> DEFINE c == snap[Here(j)]
  <2>0. Tended(c, fresh') BY <1>1, <1>2, <1>5 DEF RowsTended
  <2>1. CASE ApplySaved(j)
    <3>1. snap'[Here(j)] = Put(c, Of(j), job[j].value) /\ job[j].at = "apply" /\ load.jobs[j].op = "save"
      BY <1>1, <1>2, <2>1 DEF ApplySaved, At, Shapes
    <3>2. IsValue(job[j].value) /\ Of(j) # PrivateKey
      BY <1>1, <3>1 DEF SavesChecked, Checked
    <3> QED BY <2>0, <3>1, <3>2, PutTended
  <2>2. CASE RemoveDeleted(j)
    <3>1. snap'[Here(j)] = [k \in DOMAIN c \ {Of(j)} |-> c[k]]
      BY <1>1, <1>2, <2>2 DEF RemoveDeleted, Shapes
    <3>2. Tended([k \in DOMAIN c \ {Of(j)} |-> c[k]], fresh') BY <2>0, FewerTended
    <3> QED BY <3>1, <3>2
  <2>3. CASE ApplyPrivate(j)
    <3>1. snap'[Here(j)] = Put(c, PrivateKey, job[j].value) /\ job[j].at = "apply" /\ load.jobs[j].op = "rotate"
      BY <1>1, <1>2, <2>3 DEF ApplyPrivate, At, Shapes
    <3>2. Generated(job[j].value) BY <1>1, <3>1 DEF KeysMade
    <3>3. job[j].value \in {Key(i) : i \in 0..fresh} /\ fresh' = fresh
      BY <2>3, <3>2 DEF Generated, ApplyPrivate
    <3>4. IsValue(job[j].value) BY <3>3, Forms, BareIsTrim
    <3> QED BY <2>0, <3>1, <3>3, <3>4, PutTended
  <2>4. CASE ApplyPublic(j)
    <3>1. snap'[Here(j)] = Put(c, PublicKey, Pub(job[j].value[2]))
      BY <1>1, <1>2, <2>4 DEF ApplyPublic, Shapes
    <3>2. IsValue(Pub(job[j].value[2])) BY Forms, BareIsTrim
    <3> QED BY <2>0, <3>1, <3>2, PutTended, KeyNames
  <2>5. CASE ~(ApplySaved(j) \/ RemoveDeleted(j) \/ ApplyPrivate(j) \/ ApplyPublic(j))
    <3>1. snap' = snap
      BY <2>5 DEF Request, save_config, Upsert, build_audit_log_settings, WriteSettings, delete_with_audit,
           DeleteRow, execute_action, execute_yggdrasil_action, RotatePublic, Publish, PublishFails, local
    <3> QED BY <2>0, <3>1
  <2> QED BY <2>1, <2>2, <2>3, <2>4, <2>5
<1>10. RowsTended'
  BY <1>1, <1>2, <1>4, <1>5, <1>8, <1>9 DEF RowsTended
<1> QED BY <1>6, <1>7, <1>10

\* Nothing accepted is stored and then ignored.
LEMMA SavedHolds == PolicyInv => SavedIsEffective
<1> SUFFICES ASSUME PolicyInv, NEW j \in Jobs, load.jobs[j].op = "save", job[j].at \in {"publish", "done"},
                    Of(j) \in DOMAIN db \cap (SystemKeys \ Combined), db[Of(j)] = job[j].value
             PROVE  /\ \A used \in {Effective(db, Of(j))} :
                         \/ used \in {Missing, job[j].value, Trim(job[j].value)}
                         \/ job[j].value \in {Blank, Text("legacy")} /\ used = Default(Of(j))
                    /\ Normalize(db, Of(j), job[j].value) = job[j].value
  BY DEF SavedIsEffective
<1> DEFINE k == Of(j)
           v == job[j].value
<1>1. IsValue(db[k])
  BY DEF PolicyInv, RowsTended, Tended
<1>2. v # Refused
  <2>1. IsBare(Trim(v)) BY <1>1, TrimIsBare
  <2>2. Trim(Refused) = Refused BY DEF Refused, Trim
  <2> QED BY <2>1, <2>2, BareIsTrim
<1>3. Fixed(k, v)
  BY <1>2 DEF PolicyInv, SavesChecked, Checked
<1>4. Sound(k, v, Effective(db, k))
  BY <1>1, AllSound
<1>5. AsStored(k, v, Effective(db, k))
  BY <1>3, <1>4 DEF Sound
<1> QED BY <1>3, <1>5 DEF AsStored, Fixed

\* What an administrator saves, or a row holds, is used within the limits of the program, whatever is
\* saved at once on several nodes: no open policy for other origins, no lifetime, interval or limit out
\* of its bounds, nothing accepted and then ignored, no texture on a host launchers refuse.
THEOREM PoliciesHold == ConfigSpec => []PoliciesSound
<1>1. ConfigInit => PolicyInv
  BY InitPolicies
<1>2. PolicyInv /\ [ConfigNext]_configVars => PolicyInv'
  <2> SUFFICES ASSUME PolicyInv, [ConfigNext]_configVars PROVE PolicyInv'
    OBVIOUS
  <2>1. ConvergeInv' BY NextConverge DEF PolicyInv
  <2>2. CASE UNCHANGED configVars
    <3>1. Jobs' = Jobs /\ RowsTended' /\ KeysMade'
      BY <2>2 DEF PolicyInv, configVars, Jobs, RowsTended, KeysMade, Generated
    <3>2. SavesChecked' BY <2>2, <3>1 DEF PolicyInv, configVars, SavesChecked, Of
    <3> QED BY <2>1, <3>1, <3>2 DEF PolicyInv
  <2>3. CASE ConfigNext
    <3>1. RowsTended' /\ KeysMade' /\ SavesChecked'
      BY <2>3, StartPolicies, NodePolicies, RequestPolicies DEF ConfigNext, Step
    <3> QED BY <2>1, <3>1 DEF PolicyInv
  <2> QED BY <2>2, <2>3
<1>3. PolicyInv => PoliciesSound
  <2> SUFFICES ASSUME PolicyInv PROVE PoliciesSound
    OBVIOUS
  <2>1. /\ Shapes /\ Tended(db, fresh) /\ fresh \in 0..MaxKey
        /\ \A n \in Nodes : Tended(snap[n], fresh)
    BY DEF PolicyInv, ConvergeInv, RowsTended
  <2>2. ConfigTypeOK
    <3>1. \A n \in Nodes : configured_private_key(snap[n]) \subseteq 0..fresh
      BY <2>1, SigningKey
    <3>2. PrivateKey \in DOMAIN db => Get(db, PrivateKey) \in {Blank} \cup {Key(i) : i \in 0..fresh}
      BY <2>1, GetIn DEF Tended
    <3> QED BY <2>1, <3>1, <3>2 DEF ConfigTypeOK, Shapes
  <2>3. PoliciesInBounds BY <2>1, BoundsHold DEF Tended
  <2>4. TexturesServable BY <2>1, Servable DEF TexturesServable, Tended
  <2>5. CorsNeverOpen BY CorsPolicy DEF CorsNeverOpen
  <2> QED BY <2>2, <2>3, <2>4, <2>5, SavedHolds DEF PoliciesSound
<1> QED BY <1>1, <1>2, <1>3, PTL DEF ConfigSpec

----------------------------------------------------------------------------
(* TaskLease                                                               *)

USE TaskAssumption

\* Capacities are natural numbers.
LEMMA AvailableType == Available \in Nat
<1>1. IsFiniteSet(ActiveProcessing)
  BY FS_Subset DEF ActiveProcessing
<1>2. Cardinality(ActiveProcessing) \in Nat
  BY <1>1, FS_CardinalityType
<1> QED BY <1>2 DEF Available

----------------------------------------------------------------------------
(* Types *)

\* The empty table and idle dispatchers are well typed.
LEMMA InitType == Init => TypeOK
BY DEF Init, TypeOK, AbsentRow, Idle, Row, Status, Snap

\* The outcome rows are rows without a lease.
LEMMA OutcomeRows ==
    ASSUME TypeOK, NEW r \in Snap, NEW b \in BOOLEAN
    PROVE  /\ RetryRow(r) \in Row /\ RetryRow(r).lease = "none"
           /\ RetryRow(r).status = "retry"
           /\ RetryRow(r).token = task[r.task].token
           /\ FailedRow(r, b) \in Row /\ FailedRow(r, b).lease = "none"
           /\ FailedRow(r, b).status = "failed"
           /\ FailedRow(r, b).token = task[r.task].token
<1>1. task[r.task] \in Row /\ r.attempts + 1 \in Nat
  BY DEF TypeOK, Snap
<1>2. RetryRow(r) \in Row /\ FailedRow(r, b) \in Row
  BY <1>1 DEF RetryRow, FailedRow, Row, Status
<1>3. /\ RetryRow(r).lease = "none" /\ RetryRow(r).status = "retry"
      /\ RetryRow(r).token = task[r.task].token
  BY <1>1 DEF RetryRow, Row
<1>4. /\ FailedRow(r, b).lease = "none" /\ FailedRow(r, b).status = "failed"
      /\ FailedRow(r, b).token = task[r.task].token
  BY <1>1 DEF FailedRow, Row
<1> QED BY <1>2, <1>3, <1>4

\* Writing a row without a lease and with another status keeps the types.
LEMMA WritesType ==
    ASSUME TypeOK, NEW d \in Disps, NEW r \in Snap, NEW row \in Row,
           row.lease = "none", row.status # "processing", Writes(d, r, row)
    PROVE  /\ task' \in [Tasks -> Row]
           /\ author' \in [Tasks -> Disps \cup {NULL}]
           /\ \A t \in Tasks : task'[t].lease # "none" <=> task'[t].status = "processing"
BY DEF TypeOK, Writes, Snap

\* Ending a run keeps the batches well typed.
LEMMA DropsType ==
    ASSUME TypeOK, NEW d \in Disps, NEW r, Drops(d, r)
    PROVE  runs' \in [Disps -> SUBSET Snap]
BY DEF TypeOK, Drops

\* The members of a batch are rows as read.
LEMMA RunsAreSnaps ==
    ASSUME TypeOK, NEW d \in Disps, NEW r \in runs[d]
    PROVE  r \in Snap
BY DEF TypeOK

\* Every step of a dispatcher, a row or an administrator keeps the types.
LEMMA NextType == TypeOK /\ [Next]_vars => TypeOK'
<1> SUFFICES ASSUME TypeOK, [Next]_vars PROVE TypeOK'
  OBVIOUS
<1>1. ASSUME NEW t \in Tasks, CreateTask(t) \/ RecordRun(t) \/ Due(t)
                                \/ CleanupTask(t)
      PROVE  TypeOK'
  <2>1. task[t] \in Row BY DEF TypeOK
  <2>2. PICK s \in Status \ {"processing"}, b \in BOOLEAN :
          /\ task' = [task EXCEPT ![t] = [task[t] EXCEPT !.status = s, !.due = b]]
          /\ task[t].status # "processing"
    <3> USE DEF Row, Status, Terminal
    <3>1. ASSUME NEW s \in Status \ {"processing"}, NEW b \in BOOLEAN,
                 task[t].status # "processing",
                 task' = [task EXCEPT ![t] = [task[t] EXCEPT !.status = s, !.due = b]]
          PROVE  \E s1 \in Status \ {"processing"}, b1 \in BOOLEAN :
                   /\ task' = [task EXCEPT ![t] =
                                [task[t] EXCEPT !.status = s1, !.due = b1]]
                   /\ task[t].status # "processing"
      BY <3>1
    <3>2. CASE CreateTask(t)
      <4>1. task' = [task EXCEPT ![t] =
                      [task[t] EXCEPT !.status = "pending", !.due = TRUE]]
        BY <3>2 DEF CreateTask, TypeOK
      <4> QED BY <3>1, <3>2, <4>1 DEF CreateTask
    <3>3. CASE RecordRun(t)
      <4>1. PICK s \in Terminal : task' = [task EXCEPT ![t] =
                                   [task[t] EXCEPT !.status = s, !.due = TRUE]]
        BY <3>3 DEF RecordRun, TypeOK
      <4> QED BY <3>1, <3>3, <4>1 DEF RecordRun
    <3>4. CASE Due(t)
      <4>1. task' = [task EXCEPT ![t] =
                      [task[t] EXCEPT !.status = "retry", !.due = TRUE]]
        <5>1. task' = [task EXCEPT ![t] = [task[t] EXCEPT !.due = TRUE]]
          BY <3>4 DEF Due, TypeOK
        <5>2. [task[t] EXCEPT !.due = TRUE]
                = [task[t] EXCEPT !.status = "retry", !.due = TRUE]
          BY <2>1, <3>4 DEF Due
        <5> QED BY <5>1, <5>2
      <4> QED BY <3>1, <3>4, <4>1 DEF Due
    <3>5. CASE CleanupTask(t)
      <4>1. task' = [task EXCEPT ![t] =
                      [task[t] EXCEPT !.status = "removed", !.due = task[t].due]]
        <5>1. task' = [task EXCEPT ![t] = [task[t] EXCEPT !.status = "removed"]]
          BY <3>5 DEF CleanupTask, TypeOK
        <5>2. [task[t] EXCEPT !.status = "removed"]
                = [task[t] EXCEPT !.status = "removed", !.due = task[t].due]
          BY <2>1
        <5> QED BY <5>1, <5>2
      <4> QED BY <2>1, <3>1, <3>5, <4>1 DEF CleanupTask
    <3> QED BY <1>1, <3>2, <3>3, <3>4, <3>5
  <2>3. [task[t] EXCEPT !.status = s, !.due = b] \in Row BY <2>1 DEF Row
  <2> QED
    BY <1>1, <2>1, <2>2, <2>3
       DEF TypeOK, CreateTask, RecordRun, Due, CleanupTask, history, Row
<1>2. ASSUME NEW t \in Tasks, LeaseExpires(t) PROVE TypeOK'
  <2>1. faults' \in Nat BY <1>2 DEF LeaseExpires, Fault, TypeOK
  <2> QED BY <1>2, <2>1 DEF TypeOK, LeaseExpires, history, Row, Status
<1>3. ASSUME NEW d \in Disps, ListClaimable(d) PROVE TypeOK'
  <2>1. {[task |-> t, token |-> task[t].token, attempts |-> task[t].attempts] :
            t \in {u \in Tasks : Claimable(u)}} \in SUBSET Snap
    BY DEF TypeOK, Snap, Row
  <2> QED BY <1>3, <2>1 DEF TypeOK, ListClaimable, Idle, history
<1>4. ASSUME NEW d \in Disps, CountActive(d) PROVE TypeOK'
  BY <1>4, AvailableType DEF TypeOK, CountActive, Idle, history
<1>5. ASSUME NEW d \in Disps, ClaimCandidates(d) PROVE TypeOK'
  <2>1. PICK S \in SUBSET {c \in disp[d].cand : CanClaim(c)} :
          /\ task' = [t \in Tasks |->
               IF \E c \in S : c.task = t
               THEN [task[t] EXCEPT
                       !.status = "processing", !.lease = "live",
                       !.token = (CHOOSE c \in S : c.task = t).token + 1]
               ELSE task[t]]
          /\ runs' = [runs EXCEPT ![d] =
               {[c EXCEPT !.token = c.token + 1] : c \in S}]
          /\ owner' = [t \in Tasks |->
               IF \E c \in S : c.task = t THEN d ELSE owner[t]]
          /\ author' = [t \in Tasks |->
               IF \E c \in S : c.task = t THEN NULL ELSE author[t]]
    BY <1>5 DEF ClaimCandidates
  <2>2. S \subseteq Snap BY DEF TypeOK
  <2>3. ASSUME NEW t \in Tasks PROVE task'[t] \in Row
    <3>1. task[t] \in Row BY DEF TypeOK
    <3>2. CASE \E c \in S : c.task = t
      <4> DEFINE n == (CHOOSE c \in S : c.task = t).token + 1
      <4>1. n \in Nat BY <2>2, <3>2 DEF Snap
      <4>2. task'[t] = [task[t] EXCEPT !.status = "processing",
                                       !.lease = "live", !.token = n]
        BY <2>1, <3>2
      <4> HIDE DEF n
      <4> QED BY <3>1, <4>1, <4>2 DEF Row, Status
    <3> QED BY <2>1, <3>1, <3>2
  <2>4. ASSUME NEW t \in Tasks
        PROVE  task'[t].lease # "none" <=> task'[t].status = "processing"
    <3>1. task[t] \in Row BY DEF TypeOK
    <3>2. CASE \E c \in S : c.task = t
      <4>1. ASSUME NEW n
            PROVE  LET row == [task[t] EXCEPT !.status = "processing",
                                              !.lease = "live", !.token = n]
                   IN  row.lease = "live" /\ row.status = "processing"
        BY <3>1 DEF Row
      <4> QED BY <2>1, <3>2, <4>1
    <3>3. CASE ~\E c \in S : c.task = t BY <2>1, <3>3 DEF TypeOK
    <3> QED BY <3>2, <3>3
  <2>5. {[c EXCEPT !.token = c.token + 1] : c \in S} \in SUBSET Snap BY <2>2 DEF Snap
  <2>6. owner' \in [Tasks -> Disps \cup {NULL}]
        /\ author' \in [Tasks -> Disps \cup {NULL}]
    BY <2>1 DEF TypeOK
  <2>7. runs' \in [Disps -> SUBSET Snap] BY <2>1, <2>5 DEF TypeOK
  <2>8. task' \in [Tasks -> Row] BY <2>1, <2>3
  <2> QED BY <1>5, <2>4, <2>6, <2>7, <2>8 DEF TypeOK, ClaimCandidates, Idle
<1>6. ASSUME NEW d \in Disps, Crash(d) PROVE TypeOK'
  BY <1>6 DEF TypeOK, Crash, Fault, Idle, history
<1>7. ASSUME NEW d \in Disps, NEW r \in runs[d], RunStep(d, r) PROVE TypeOK'
  <2>1. r \in Snap BY RunsAreSnaps
  <2>2. task[r.task] \in Row BY <2>1 DEF TypeOK, Snap
  <2>3. CASE Heartbeat(d, r)
    BY <2>1, <2>2, <2>3 DEF TypeOK, Heartbeat, Holds, history, Row, Status, Snap
  <2>4. CASE LeaseLost(d, r) BY <2>4, DropsType DEF TypeOK, LeaseLost, history
  <2>5. CASE Succeed(d, r)
    <3>1. [task[r.task] EXCEPT !.status = "succeeded", !.lease = "none"] \in Row
      BY <2>2 DEF Row, Status
    <3>2. /\ task' \in [Tasks -> Row]
          /\ author' \in [Tasks -> Disps \cup {NULL}]
          /\ \A t \in Tasks : task'[t].lease # "none" <=> task'[t].status = "processing"
      BY <2>1, <2>2, <2>5, <3>1, WritesType DEF Succeed, Row
    <3> QED BY <2>5, <3>2, DropsType DEF TypeOK, Succeed
  <2>6. ASSUME NEW class \in {"auto", "manual", "never"}, RunFails(d, r, class)
        PROVE  TypeOK'
    <3> DEFINE row == IF class = "auto" /\ r.attempts + 1 < MaxAttempts
                      THEN RetryRow(r) ELSE FailedRow(r, class # "never")
    <3>1. (class # "never") \in BOOLEAN OBVIOUS
    <3>2. row \in Row /\ row.lease = "none" /\ row.status # "processing"
      BY <2>1, <3>1, OutcomeRows
    <3>3. Writes(d, r, row) BY <2>6 DEF RunFails
    <3> HIDE DEF row
    <3>4. /\ task' \in [Tasks -> Row]
          /\ author' \in [Tasks -> Disps \cup {NULL}]
          /\ \A t \in Tasks : task'[t].lease # "none" <=> task'[t].status = "processing"
      BY <2>1, <3>2, <3>3, WritesType
    <3>5. failures' \in [Tasks -> Nat] BY <2>1, <2>6 DEF TypeOK, RunFails, Snap
    <3> QED BY <2>6, <3>4, <3>5, DropsType DEF TypeOK, RunFails
  <2>7. CASE ReleaseRun(d, r)
    <3>1. [task[r.task] EXCEPT !.status = "retry", !.lease = "none", !.due = TRUE]
            \in Row
      BY <2>2 DEF Row, Status
    <3>2. /\ task' \in [Tasks -> Row]
          /\ author' \in [Tasks -> Disps \cup {NULL}]
          /\ \A t \in Tasks : task'[t].lease # "none" <=> task'[t].status = "processing"
      BY <2>1, <2>2, <2>7, <3>1, WritesType DEF ReleaseRun, Row
    <3> QED BY <2>7, <3>2, DropsType DEF TypeOK, ReleaseRun, Fault
  <2>8. CASE LoseOutcome(d, r) BY <2>8, DropsType DEF TypeOK, LoseOutcome, Fault, history
  <2> QED BY <1>7, <2>3, <2>4, <2>5, <2>6, <2>7, <2>8 DEF RunStep
<1>8. ASSUME NEW a \in Admins, NEW t \in Tasks, RetryRead(a, t) PROVE TypeOK'
  BY <1>8 DEF TypeOK, RetryRead, history
<1>9. ASSUME NEW a \in Admins, RetryReset(a) PROVE TypeOK'
  <2>1. admin[a] \in Tasks BY <1>9 DEF TypeOK, RetryReset
  <2>2. CASE task[admin[a]].status = "failed"
    <3> DEFINE row == [task[admin[a]] EXCEPT !.status = "pending", !.attempts = 0,
                                             !.canRetry = FALSE, !.due = TRUE]
    <3>1. task' = [task EXCEPT ![admin[a]] = row]
      BY <1>9, <2>1, <2>2 DEF TypeOK, RetryReset, Row
    <3>2. task[admin[a]] \in Row BY <2>1 DEF TypeOK
    <3>3. row \in Row BY <3>2 DEF Row, Status
    <3>4. row.status = "pending" /\ row.lease = task[admin[a]].lease BY <3>2 DEF Row
    <3>5. task[admin[a]].lease = "none" BY <2>1, <2>2 DEF TypeOK
    <3> HIDE DEF row
    <3>6. /\ task' \in [Tasks -> Row]
          /\ \A t \in Tasks : task'[t].lease # "none" <=> task'[t].status = "processing"
      BY <2>1, <3>1, <3>3, <3>4, <3>5 DEF TypeOK
    <3> QED BY <1>9, <2>1, <2>2, <3>6 DEF TypeOK, RetryReset
  <2>3. CASE task[admin[a]].status # "failed" BY <1>9, <2>1, <2>3 DEF TypeOK, RetryReset
  <2> QED BY <2>2, <2>3
<1>10. CASE UNCHANGED vars
  BY <1>10 DEF TypeOK, vars, history
<1> QED
  BY <1>1, <1>2, <1>3, <1>4, <1>5, <1>6, <1>7, <1>8, <1>9, <1>10
     DEF Next, RowStep, DispStep, AdminStep

\* The table, the batches and the lane always have their types, and a row
\* carries a lease exactly while it is processing.
THEOREM TypeCorrect == Spec => []TypeOK
BY InitType, NextType, PTL DEF Spec

----------------------------------------------------------------------------
(* What a step does to the table *)

\* The status changes of TaskLifecycle, without claims
Legal(s, n) ==
    \/ s = n
    \/ s = "absent" /\ n \in {"pending", "succeeded", "failed"}
    \/ s = "processing" /\ n \in {"retry", "succeeded", "failed"}
    \/ s = "failed" /\ n = "pending"
    \/ s \in Terminal /\ n = "removed"

\* At most one row changes, legally, and it keeps its token
OneRow ==
    \/ task' = task
    \/ \E t \in Tasks, row \in Row :
        /\ task' = [task EXCEPT ![t] = row]
        /\ row.token = task[t].token
        /\ Legal(task[t].status, row.status)

\* Every step but a batch claim changes at most one row and no token.
LEMMA StepsChangeOneRow ==
    ASSUME TypeOK, [Next]_vars, \A d \in Disps : ~ClaimCandidates(d)
    PROVE  OneRow
<1> USE DEF Row, Status, Terminal
<1>0. ASSUME NEW t \in Tasks, NEW row \in Row, task' = [task EXCEPT ![t] = row],
             row.token = task[t].token, Legal(task[t].status, row.status)
      PROVE  OneRow
  BY <1>0 DEF OneRow
<1>00. ASSUME NEW t \in Tasks PROVE task[t] \in Row
  BY DEF TypeOK
<1>1. ASSUME NEW t \in Tasks, CreateTask(t) PROVE OneRow
  <2> DEFINE row == [task[t] EXCEPT !.status = "pending", !.due = TRUE]
  <2>1. task' = [task EXCEPT ![t] = row] /\ task[t].status = "absent"
    BY <1>1 DEF CreateTask, TypeOK
  <2>2. row \in Row /\ row.token = task[t].token /\ row.status = "pending" BY <1>00
  <2> QED BY <1>0, <2>1, <2>2 DEF Legal
<1>2. ASSUME NEW t \in Tasks, RecordRun(t) PROVE OneRow
  <2>1. PICK s \in Terminal : task' = [task EXCEPT ![t] =
                               [task[t] EXCEPT !.status = s, !.due = TRUE]]
    BY <1>2 DEF RecordRun, TypeOK
  <2> DEFINE row == [task[t] EXCEPT !.status = s, !.due = TRUE]
  <2>2. row \in Row /\ row.token = task[t].token /\ row.status = s BY <1>00
  <2> QED BY <1>0, <1>2, <2>1, <2>2 DEF Legal, RecordRun
<1>3. ASSUME NEW t \in Tasks, Due(t) PROVE OneRow
  <2> DEFINE row == [task[t] EXCEPT !.due = TRUE]
  <2>1. task' = [task EXCEPT ![t] = row] BY <1>3 DEF Due, TypeOK
  <2>2. row \in Row /\ row.token = task[t].token /\ row.status = task[t].status BY <1>00
  <2> QED BY <1>0, <2>1, <2>2 DEF Legal
<1>4. ASSUME NEW t \in Tasks, LeaseExpires(t) PROVE OneRow
  <2> DEFINE row == [task[t] EXCEPT !.lease = "stale"]
  <2>1. task' = [task EXCEPT ![t] = row] BY <1>4 DEF LeaseExpires, TypeOK
  <2>2. row \in Row /\ row.token = task[t].token /\ row.status = task[t].status BY <1>00
  <2> QED BY <1>0, <2>1, <2>2 DEF Legal
<1>5. ASSUME NEW t \in Tasks, CleanupTask(t) PROVE OneRow
  <2> DEFINE row == [task[t] EXCEPT !.status = "removed"]
  <2>1. task' = [task EXCEPT ![t] = row] /\ task[t].status \in Terminal
    BY <1>5 DEF CleanupTask, TypeOK
  <2>2. row \in Row /\ row.token = task[t].token /\ row.status = "removed" BY <1>00
  <2> QED BY <1>0, <2>1, <2>2 DEF Legal
<1>6. ASSUME NEW d \in Disps, ListClaimable(d) \/ CountActive(d) \/ Crash(d)
      PROVE  OneRow
  BY <1>6 DEF ListClaimable, CountActive, Crash, OneRow
<1>7. ASSUME NEW d \in Disps, NEW r \in runs[d], RunStep(d, r) PROVE OneRow
  <2>1. r \in Snap /\ r.task \in Tasks /\ task[r.task] \in Row
    BY RunsAreSnaps, <1>00 DEF Snap
  <2>2. ASSUME NEW row \in Row, Writes(d, r, row),
               row.token = task[r.task].token,
               row.status \in {"retry", "succeeded", "failed"}
        PROVE  OneRow
    <3>1. CASE Holds(r) BY <1>0, <2>1, <2>2, <3>1 DEF Writes, Holds, Legal
    <3>2. CASE ~Holds(r) BY <2>2, <3>2 DEF Writes, OneRow
    <3> QED BY <3>1, <3>2
  <2>3. CASE Heartbeat(d, r)
    <3> DEFINE row == [task[r.task] EXCEPT !.lease = "live"]
    <3>1. task' = [task EXCEPT ![r.task] = row] BY <2>1, <2>3 DEF Heartbeat, TypeOK
    <3>2. row \in Row /\ row.token = task[r.task].token
          /\ row.status = task[r.task].status
      BY <2>1
    <3> QED BY <1>0, <2>1, <3>1, <3>2 DEF Legal
  <2>4. CASE LeaseLost(d, r) \/ LoseOutcome(d, r)
    BY <2>4 DEF LeaseLost, LoseOutcome, OneRow
  <2>5. CASE Succeed(d, r)
    <3> DEFINE row == [task[r.task] EXCEPT !.status = "succeeded", !.lease = "none"]
    <3>1. row \in Row /\ row.token = task[r.task].token /\ row.status = "succeeded"
      BY <2>1
    <3>2. Writes(d, r, row) BY <2>5 DEF Succeed
    <3> HIDE DEF row
    <3> QED BY <2>2, <3>1, <3>2
  <2>6. ASSUME NEW class \in {"auto", "manual", "never"}, RunFails(d, r, class)
        PROVE  OneRow
    <3> DEFINE row == IF class = "auto" /\ r.attempts + 1 < MaxAttempts
                      THEN RetryRow(r) ELSE FailedRow(r, class # "never")
    <3>1. (class # "never") \in BOOLEAN OBVIOUS
    <3>2. row \in Row /\ row.token = task[r.task].token
          /\ row.status \in {"retry", "succeeded", "failed"}
      BY <2>1, <3>1, OutcomeRows
    <3>3. Writes(d, r, row) BY <2>6 DEF RunFails
    <3> HIDE DEF row
    <3> QED BY <2>2, <3>2, <3>3
  <2>7. CASE ReleaseRun(d, r)
    <3> DEFINE row == [task[r.task] EXCEPT !.status = "retry", !.lease = "none",
                                           !.due = TRUE]
    <3>1. row \in Row /\ row.token = task[r.task].token /\ row.status = "retry" BY <2>1
    <3>2. Writes(d, r, row) BY <2>7 DEF ReleaseRun
    <3> HIDE DEF row
    <3> QED BY <2>2, <3>1, <3>2
  <2> QED BY <1>7, <2>3, <2>4, <2>5, <2>6, <2>7 DEF RunStep
<1>8. ASSUME NEW a \in Admins, NEW t \in Tasks, RetryRead(a, t) PROVE OneRow
  BY <1>8 DEF RetryRead, OneRow
<1>9. ASSUME NEW a \in Admins, RetryReset(a) PROVE OneRow
  <2>1. admin[a] \in Tasks BY <1>9 DEF TypeOK, RetryReset
  <2>2. CASE task[admin[a]].status = "failed"
    <3> DEFINE row == [task[admin[a]] EXCEPT !.status = "pending", !.attempts = 0,
                                             !.canRetry = FALSE, !.due = TRUE]
    <3>1. task' = [task EXCEPT ![admin[a]] = row]
      BY <1>9, <2>1, <2>2 DEF TypeOK, RetryReset
    <3>2. row \in Row /\ row.token = task[admin[a]].token /\ row.status = "pending"
      BY <1>00, <2>1
    <3> HIDE DEF row
    <3> QED BY <1>0, <2>1, <2>2, <3>1, <3>2 DEF Legal
  <2>3. CASE task[admin[a]].status # "failed" BY <1>9, <2>3 DEF RetryReset, OneRow
  <2> QED BY <2>2, <2>3
<1>10. CASE UNCHANGED vars
  BY <1>10 DEF vars, OneRow
<1> QED
  BY <1>1, <1>2, <1>3, <1>4, <1>5, <1>6, <1>7, <1>8, <1>9, <1>10
     DEF Next, RowStep, DispStep, AdminStep

----------------------------------------------------------------------------
(* Fencing *)

\* A run's token is not ahead of its row; the run that is level with the row
\* belongs to the dispatcher that claimed last.
RunsBehind ==
    \A d \in Disps : \A r \in runs[d] :
        /\ r.token <= task[r.task].token
        /\ r.token = task[r.task].token => owner[r.task] = d

\* A dispatcher lists a task once
OneCandidate ==
    \A d \in Disps : \A c1, c2 \in disp[d].cand : c1.task = c2.task => c1 = c2

\* The inductive invariant behind UniqueLease and OwnerFinishes.
Fencing == TypeOK /\ RunsBehind /\ OneCandidate /\ UniqueLease /\ OwnerFinishes

\* Nothing is claimed at first, so nothing has to be fenced.
LEMMA InitFencing == Init => Fencing
<1> SUFFICES ASSUME Init PROVE Fencing
  OBVIOUS
<1>1. TypeOK
  BY InitType
<1>2. RunsBehind /\ OneCandidate /\ UniqueLease /\ OwnerFinishes
  BY DEF Init, RunsBehind, OneCandidate, UniqueLease, OwnerFinishes, Idle
<1> QED BY <1>1, <1>2 DEF Fencing

\* Every step but a batch claim leaves tokens and owners alone, only ends
\* runs, and lets nobody but the holder of a lease write an outcome.
LEMMA StepsKeepTokens ==
    ASSUME TypeOK, [Next]_vars, \A d \in Disps : ~ClaimCandidates(d)
    PROVE  /\ \A t \in Tasks : task'[t].token = task[t].token
           /\ \A d \in Disps : runs'[d] \subseteq runs[d]
           /\ owner' = owner
           /\ \A t \in Tasks :
                \/ author'[t] = author[t]
                \/ \E d \in Disps : \E r \in runs[d] :
                     r.task = t /\ Holds(r) /\ author'[t] = d
<1>1. \A t \in Tasks : task'[t].token = task[t].token
  BY StepsChangeOneRow DEF OneRow, TypeOK
<1>2. /\ \A d \in Disps : runs'[d] \subseteq runs[d]
      /\ owner' = owner
      /\ \A t \in Tasks :
           \/ author'[t] = author[t]
           \/ \E d \in Disps : \E r \in runs[d] :
                r.task = t /\ Holds(r) /\ author'[t] = d
  <2>1. ASSUME NEW t \in Tasks, RowStep(t) PROVE runs' = runs /\ UNCHANGED <<owner, author>>
    BY <2>1 DEF RowStep, CreateTask, RecordRun, Due, LeaseExpires, CleanupTask, history
  <2>2. ASSUME NEW a \in Admins, AdminStep(a) PROVE runs' = runs /\ UNCHANGED <<owner, author>>
    BY <2>2 DEF AdminStep, RetryRead, RetryReset, history
  <2>3. ASSUME NEW d \in Disps, ListClaimable(d) \/ CountActive(d)
        PROVE  runs' = runs /\ UNCHANGED <<owner, author>>
    BY <2>3 DEF ListClaimable, CountActive, history
  <2>4. ASSUME NEW d \in Disps, Crash(d)
        PROVE  /\ \A e \in Disps : runs'[e] \subseteq runs[e]
               /\ UNCHANGED <<owner, author>>
    BY <2>4 DEF Crash, history, TypeOK
  <2>5. ASSUME NEW d \in Disps, NEW r \in runs[d], RunStep(d, r)
        PROVE  /\ \A e \in Disps : runs'[e] \subseteq runs[e]
               /\ owner' = owner
               /\ \/ author' = author
                  \/ Holds(r) /\ author' = [author EXCEPT ![r.task] = d]
    <3>1. runs' = runs \/ Drops(d, r)
      BY <2>5 DEF RunStep, Heartbeat, LeaseLost, Succeed, RunFails, ReleaseRun,
                  LoseOutcome
    <3>2. \A e \in Disps : runs'[e] \subseteq runs[e] BY <3>1 DEF Drops, TypeOK
    <3>3. owner' = owner
      BY <2>5 DEF RunStep, Heartbeat, LeaseLost, Succeed, RunFails, ReleaseRun,
                  LoseOutcome, history
    <3>4. author' = author \/ \E row : Writes(d, r, row)
      BY <2>5 DEF RunStep, Heartbeat, LeaseLost, Succeed, RunFails, ReleaseRun,
                  LoseOutcome, history
    <3> QED BY <3>2, <3>3, <3>4 DEF Writes
  <2>6. CASE UNCHANGED vars BY <2>6 DEF vars, history
  <2>7. ASSUME NEW d \in Disps, NEW r \in runs[d], RunStep(d, r), NEW t \in Tasks
        PROVE  \/ author'[t] = author[t]
               \/ \E e \in Disps : \E q \in runs[e] :
                     q.task = t /\ Holds(q) /\ author'[t] = e
    BY <2>5, <2>7 DEF TypeOK
  <2> QED BY <2>1, <2>2, <2>3, <2>4, <2>5, <2>6, <2>7 DEF Next, DispStep
<1> QED BY <1>1, <1>2

\* Every step keeps stale workers fenced off.
LEMMA NextFencing == Fencing /\ [Next]_vars => Fencing'
<1> SUFFICES ASSUME Fencing, [Next]_vars PROVE Fencing'
  OBVIOUS
<1>1. TypeOK /\ TypeOK'
  BY NextType DEF Fencing
<1>2. CASE \A d \in Disps : ~ClaimCandidates(d)
  <2>1. /\ \A t \in Tasks : task'[t].token = task[t].token
        /\ \A d \in Disps : runs'[d] \subseteq runs[d]
        /\ owner' = owner
        /\ \A t \in Tasks :
             \/ author'[t] = author[t]
             \/ \E d \in Disps : \E r \in runs[d] :
                  r.task = t /\ Holds(r) /\ author'[t] = d
    BY <1>1, <1>2, StepsKeepTokens
  <2>2. \A d \in Disps : \A r \in runs[d] : r.task \in Tasks BY <1>1 DEF TypeOK, Snap
  <2>3. RunsBehind' BY <2>1, <2>2 DEF Fencing, RunsBehind
  <2>4. UniqueLease' BY <2>1 DEF Fencing, UniqueLease
  <2>5. OwnerFinishes' BY <2>1, <2>2 DEF Fencing, RunsBehind, OwnerFinishes, Holds
  <2>6. OneCandidate'
    <3>1. ASSUME NEW d \in Disps, ListClaimable(d) PROVE OneCandidate'
      <4> DEFINE C == {[task |-> t, token |-> task[t].token,
                        attempts |-> task[t].attempts] :
                          t \in {u \in Tasks : Claimable(u)}}
      <4>a. disp' = [disp EXCEPT ![d] = [Idle EXCEPT !.at = "listed", !.cand = C]]
        BY <3>1 DEF ListClaimable
      <4>b. \A c1, c2 \in C : c1.task = c2.task => c1 = c2 OBVIOUS
      <4> HIDE DEF C
      <4>c. disp'[d] = [Idle EXCEPT !.at = "listed", !.cand = C] BY <1>1, <4>a DEF TypeOK
      <4>d. disp'[d].cand = C BY <4>c DEF Idle
      <4>1. \A c1, c2 \in disp'[d].cand : c1.task = c2.task => c1 = c2 BY <4>b, <4>d
      <4>2. \A e \in Disps \ {d} : disp'[e] = disp[e]
        BY <1>1, <3>1 DEF ListClaimable, TypeOK
      <4> QED BY <4>1, <4>2 DEF OneCandidate, Fencing
    <3>2. ASSUME NEW d \in Disps, CountActive(d) \/ Crash(d) PROVE OneCandidate'
      <4>1. \A e \in Disps : disp'[e].cand \subseteq disp[e].cand
        <5>1. disp \in [Disps -> [at: {"idle", "listed", "counted"},
                                  cand: SUBSET Snap, avail: Nat]]
          BY <1>1 DEF TypeOK
        <5>2. CASE disp' = [disp EXCEPT ![d] = Idle] BY <5>1, <5>2 DEF Idle
        <5>3. CASE disp' = [disp EXCEPT ![d].at = "counted", ![d].avail = Available]
          <6>1. disp'[d].cand = disp[d].cand BY <5>1, <5>3
          <6>2. \A e \in Disps \ {d} : disp'[e] = disp[e] BY <5>1, <5>3
          <6> QED BY <6>1, <6>2
        <5>4. \/ disp' = [disp EXCEPT ![d] = Idle]
              \/ disp' = [disp EXCEPT ![d].at = "counted", ![d].avail = Available]
          BY <3>2 DEF CountActive, Crash
        <5> QED BY <5>2, <5>3, <5>4
      <4> QED BY <4>1 DEF OneCandidate, Fencing
    <3>3. CASE disp' = disp BY <3>3 DEF OneCandidate, Fencing
    <3>4. ASSUME NEW t \in Tasks, RowStep(t) PROVE disp' = disp
      BY <3>4 DEF RowStep, CreateTask, RecordRun, Due, LeaseExpires, CleanupTask
    <3>5. ASSUME NEW a \in Admins, AdminStep(a) PROVE disp' = disp
      BY <3>5 DEF AdminStep, RetryRead, RetryReset
    <3>6. ASSUME NEW d \in Disps, NEW r \in runs[d], RunStep(d, r) PROVE disp' = disp
      BY <3>6 DEF RunStep, Heartbeat, LeaseLost, Succeed, RunFails, ReleaseRun,
                  LoseOutcome
    <3>7. CASE UNCHANGED vars BY <3>7, <3>3 DEF vars
    <3> QED BY <1>2, <3>1, <3>2, <3>3, <3>4, <3>5, <3>6, <3>7 DEF Next, DispStep
  <2> QED BY <1>1, <2>3, <2>4, <2>5, <2>6 DEF Fencing
<1>3. ASSUME NEW d \in Disps, ClaimCandidates(d) PROVE Fencing'
  <2>1. PICK S \in SUBSET {c \in disp[d].cand : CanClaim(c)} :
          /\ task' = [t \in Tasks |->
               IF \E c \in S : c.task = t
               THEN [task[t] EXCEPT
                       !.status = "processing", !.lease = "live",
                       !.token = (CHOOSE c \in S : c.task = t).token + 1]
               ELSE task[t]]
          /\ runs' = [runs EXCEPT ![d] =
               {[c EXCEPT !.token = c.token + 1] : c \in S}]
          /\ owner' = [t \in Tasks |->
               IF \E c \in S : c.task = t THEN d ELSE owner[t]]
          /\ author' = [t \in Tasks |->
               IF \E c \in S : c.task = t THEN NULL ELSE author[t]]
    BY <1>3 DEF ClaimCandidates
  <2>2. \A c \in S : c \in Snap /\ c.token = task[c.task].token
    BY <1>1 DEF TypeOK, CanClaim
  <2>3. \A c1, c2 \in S : c1.task = c2.task => c1 = c2 BY DEF Fencing, OneCandidate
  <2>4. ASSUME NEW t \in Tasks
        PROVE  task'[t].token = IF \E c \in S : c.task = t
                                THEN task[t].token + 1 ELSE task[t].token
    <3>1. task[t] \in Row BY <1>1 DEF TypeOK
    <3>2. CASE \E c \in S : c.task = t
      <4> DEFINE n == (CHOOSE c \in S : c.task = t).token + 1
      <4>1. n = task[t].token + 1 BY <2>2, <3>2
      <4>2. task'[t] = [task[t] EXCEPT !.status = "processing",
                                       !.lease = "live", !.token = n]
        BY <2>1, <3>2
      <4> HIDE DEF n
      <4> QED BY <3>1, <3>2, <4>1, <4>2 DEF Row
    <3> QED BY <2>1, <3>2
  <2>5. \A e \in Disps \ {d} : runs'[e] = runs[e] BY <1>1, <2>1 DEF TypeOK
  <2>6. ASSUME NEW r \in runs'[d]
        PROVE  \E c \in S : /\ r.task = c.task /\ r.token = c.token + 1
                            /\ r.attempts = c.attempts
                            /\ r \in Snap
    <3>1. runs'[d] = {[c EXCEPT !.token = c.token + 1] : c \in S} BY <1>1, <2>1 DEF TypeOK
    <3>2. PICK c \in S : r = [c EXCEPT !.token = c.token + 1] BY <2>6, <3>1
    <3>3. c \in Snap BY <2>2
    <3>4. r.task = c.task /\ r.token = c.token + 1 /\ r.attempts = c.attempts
      BY <3>2, <3>3 DEF Snap
    <3>5. r \in Snap BY <3>2, <3>3 DEF Snap
    <3> QED BY <3>4, <3>5
  <2>7. \A e \in Disps : \A r \in runs[e] :
          r \in Snap /\ r.token \in Nat /\ r.task \in Tasks
          /\ r.token <= task[r.task].token /\ task[r.task].token \in Nat
    BY <1>1 DEF TypeOK, Snap, Fencing, RunsBehind, Row
  <2>8. ASSUME NEW r \in runs'[d]
        PROVE  /\ r.task \in Tasks
               /\ r.token = task[r.task].token + 1
               /\ r.token = task'[r.task].token
               /\ owner'[r.task] = d
    <3>1. PICK c \in S : r.task = c.task /\ r.token = c.token + 1 /\ r \in Snap
      BY <2>6, <2>8
    <3>2. r.task \in Tasks BY <3>1 DEF Snap
    <3>3. r.token = task[r.task].token + 1 BY <2>2, <3>1
    <3>4. task'[r.task].token = task[r.task].token + 1 BY <2>4, <3>1, <3>2
    <3>5. owner'[r.task] = d BY <2>1, <3>1, <3>2
    <3> QED BY <3>2, <3>3, <3>4, <3>5
  <2>9. RunsBehind'
    <3>1. ASSUME NEW e \in Disps, NEW r \in runs'[e]
          PROVE  /\ r.token <= task'[r.task].token
                 /\ r.token = task'[r.task].token => owner'[r.task] = e
      <4>1. CASE e = d BY <2>8, <4>1, <1>1 DEF TypeOK, Row
      <4>2. CASE e # d
        <5>1. r \in runs[e] BY <2>5, <4>2
        <5>2. CASE \E c \in S : c.task = r.task BY <2>4, <2>7, <5>1, <5>2
        <5>3. CASE ~\E c \in S : c.task = r.task
          BY <2>1, <2>4, <2>7, <5>1, <5>3 DEF Fencing, RunsBehind
        <5> QED BY <5>2, <5>3
      <4> QED BY <4>1, <4>2
    <3> QED BY <3>1 DEF RunsBehind
  <2>10. UniqueLease'
    <3>1. ASSUME NEW d1 \in Disps, NEW d2 \in Disps,
                 NEW r1 \in runs'[d1], NEW r2 \in runs'[d2],
                 r1.task = r2.task, r1.token = r2.token
          PROVE  d1 = d2 /\ r1 = r2
      <4>1. CASE d1 = d /\ d2 = d BY <2>3, <2>6, <3>1, <4>1 DEF Snap
      <4>2. CASE d1 = d /\ d2 # d BY <2>5, <2>7, <2>8, <3>1, <4>2
      <4>3. CASE d1 # d /\ d2 = d BY <2>5, <2>7, <2>8, <3>1, <4>3
      <4>4. CASE d1 # d /\ d2 # d BY <2>5, <3>1, <4>4 DEF Fencing, UniqueLease
      <4> QED BY <4>1, <4>2, <4>3, <4>4
    <3> QED BY <3>1 DEF UniqueLease
  <2>11. OwnerFinishes' BY <2>1 DEF Fencing, OwnerFinishes
  <2>12. OneCandidate'
    <3>1. \A e \in Disps : disp'[e].cand \subseteq disp[e].cand
      BY <1>1, <1>3 DEF ClaimCandidates, TypeOK, Idle
    <3> QED BY <3>1 DEF OneCandidate, Fencing
  <2> QED BY <1>1, <2>9, <2>10, <2>11, <2>12 DEF Fencing
<1> QED BY <1>2, <1>3

\* The fencing invariant holds throughout.
LEMMA FencingHolds == Spec => []Fencing
  BY InitFencing, NextFencing, PTL DEF Spec

\* Whatever dispatchers do, crash and stall: a processing token of a task is
\* given to one run only (try_claim's compare-and-swap).
THEOREM StaleWorkersAreFenced == Spec => []UniqueLease
<1>1. Fencing => UniqueLease
  BY DEF Fencing
<1> QED BY <1>1, FencingHolds, PTL

\* The outcome on a row is that of the latest claim: the token filters of
\* every update keep a stale worker from writing.
THEOREM LatestClaimFinishes == Spec => []OwnerFinishes
<1>1. Fencing => OwnerFinishes
  BY DEF Fencing
<1> QED BY <1>1, FencingHolds, PTL

----------------------------------------------------------------------------
(* Refinement *)

\* An empty table is the initial state of the life cycle.
LEMMA InitRefines == Init => Lifecycle!Init
<1> SUFFICES ASSUME Init PROVE Lifecycle!Init
  OBVIOUS
<1>1. \A t \in Tasks : task[t].status = "absent" /\ task[t].token = 0
  BY DEF Init, AbsentRow
<1>2. PhaseOf("absent") = "absent"
  BY DEF PhaseOf
<1> QED BY <1>1, <1>2 DEF Lifecycle!Init

\* A legal change of status is a move of the life cycle or no move at all.
LEMMA LegalMoves ==
    ASSUME NEW s \in Status, NEW n \in Status, Legal(s, n)
    PROVE  \/ PhaseOf(n) = PhaseOf(s)
           \/ PhaseOf(s) = "absent" /\ PhaseOf(n) \in {"ready", "succeeded", "failed"}
           \/ PhaseOf(s) = "running" /\ PhaseOf(n) \in {"ready", "succeeded", "failed"}
           \/ PhaseOf(s) = "failed" /\ PhaseOf(n) = "ready"
           \/ PhaseOf(s) \in {"succeeded", "failed"} /\ PhaseOf(n) = "removed"
BY DEF Legal, PhaseOf, Status, Terminal

\* A change of one row is a step of the life cycle or leaves it alone.
LEMMA OneRowRefines ==
    ASSUME TypeOK, OneRow
    PROVE  [Lifecycle!Next]_(Lifecycle!vars)
<1> DEFINE phase == [t \in Tasks |-> PhaseOf(task[t].status)]
           fence == [t \in Tasks |-> task[t].token]
<1>1. CASE task' = task
  BY <1>1 DEF Lifecycle!vars
<1>2. ASSUME NEW t \in Tasks, NEW row \in Row,
             task' = [task EXCEPT ![t] = row],
             row.token = task[t].token,
             Legal(task[t].status, row.status)
      PROVE  [Lifecycle!Next]_(Lifecycle!vars)
  <2>1. fence' = fence BY <1>2 DEF TypeOK
  <2>2. phase' = [phase EXCEPT ![t] = PhaseOf(row.status)] BY <1>2 DEF TypeOK
  <2>3. task[t].status \in Status /\ row.status \in Status BY DEF TypeOK, Row
  <2>4. phase[t] = PhaseOf(task[t].status) OBVIOUS
  <2>5. CASE PhaseOf(row.status) = PhaseOf(task[t].status)
    <3>1. phase' = phase BY <2>2, <2>5
    <3> QED BY <2>1, <3>1 DEF Lifecycle!vars
  <2>6. ASSUME NEW from, NEW to, phase[t] \in from, PhaseOf(row.status) \in to
        PROVE  Lifecycle!Move(t, from, to)
    <3>1. \E p \in to : phase' = [phase EXCEPT ![t] = p] BY <2>2, <2>6
    <3> QED BY <2>1, <2>6, <3>1 DEF Lifecycle!Move
  <2>7. CASE PhaseOf(row.status) # PhaseOf(task[t].status)
    <3>1. \/ Lifecycle!Move(t, {"absent"}, {"ready", "succeeded", "failed"})
          \/ Lifecycle!Move(t, {"running"}, {"ready", "succeeded", "failed"})
          \/ Lifecycle!Move(t, {"failed"}, {"ready"})
          \/ Lifecycle!Move(t, {"succeeded", "failed"}, {"removed"})
      BY <1>2, <2>3, <2>4, <2>6, <2>7, LegalMoves
    <3>2. Lifecycle!Step(t)
      BY <3>1 DEF Lifecycle!Step, Lifecycle!Create, Lifecycle!Finish,
                  Lifecycle!Retry, Lifecycle!Remove
    <3> QED BY <3>2 DEF Lifecycle!Next
  <2> QED BY <2>5, <2>7
<1> QED BY <1>1, <1>2 DEF OneRow

\* A batch claim moves the fence of exactly the tasks it takes.
LEMMA ClaimRefines ==
    ASSUME TypeOK, NEW d \in Disps, ClaimCandidates(d)
    PROVE  Lifecycle!Next
<1> DEFINE phase == [t \in Tasks |-> PhaseOf(task[t].status)]
           fence == [t \in Tasks |-> task[t].token]
<1>1. PICK S \in SUBSET {c \in disp[d].cand : CanClaim(c)} :
        task' = [t \in Tasks |->
           IF \E c \in S : c.task = t
           THEN [task[t] EXCEPT
                   !.status = "processing", !.lease = "live",
                   !.token = (CHOOSE c \in S : c.task = t).token + 1]
           ELSE task[t]]
  BY DEF ClaimCandidates
<1>2. \A c \in S : /\ c.task \in Tasks
                   /\ c.token = task[c.task].token
                   /\ task[c.task].status \in {"pending", "retry", "processing"}
  BY DEF TypeOK, Snap, CanClaim, Claimable
<1> DEFINE T == {c.task : c \in S}
<1>3. T \in SUBSET Tasks
  BY <1>2
<1>4. ASSUME NEW t \in Tasks
      PROVE  /\ task'[t].token = IF t \in T THEN task[t].token + 1 ELSE task[t].token
             /\ task'[t].status = IF t \in T THEN "processing" ELSE task[t].status
  <2>1. task[t] \in Row BY DEF TypeOK
  <2>2. CASE \E c \in S : c.task = t
    <3> DEFINE n == (CHOOSE c \in S : c.task = t).token + 1
    <3>1. n = task[t].token + 1 BY <1>2, <2>2
    <3>2. task'[t] = [task[t] EXCEPT !.status = "processing",
                                     !.lease = "live", !.token = n]
      BY <1>1, <2>2
    <3> HIDE DEF n
    <3>3. task'[t].token = n /\ task'[t].status = "processing" BY <2>1, <3>2 DEF Row
    <3> QED BY <2>2, <3>1, <3>3
  <2>3. CASE ~\E c \in S : c.task = t BY <1>1, <2>3
  <2> QED BY <2>2, <2>3
<1>5. \A t \in T : phase[t] \in {"ready", "running"}
  BY <1>2 DEF PhaseOf
<1> HIDE DEF T
<1>6. PhaseOf("processing") = "running"
  BY DEF PhaseOf
<1>7. phase' = [t \in Tasks |-> IF t \in T THEN "running" ELSE phase[t]]
  BY <1>4, <1>6
<1>8. fence' = [t \in Tasks |-> IF t \in T THEN fence[t] + 1 ELSE fence[t]]
  BY <1>4
<1>9. Lifecycle!ClaimBatch(T)
  BY <1>5, <1>7, <1>8 DEF Lifecycle!ClaimBatch
<1> QED BY <1>3, <1>9 DEF Lifecycle!Next

\* Every step is a step of the life cycle or leaves it alone.
LEMMA NextRefines == TypeOK /\ [Next]_vars => [Lifecycle!Next]_(Lifecycle!vars)
<1> SUFFICES ASSUME TypeOK, [Next]_vars PROVE [Lifecycle!Next]_(Lifecycle!vars)
  OBVIOUS
<1>1. CASE \A d \in Disps : ~ClaimCandidates(d)
  BY <1>1, StepsChangeOneRow, OneRowRefines
<1>2. ASSUME NEW d \in Disps, ClaimCandidates(d)
      PROVE  [Lifecycle!Next]_(Lifecycle!vars)
  BY <1>2, ClaimRefines
<1> QED BY <1>1, <1>2

\* Dispatchers that overlap, stall and crash, lost writes and administrators
\* at work at the same time together implement the abstract life of a task:
\* phases in order, one step of the fence per claim, finished tasks left
\* alone (background_task_repo's filtered updates).
THEOREM DispatcherImplementsLifecycle == Spec => ImplementsLifecycle
<1> QED
  BY InitRefines, NextRefines, TypeCorrect, PTL
     DEF Spec, ImplementsLifecycle, Lifecycle!Spec

----------------------------------------------------------------------------
(* The lane: WithinLimit and AttemptsCounted, when no live worker stalls   *)

\* A run that still holds its row has a live lease: its heartbeats are in time.
LiveHeld ==
    \A d \in Disps : \A r \in runs[d] : Holds(r) => task[r.task].lease = "live"

\* What a dispatcher listed is not ahead of the table; a candidate that is
\* level with its row is still claimable and has the row's attempts.
FreshCands ==
    \A d \in Disps : \A c \in disp[d].cand :
        /\ c.token <= task[c.task].token
        /\ c.token = task[c.task].token
           => Claimable(c.task) /\ c.attempts = task[c.task].attempts

\* A run that holds its row knows the row's attempts.
FreshRuns ==
    \A d \in Disps : \A r \in runs[d] :
        Holds(r) => r.attempts = task[r.task].attempts

\* Before the task ends there is an attempt left.
Open == {"absent", "pending", "retry", "processing"}

Budget ==
    \A t \in Tasks :
        /\ task[t].attempts = failures[t]
        /\ task[t].attempts <= MaxAttempts
        /\ task[t].status \in Open => task[t].attempts < MaxAttempts

\* The dispatcher that counted holds the lane, and what it counted is free.
LaneCounted ==
    \A d \in Disps : disp[d].at = "counted" =>
        lane = d /\ Cardinality(ActiveProcessing) + disp[d].avail <= Limit

\* The inductive invariant behind WithinLimit and AttemptsCounted.
LaneInv ==
    Fencing /\ LiveHeld /\ FreshCands /\ FreshRuns /\ Budget /\ LaneCounted /\ WithinLimit

\* A row and its failure count stay as they are.
RowStays(t) == task'[t] = task[t] /\ failures'[t] = failures[t]

\* A row changes without being claimed: it was not claimable, gets no live
\* lease, may lose its lease only when no run holds it, and a failure is
\* counted by a run that holds it.
RowMoves(t) ==
    /\ task'[t].token = task[t].token
    /\ ~Claimable(t)
    /\ task'[t].lease # "live"
    /\ task'[t].status = "processing"
       => /\ task[t].status = "processing"
          /\ \A d \in Disps : \A r \in runs[d] : ~(r.task = t /\ Holds(r))
    /\ \/ /\ task'[t].attempts = task[t].attempts /\ failures'[t] = failures[t]
          /\ task'[t].status \in Open => task[t].status \in Open
       \/ task'[t].attempts = 0 /\ failures'[t] = 0
       \/ \E d \in Disps : \E r \in runs[d] :
            /\ r.task = t /\ Holds(r)
            /\ task'[t].attempts = r.attempts + 1
            /\ failures'[t] = failures[t] + 1
            /\ r.attempts + 1 < MaxAttempts \/ task'[t].status = "failed"

\* When no worker stalls, every step but a batch claim leaves a row alone or
\* moves it so.
LEMMA RowsMove ==
    ASSUME ~Stalls, TypeOK, LiveHeld, [Next]_vars, \A d \in Disps : ~ClaimCandidates(d),
           NEW t \in Tasks
    PROVE  RowStays(t) \/ RowMoves(t)
<1> USE DEF Row, Status, Terminal
<1>0. \A u \in Tasks : task[u] \in Row
  BY DEF TypeOK
<1>1. ASSUME NEW u \in Tasks, NEW row, task' = [task EXCEPT ![u] = row], failures' = failures,
             RowStays(u) \/ RowMoves(u)
      PROVE  RowStays(t) \/ RowMoves(t)
  <2>1. CASE t = u BY <1>1, <2>1
  <2>2. CASE t # u BY <1>1, <2>2 DEF RowStays, TypeOK
  <2> QED BY <2>1, <2>2
<1>2. ASSUME UNCHANGED <<task, failures>> PROVE RowStays(t)
  BY <1>2 DEF RowStays
<1>3. ASSUME NEW u \in Tasks, CreateTask(u) \/ RecordRun(u) \/ Due(u) \/ CleanupTask(u)
      PROVE  RowStays(t) \/ RowMoves(t)
  <2>1. PICK s \in Status, b \in BOOLEAN :
          /\ task' = [task EXCEPT ![u] = [task[u] EXCEPT !.status = s, !.due = b]]
          /\ \/ task[u].status = "absent" /\ s \in {"pending", "succeeded", "failed"}
             \/ task[u].status = "retry" /\ ~task[u].due /\ s = "retry"
             \/ task[u].status \in Terminal /\ s = "removed"
    <3>1. CASE CreateTask(u)
      <4>1. task' = [task EXCEPT ![u] = [task[u] EXCEPT !.status = "pending", !.due = TRUE]]
        BY <3>1 DEF CreateTask, TypeOK
      <4> QED BY <3>1, <4>1 DEF CreateTask
    <3>2. CASE RecordRun(u)
      <4>1. PICK s \in Terminal : task' = [task EXCEPT ![u] =
                                   [task[u] EXCEPT !.status = s, !.due = TRUE]]
        BY <3>2 DEF RecordRun, TypeOK
      <4> QED BY <3>2, <4>1 DEF RecordRun
    <3>3. CASE Due(u)
      <4>1. task' = [task EXCEPT ![u] = [task[u] EXCEPT !.due = TRUE]]
        BY <3>3 DEF Due, TypeOK
      <4>2. [task[u] EXCEPT !.due = TRUE] = [task[u] EXCEPT !.status = "retry", !.due = TRUE]
        BY <1>0, <3>3 DEF Due
      <4> QED BY <3>3, <4>1, <4>2 DEF Due
    <3>4. CASE CleanupTask(u)
      <4>1. task' = [task EXCEPT ![u] = [task[u] EXCEPT !.status = "removed"]]
        BY <3>4 DEF CleanupTask, TypeOK
      <4>2. [task[u] EXCEPT !.status = "removed"]
              = [task[u] EXCEPT !.status = "removed", !.due = task[u].due]
        BY <1>0
      <4>3. task[u].due \in BOOLEAN BY <1>0
      <4> QED BY <3>4, <4>1, <4>2, <4>3 DEF CleanupTask
    <3> QED BY <1>3, <3>1, <3>2, <3>3, <3>4
  <2> DEFINE row == [task[u] EXCEPT !.status = s, !.due = b]
  <2>2. /\ row.token = task[u].token /\ row.lease = task[u].lease
        /\ row.status = s /\ row.attempts = task[u].attempts
    BY <1>0
  <2>3. failures' = failures BY <1>3 DEF CreateTask, RecordRun, Due, CleanupTask, history
  <2>4. task'[u] = row BY <2>1 DEF TypeOK
  <2>5. task[u].lease = "none" BY <2>1 DEF TypeOK
  <2> HIDE DEF row
  <2>6. RowMoves(u) BY <2>1, <2>2, <2>3, <2>4, <2>5 DEF RowMoves, Claimable, Open
  <2> QED BY <1>1, <2>1, <2>3, <2>6 DEF row
<1>4. ASSUME NEW u \in Tasks, LeaseExpires(u) PROVE RowStays(t) \/ RowMoves(t)
  <2> DEFINE row == [task[u] EXCEPT !.lease = "stale"]
  <2>1. task' = [task EXCEPT ![u] = row] /\ failures' = failures
    BY <1>4 DEF LeaseExpires, TypeOK, history
  <2>2. /\ row.token = task[u].token /\ row.lease = "stale"
        /\ row.status = task[u].status /\ row.attempts = task[u].attempts
    BY <1>0
  <2>3. task'[u] = row BY <2>1 DEF TypeOK
  <2> HIDE DEF row
  <2>4. ~\E d \in Disps : \E r \in runs[d] : r.task = u /\ Holds(r)
    BY <1>4 DEF LeaseExpires
  <2>5. RowMoves(u) BY <1>4, <2>1, <2>2, <2>3, <2>4 DEF RowMoves, Claimable, LeaseExpires
  <2> QED BY <1>1, <2>1, <2>5
<1>5. ASSUME NEW d \in Disps, ListClaimable(d) \/ CountActive(d) \/ Crash(d)
      PROVE  RowStays(t)
  BY <1>5, <1>2 DEF ListClaimable, CountActive, Crash, history
<1>6. ASSUME NEW d \in Disps, NEW r \in runs[d], RunStep(d, r)
      PROVE  RowStays(t) \/ RowMoves(t)
  <2>1. r \in Snap /\ r.task \in Tasks /\ task[r.task] \in Row
    BY RunsAreSnaps, <1>0 DEF Snap
  <2>2. ASSUME NEW row, Writes(d, r, row),
               row.token = task[r.task].token, row.lease = "none",
               row.status \in {"retry", "succeeded", "failed"},
               \/ /\ row.attempts = task[r.task].attempts
                  /\ failures' = failures
               \/ /\ row.attempts = r.attempts + 1
                  /\ r.attempts + 1 < MaxAttempts \/ row.status = "failed"
                  /\ failures' = IF Holds(r) THEN [failures EXCEPT ![r.task] = @ + 1]
                                 ELSE failures
        PROVE  RowStays(t) \/ RowMoves(t)
    <3>1. CASE ~Holds(r) BY <2>2, <3>1, <1>2 DEF Writes
    <3>2. CASE Holds(r) /\ t # r.task BY <2>1, <2>2, <3>2 DEF Writes, TypeOK, RowStays
    <3>3. CASE Holds(r) /\ t = r.task
      <4>1. task'[t] = row BY <2>1, <2>2, <3>3 DEF Writes, TypeOK
      <4>2. task[t].lease = "live" /\ task[t].status = "processing"
        BY <3>3 DEF LiveHeld, Holds
      <4>3. \/ row.attempts = task[t].attempts /\ failures'[t] = failures[t]
            \/ /\ row.attempts = r.attempts + 1
               /\ r.attempts + 1 < MaxAttempts \/ row.status = "failed"
               /\ failures'[t] = failures[t] + 1
        BY <2>2, <3>3 DEF TypeOK
      <4> QED BY <2>2, <3>3, <4>1, <4>2, <4>3 DEF RowMoves, Claimable, Open
    <3> QED BY <3>1, <3>2, <3>3
  <2>3. CASE Heartbeat(d, r) BY <2>3 DEF Heartbeat, LiveHeld
  <2>4. CASE LeaseLost(d, r) \/ LoseOutcome(d, r)
    BY <2>4, <1>2 DEF LeaseLost, LoseOutcome, history
  <2>5. CASE Succeed(d, r)
    <3> DEFINE row == [task[r.task] EXCEPT !.status = "succeeded", !.lease = "none"]
    <3>1. /\ row.token = task[r.task].token /\ row.status = "succeeded"
          /\ row.lease = "none" /\ row.attempts = task[r.task].attempts
      BY <2>1
    <3>2. Writes(d, r, row) /\ failures' = failures BY <2>5 DEF Succeed
    <3> HIDE DEF row
    <3> QED BY <2>2, <3>1, <3>2
  <2>6. ASSUME NEW class \in {"auto", "manual", "never"}, RunFails(d, r, class)
        PROVE  RowStays(t) \/ RowMoves(t)
    <3> DEFINE row == IF class = "auto" /\ r.attempts + 1 < MaxAttempts
                      THEN RetryRow(r) ELSE FailedRow(r, class # "never")
    <3>1. (class # "never") \in BOOLEAN OBVIOUS
    <3>2. RetryRow(r).attempts = r.attempts + 1
          /\ FailedRow(r, class # "never").attempts = r.attempts + 1
      BY <2>1 DEF RetryRow, FailedRow
    <3>3. /\ row.token = task[r.task].token /\ row.lease = "none"
          /\ row.status \in {"retry", "succeeded", "failed"}
          /\ row.attempts = r.attempts + 1
          /\ r.attempts + 1 < MaxAttempts \/ row.status = "failed"
      BY <2>1, <3>1, <3>2, OutcomeRows
    <3>4. Writes(d, r, row) BY <2>6 DEF RunFails
    <3>5. failures' = IF Holds(r) THEN [failures EXCEPT ![r.task] = @ + 1] ELSE failures
      BY <2>6 DEF RunFails
    <3> HIDE DEF row
    <3> QED BY <2>2, <3>3, <3>4, <3>5
  <2>7. CASE ReleaseRun(d, r)
    <3> DEFINE row == [task[r.task] EXCEPT !.status = "retry", !.lease = "none",
                                           !.due = TRUE]
    <3>1. /\ row.token = task[r.task].token /\ row.status = "retry"
          /\ row.lease = "none" /\ row.attempts = task[r.task].attempts
      BY <2>1
    <3>2. Writes(d, r, row) /\ failures' = failures BY <2>7 DEF ReleaseRun
    <3> HIDE DEF row
    <3> QED BY <2>2, <3>1, <3>2
  <2> QED BY <1>6, <2>3, <2>4, <2>5, <2>6, <2>7 DEF RunStep
<1>7. ASSUME NEW a \in Admins, NEW u \in Tasks, RetryRead(a, u) PROVE RowStays(t)
  BY <1>7, <1>2 DEF RetryRead, history
<1>8. ASSUME NEW a \in Admins, RetryReset(a) PROVE RowStays(t) \/ RowMoves(t)
  <2> DEFINE u == admin[a]
  <2>1. u \in Tasks BY <1>8 DEF TypeOK, RetryReset
  <2>2. CASE task[u].status = "failed"
    <3> DEFINE row == [task[u] EXCEPT !.status = "pending", !.attempts = 0,
                                      !.canRetry = FALSE, !.due = TRUE]
    <3>1. /\ task' = [task EXCEPT ![u] = row]
          /\ failures' = [failures EXCEPT ![u] = 0]
      BY <1>8, <2>1, <2>2 DEF TypeOK, RetryReset
    <3>2. /\ row.token = task[u].token /\ row.status = "pending"
          /\ row.attempts = 0 /\ row.lease = task[u].lease
      BY <1>0, <2>1
    <3>3. task[u].lease = "none" BY <2>1, <2>2 DEF TypeOK
    <3>4. task'[u] = row /\ failures'[u] = 0 BY <2>1, <3>1 DEF TypeOK
    <3> HIDE DEF row
    <3>5. CASE t = u BY <2>2, <3>2, <3>3, <3>4, <3>5 DEF RowMoves, Claimable
    <3>6. CASE t # u BY <3>1, <3>6 DEF RowStays, TypeOK
    <3> QED BY <3>5, <3>6
  <2>3. CASE task[u].status # "failed" BY <1>8, <2>3, <1>2 DEF RetryReset
  <2> QED BY <2>2, <2>3
<1>9. CASE UNCHANGED vars
  BY <1>9, <1>2 DEF vars, history
<1> QED BY <1>3, <1>4, <1>5, <1>6, <1>7, <1>8, <1>9 DEF Next, RowStep, DispStep, AdminStep

\* Such steps keep what holders know, the budget, and add no active lease.
LEMMA CalmRows ==
    ASSUME ~Stalls, LaneInv, [Next]_vars, \A d \in Disps : ~ClaimCandidates(d)
    PROVE  /\ LiveHeld' /\ FreshRuns' /\ Budget'
           /\ ActiveProcessing' \subseteq ActiveProcessing
<1>1. TypeOK /\ LiveHeld /\ FreshRuns /\ Budget
  BY DEF LaneInv, Fencing
<1>2. \A t \in Tasks : RowStays(t) \/ RowMoves(t)
  BY <1>1, RowsMove
<1>3. \A d \in Disps : runs'[d] \subseteq runs[d]
  BY <1>1, StepsKeepTokens
<1>4. ASSUME NEW d \in Disps, NEW r \in runs'[d], Holds(r)'
      PROVE  r \in runs[d] /\ Holds(r) /\ task'[r.task] = task[r.task]
  <2>1. r \in runs[d] /\ r.task \in Tasks BY <1>1, <1>3, RunsAreSnaps DEF Snap
  <2>2. RowStays(r.task) \/ RowMoves(r.task) BY <1>2, <2>1
  <2> QED BY <1>4, <2>1, <2>2 DEF Holds, RowStays, RowMoves
<1>5. LiveHeld' /\ FreshRuns'
  BY <1>1, <1>4 DEF LiveHeld, FreshRuns
<1>6. ASSUME NEW t \in Tasks
      PROVE  /\ task'[t].attempts = failures'[t]
             /\ task'[t].attempts <= MaxAttempts
             /\ task'[t].status \in Open => task'[t].attempts < MaxAttempts
  <2>1. CASE RowStays(t) BY <1>1, <2>1 DEF Budget, RowStays
  <2>2. CASE RowMoves(t)
    <3>1. CASE /\ task'[t].attempts = task[t].attempts /\ failures'[t] = failures[t]
               /\ task'[t].status \in Open => task[t].status \in Open
      BY <1>1, <3>1 DEF Budget
    <3>2. CASE task'[t].attempts = 0 /\ failures'[t] = 0 BY <3>2
    <3>3. ASSUME NEW d \in Disps, NEW r \in runs[d],
                 r.task = t, Holds(r), task'[t].attempts = r.attempts + 1,
                 failures'[t] = failures[t] + 1,
                 r.attempts + 1 < MaxAttempts \/ task'[t].status = "failed"
          PROVE  /\ task'[t].attempts = failures'[t]
                 /\ task'[t].attempts <= MaxAttempts
                 /\ task'[t].status \in Open => task'[t].attempts < MaxAttempts
      <4>1. r.attempts = task[t].attempts /\ task[t].attempts \in Nat
        BY <1>1, <3>3 DEF FreshRuns, TypeOK, Row
      <4>2. task[t].attempts < MaxAttempts /\ task[t].attempts = failures[t]
        BY <1>1, <3>3 DEF Budget, Holds, Open
      <4> QED BY <3>3, <4>1, <4>2 DEF Open
    <3> QED BY <2>2, <3>1, <3>2, <3>3 DEF RowMoves
  <2> QED BY <1>2, <2>1, <2>2
<1>7. Budget'
  BY <1>6 DEF Budget
<1>8. ActiveProcessing' \subseteq ActiveProcessing
  <2> SUFFICES ASSUME NEW t \in Tasks, task'[t].status = "processing",
                      task'[t].lease = "live"
               PROVE  task[t].status = "processing" /\ task[t].lease = "live"
    BY DEF ActiveProcessing
  <2> QED BY <1>2 DEF RowStays, RowMoves
<1> QED BY <1>5, <1>7, <1>8

\* What such a step does to the dispatchers and the lane.
LEMMA CalmDisps ==
    ASSUME [Next]_vars, \A d \in Disps : ~ClaimCandidates(d)
    PROVE  \/ disp' = disp /\ lane' = lane
           \/ \E d \in Disps : ListClaimable(d) \/ CountActive(d) \/ Crash(d)
<1>1. ASSUME NEW t \in Tasks, RowStep(t) PROVE disp' = disp /\ lane' = lane
  BY <1>1 DEF RowStep, CreateTask, RecordRun, Due, LeaseExpires, CleanupTask
<1>2. ASSUME NEW a \in Admins, AdminStep(a) PROVE disp' = disp /\ lane' = lane
  BY <1>2 DEF AdminStep, RetryRead, RetryReset
<1>3. ASSUME NEW d \in Disps, NEW r \in runs[d], RunStep(d, r)
      PROVE  disp' = disp /\ lane' = lane
  BY <1>3 DEF RunStep, Heartbeat, LeaseLost, Succeed, RunFails, ReleaseRun, LoseOutcome
<1>4. CASE UNCHANGED vars
  BY <1>4 DEF vars
<1> QED BY <1>1, <1>2, <1>3, <1>4 DEF Next, DispStep

\* A dispatcher's state after a read, a count or a crash.
LEMMA DispMoves ==
    ASSUME TypeOK, NEW d \in Disps, ListClaimable(d) \/ CountActive(d) \/ Crash(d)
    PROVE  /\ task' = task \/ Crash(d)
           /\ \A e \in Disps \ {d} : disp'[e] = disp[e]
           /\ \/ /\ ListClaimable(d) /\ disp'[d].at = "listed" /\ lane' = lane
                 /\ disp'[d].cand = {[task |-> t, token |-> task[t].token,
                                      attempts |-> task[t].attempts] :
                                         t \in {u \in Tasks : Claimable(u)}}
              \/ disp'[d] = Idle /\ lane' = IF lane = d THEN NULL ELSE lane
              \/ /\ lane = NULL /\ lane' = d
                 /\ task' = task /\ disp'[d].at = "counted"
                 /\ disp'[d].cand = disp[d].cand
                 /\ disp'[d].avail = Available /\ Available # 0
<1>1. disp \in [Disps -> [at: {"idle", "listed", "counted"}, cand: SUBSET Snap, avail: Nat]]
  BY DEF TypeOK
<1>2. CASE ListClaimable(d)
  <2> DEFINE C == {[task |-> t, token |-> task[t].token, attempts |-> task[t].attempts] :
                      t \in {u \in Tasks : Claimable(u)}}
  <2>1. disp' = [disp EXCEPT ![d] = [Idle EXCEPT !.at = "listed", !.cand = C]]
    BY <1>2 DEF ListClaimable
  <2> HIDE DEF C
  <2>2. disp'[d] = [Idle EXCEPT !.at = "listed", !.cand = C]
        /\ \A e \in Disps \ {d} : disp'[e] = disp[e]
    BY <1>1, <2>1
  <2>3. disp'[d].at = "listed" /\ disp'[d].cand = C BY <2>2 DEF Idle
  <2>4. task' = task /\ lane' = lane BY <1>2 DEF ListClaimable
  <2> QED BY <1>2, <2>2, <2>3, <2>4 DEF C
<1>3. CASE CountActive(d)
  <2>1. CASE Available = 0
    <3>1. lane = NULL /\ lane' = lane /\ task' = task BY <1>3, <2>1 DEF CountActive
    <3>2. lane' = IF lane = d THEN NULL ELSE lane BY <3>1
    <3> QED BY <1>1, <1>3, <2>1, <3>1, <3>2 DEF CountActive
  <2>2. CASE Available # 0
    <3>1. /\ disp' = [disp EXCEPT ![d].at = "counted", ![d].avail = Available]
          /\ lane = NULL /\ lane' = d /\ task' = task
      BY <1>3, <2>2 DEF CountActive
    <3>2. \A e \in Disps \ {d} : disp'[e] = disp[e] BY <1>1, <3>1
    <3>3. /\ disp'[d].at = "counted" /\ disp'[d].cand = disp[d].cand
          /\ disp'[d].avail = Available
      BY <1>1, <3>1
    <3> QED BY <2>2, <3>1, <3>2, <3>3
  <2> QED BY <2>1, <2>2
<1>4. CASE Crash(d)
  BY <1>1, <1>4 DEF Crash
<1> QED BY <1>2, <1>3, <1>4

\* Every step but a batch claim keeps the lane's invariant.
LEMMA CalmLane ==
    ASSUME ~Stalls, LaneInv, [Next]_vars, \A d \in Disps : ~ClaimCandidates(d)
    PROVE  LaneInv'
<1>1. /\ TypeOK /\ LiveHeld /\ FreshCands /\ LaneCounted /\ WithinLimit
      /\ Fencing' /\ TypeOK'
  BY NextFencing DEF LaneInv, Fencing
<1>2. /\ LiveHeld' /\ FreshRuns' /\ Budget'
      /\ ActiveProcessing' \subseteq ActiveProcessing
  BY CalmRows
<1>3. /\ IsFiniteSet(ActiveProcessing)
      /\ Cardinality(ActiveProcessing) \in Nat
      /\ Cardinality(ActiveProcessing') \in Nat
      /\ Cardinality(ActiveProcessing') <= Cardinality(ActiveProcessing)
  <2>1. IsFiniteSet(ActiveProcessing) BY FS_Subset DEF ActiveProcessing
  <2>2. /\ IsFiniteSet(ActiveProcessing')
        /\ Cardinality(ActiveProcessing') <= Cardinality(ActiveProcessing)
    BY <1>2, <2>1, FS_Subset
  <2> QED BY <2>1, <2>2, FS_CardinalityType
<1>4. WithinLimit'
  BY <1>1, <1>3 DEF WithinLimit
<1>5. ASSUME NEW c \in Snap,
             c.token <= task[c.task].token,
             c.token = task[c.task].token
             => Claimable(c.task) /\ c.attempts = task[c.task].attempts
      PROVE  /\ c.token <= task'[c.task].token
             /\ c.token = task'[c.task].token
                => Claimable(c.task)' /\ c.attempts = task'[c.task].attempts
  <2>1. c.task \in Tasks BY DEF Snap
  <2>2. task'[c.task].token = task[c.task].token BY <1>1, <2>1, StepsKeepTokens
  <2>3. Claimable(c.task) => task'[c.task] = task[c.task]
    BY <1>1, <2>1, RowsMove DEF RowStays, RowMoves
  <2> QED BY <1>5, <2>2, <2>3 DEF Claimable
<1>6. ASSUME NEW d \in Disps, disp'[d].cand \subseteq disp[d].cand, NEW c \in disp'[d].cand
      PROVE  /\ c.token <= task'[c.task].token
             /\ c.token = task'[c.task].token
                => Claimable(c.task)' /\ c.attempts = task'[c.task].attempts
  <2>1. c \in disp[d].cand /\ c \in Snap BY <1>1, <1>6 DEF TypeOK
  <2>2. /\ c.token <= task[c.task].token
        /\ c.token = task[c.task].token
           => Claimable(c.task) /\ c.attempts = task[c.task].attempts
    BY <1>1, <2>1 DEF FreshCands
  <2> QED BY <1>5, <2>1, <2>2
<1>7. CASE disp' = disp /\ lane' = lane
  <2>1. FreshCands' BY <1>6, <1>7 DEF FreshCands
  <2>2. LaneCounted' BY <1>1, <1>3, <1>7 DEF LaneCounted, TypeOK
  <2> QED BY <1>1, <1>2, <1>4, <2>1, <2>2 DEF LaneInv
<1>8. ASSUME NEW d \in Disps, ListClaimable(d) \/ CountActive(d) \/ Crash(d) PROVE LaneInv'
  <2>1. /\ \A e \in Disps \ {d} : disp'[e] = disp[e]
        /\ \/ /\ ListClaimable(d) /\ disp'[d].at = "listed" /\ lane' = lane
              /\ disp'[d].cand = {[task |-> t, token |-> task[t].token,
                                   attempts |-> task[t].attempts] :
                                      t \in {u \in Tasks : Claimable(u)}}
           \/ disp'[d] = Idle /\ lane' = IF lane = d THEN NULL ELSE lane
           \/ /\ lane = NULL /\ lane' = d
              /\ task' = task /\ disp'[d].at = "counted"
              /\ disp'[d].cand = disp[d].cand
              /\ disp'[d].avail = Available /\ Available # 0
    BY <1>1, <1>8, DispMoves
  <2>2. FreshCands'
    <3>1. ASSUME NEW c \in disp'[d].cand
          PROVE  /\ c.token <= task'[c.task].token
                 /\ c.token = task'[c.task].token
                    => Claimable(c.task)' /\ c.attempts = task'[c.task].attempts
      <4>1. CASE ListClaimable(d) /\ disp'[d].cand = {[task |-> t, token |-> task[t].token,
                                   attempts |-> task[t].attempts] :
                                      t \in {u \in Tasks : Claimable(u)}}
        <5>1. PICK t \in Tasks : /\ Claimable(t)
                                 /\ c = [task |-> t, token |-> task[t].token,
                                         attempts |-> task[t].attempts]
          BY <3>1, <4>1
        <5>2. task' = task BY <4>1 DEF ListClaimable
        <5>3. task[t].token \in Nat BY <1>1 DEF TypeOK, Row
        <5> QED BY <5>1, <5>2, <5>3 DEF Claimable
      <4>2. CASE disp'[d].cand \subseteq disp[d].cand BY <1>6, <3>1, <4>2
      <4> QED BY <2>1, <4>1, <4>2 DEF Idle
    <3>2. ASSUME NEW e \in Disps, e # d, NEW c \in disp'[e].cand
          PROVE  /\ c.token <= task'[c.task].token
                 /\ c.token = task'[c.task].token
                    => Claimable(c.task)' /\ c.attempts = task'[c.task].attempts
      BY <1>6, <2>1, <3>2
    <3> QED BY <3>1, <3>2 DEF FreshCands
  <2>3. LaneCounted'
    <3> SUFFICES ASSUME NEW e \in Disps, disp'[e].at = "counted"
                 PROVE  /\ lane' = e
                        /\ Cardinality(ActiveProcessing') + disp'[e].avail <= Limit
      BY DEF LaneCounted
    <3>1. CASE e # d
      <4>1. disp'[e] = disp[e] /\ lane = e
            /\ Cardinality(ActiveProcessing) + disp[e].avail <= Limit
            /\ disp[e].avail \in Nat
        BY <1>1, <2>1, <3>1 DEF LaneCounted, TypeOK
      <4>2. lane' = e BY <2>1, <3>1, <4>1
      <4> QED BY <1>3, <4>1, <4>2
    <3>2. CASE e = d
      <4>1. lane' = d /\ disp'[d].avail = Available /\ Available # 0
        BY <2>1, <3>2 DEF Idle
      <4>2. Cardinality(ActiveProcessing) + Available <= Limit BY <1>3, <4>1 DEF Available
      <4> QED BY <1>3, <3>2, <4>1, <4>2, AvailableType
    <3> QED BY <3>1, <3>2
  <2> QED BY <1>1, <1>2, <1>4, <2>2, <2>3 DEF LaneInv
<1> QED BY <1>7, <1>8, CalmDisps

\* The tasks of a batch are as many as its candidates.
LEMMA BatchSize ==
    ASSUME NEW S \in SUBSET Snap, \A c1, c2 \in S : c1.task = c2.task => c1 = c2
    PROVE  /\ IsFiniteSet(S)
           /\ IsFiniteSet({c.task : c \in S})
           /\ Cardinality({c.task : c \in S}) <= Cardinality(S)
<1> DEFINE T == {c.task : c \in S}
           f == [c \in S |-> c.task]
<1>1. \A c \in S : c.task \in Tasks
  BY DEF Snap
<1>2. f \in Injection(S, Tasks)
  <2>1. f \in [S -> Tasks] BY <1>1
  <2>2. \A a, b \in S : f[a] = f[b] => a = b OBVIOUS
  <2> QED BY <2>1, <2>2 DEF Injection, IsInjective
<1>3. f \in Surjection(S, T)
  <2>1. f \in [S -> T] OBVIOUS
  <2>2. \A t \in T : \E c \in S : f[c] = t OBVIOUS
  <2> QED BY <2>1, <2>2 DEF Surjection
<1> HIDE DEF f, T
<1>4. IsFiniteSet(S)
  BY <1>2, FS_Injection
<1>5. IsFiniteSet(T) /\ Cardinality(T) <= Cardinality(S)
  BY <1>3, <1>4, FS_Surjection
<1> QED BY <1>4, <1>5 DEF T

\* A batch claim keeps the lane's invariant: it takes no more than what was
\* counted under the lane lock, from candidates that are as they were listed.
LEMMA ClaimLane ==
    ASSUME LaneInv, NEW d \in Disps, ClaimCandidates(d)
    PROVE  LaneInv'
<1>1. /\ TypeOK /\ Fencing /\ LiveHeld /\ FreshCands /\ FreshRuns /\ Budget
      /\ LaneCounted /\ WithinLimit
  BY DEF LaneInv, Fencing
<1>2. Fencing' /\ TypeOK'
  <2>1. [Next]_vars BY DEF Next, DispStep
  <2> QED BY <1>1, <2>1, NextFencing DEF Fencing
<1>3. PICK S \in SUBSET {c \in disp[d].cand : CanClaim(c)} :
        /\ \/ Cardinality(S) = disp[d].avail
           \/ Cardinality(S) < disp[d].avail
        /\ task' = [t \in Tasks |->
             IF \E c \in S : c.task = t
             THEN [task[t] EXCEPT
                     !.status = "processing", !.lease = "live",
                     !.token = (CHOOSE c \in S : c.task = t).token + 1]
             ELSE task[t]]
        /\ runs' = [runs EXCEPT ![d] = {[c EXCEPT !.token = c.token + 1] : c \in S}]
  BY DEF ClaimCandidates
<1>4. /\ S \in SUBSET Snap
      /\ \A c \in S : c \in disp[d].cand /\ CanClaim(c) /\ c.task \in Tasks
      /\ \A c1, c2 \in S : c1.task = c2.task => c1 = c2
  BY <1>1 DEF TypeOK, Snap, Fencing, OneCandidate
<1>5. \A c \in S : /\ c.token = task[c.task].token
                   /\ c.attempts = task[c.task].attempts
                   /\ Claimable(c.task)
  BY <1>1, <1>4 DEF CanClaim, FreshCands
<1> DEFINE T == {c.task : c \in S}
<1>6. \A t \in T : t \in Tasks /\ Claimable(t)
  BY <1>4, <1>5
<1>7. ASSUME NEW t \in T
      PROVE  /\ task'[t].status = "processing" /\ task'[t].lease = "live"
             /\ task'[t].token = task[t].token + 1
             /\ task'[t].attempts = task[t].attempts
  <2>1. task[t] \in Row /\ t \in Tasks BY <1>1, <1>6, <1>7 DEF TypeOK
  <2> DEFINE n == (CHOOSE c \in S : c.task = t).token + 1
  <2>2. n = task[t].token + 1 BY <1>5, <1>7
  <2>3. task'[t] = [task[t] EXCEPT !.status = "processing", !.lease = "live", !.token = n]
    BY <1>3, <1>7, <2>1
  <2> HIDE DEF n, T
  <2> QED BY <2>1, <2>2, <2>3 DEF Row
<1>8. \A t \in Tasks \ T : task'[t] = task[t]
  BY <1>3
<1>9. disp'[d] = Idle /\ \A e \in Disps \ {d} : disp'[e] = disp[e]
  BY <1>1 DEF ClaimCandidates, TypeOK
<1>10. runs'[d] = {[c EXCEPT !.token = c.token + 1] : c \in S}
       /\ \A e \in Disps \ {d} : runs'[e] = runs[e]
  BY <1>1, <1>3 DEF TypeOK
<1> HIDE DEF T
<1>11. ASSUME NEW e \in Disps, e # d, NEW r \in runs'[e], Holds(r)'
       PROVE  r \in runs[e] /\ Holds(r) /\ r.task \in Tasks /\ task'[r.task] = task[r.task]
  <2>1. r \in runs[e] /\ r.task \in Tasks /\ r.token \in Nat
    BY <1>1, <1>10, <1>11, RunsAreSnaps DEF Snap
  <2>2. r.token <= task[r.task].token /\ task[r.task].token \in Nat
    BY <1>1, <2>1 DEF Fencing, RunsBehind, TypeOK, Row
  <2>3. r.task \notin T BY <1>7, <1>11, <2>1, <2>2 DEF Holds
  <2> QED BY <1>8, <1>11, <2>1, <2>3 DEF Holds
<1>12. ASSUME NEW r \in runs'[d]
       PROVE  r.task \in T /\ r.attempts = task[r.task].attempts
  <2>1. PICK c \in S : r = [c EXCEPT !.token = c.token + 1] BY <1>10, <1>12
  <2>2. r.task = c.task /\ r.attempts = c.attempts BY <1>4, <2>1 DEF Snap
  <2> QED BY <1>5, <2>1, <2>2 DEF T
<1>13. LiveHeld' /\ FreshRuns'
  <2>1. ASSUME NEW e \in Disps, NEW r \in runs'[e], Holds(r)'
        PROVE  task'[r.task].lease = "live" /\ r.attempts = task'[r.task].attempts
    <3>1. CASE e = d BY <1>7, <1>12, <2>1, <3>1
    <3>2. CASE e # d BY <1>1, <1>11, <2>1, <3>2 DEF LiveHeld, FreshRuns
    <3> QED BY <3>1, <3>2
  <2> QED BY <2>1 DEF LiveHeld, FreshRuns
<1>14. FreshCands'
  <2> SUFFICES ASSUME NEW e \in Disps, NEW c \in disp'[e].cand
               PROVE  /\ c.token <= task'[c.task].token
                      /\ c.token = task'[c.task].token
                         => Claimable(c.task)' /\ c.attempts = task'[c.task].attempts
    BY DEF FreshCands
  <2>1. e # d /\ c \in disp[e].cand BY <1>9 DEF Idle
  <2>2. c.task \in Tasks /\ c.token \in Nat /\ task[c.task].token \in Nat
    BY <1>1, <2>1 DEF TypeOK, Snap, Row
  <2>3. /\ c.token <= task[c.task].token
        /\ c.token = task[c.task].token
           => Claimable(c.task) /\ c.attempts = task[c.task].attempts
    BY <1>1, <2>1 DEF FreshCands
  <2>4. CASE c.task \in T BY <1>7, <2>2, <2>3, <2>4
  <2>5. CASE c.task \notin T BY <1>8, <2>2, <2>3, <2>5 DEF Claimable
  <2> QED BY <2>4, <2>5
<1>15. Budget'
  <2>1. failures' = failures BY DEF ClaimCandidates
  <2>2. ASSUME NEW t \in Tasks
        PROVE  /\ task'[t].attempts = failures'[t]
               /\ task'[t].attempts <= MaxAttempts
               /\ task'[t].status \in Open => task'[t].attempts < MaxAttempts
    <3>1. CASE t \in T BY <1>1, <1>6, <1>7, <2>1, <3>1 DEF Budget, Claimable, Open
    <3>2. CASE t \notin T BY <1>1, <1>8, <2>1, <3>2 DEF Budget
    <3> QED BY <3>1, <3>2
  <2> QED BY <2>2 DEF Budget
<1>16. LaneCounted'
  <2>1. lane = d BY <1>1 DEF LaneCounted, ClaimCandidates
  <2>2. \A e \in Disps : disp'[e].at # "counted" BY <1>1, <1>9, <2>1 DEF LaneCounted, Idle
  <2> QED BY <2>2 DEF LaneCounted
<1>17. WithinLimit'
  <2>1. Cardinality(ActiveProcessing) + disp[d].avail <= Limit /\ disp[d].avail \in Nat
    BY <1>1 DEF LaneCounted, ClaimCandidates, TypeOK
  <2>2. IsFiniteSet(S) /\ IsFiniteSet(T) /\ Cardinality(T) <= Cardinality(S)
    BY <1>4, BatchSize DEF T
  <2>3. IsFiniteSet(ActiveProcessing) BY FS_Subset DEF ActiveProcessing
  <2>4. ActiveProcessing' \subseteq ActiveProcessing \cup T BY <1>8 DEF ActiveProcessing
  <2>5. /\ IsFiniteSet(ActiveProcessing \cup T)
        /\ Cardinality(ActiveProcessing \cup T)
             = Cardinality(ActiveProcessing) + Cardinality(T)
               - Cardinality(ActiveProcessing \cap T)
    BY <2>2, <2>3, FS_Union
  <2>6. IsFiniteSet(ActiveProcessing \cap T) BY <2>3, FS_Subset
  <2>7. /\ Cardinality(ActiveProcessing') <= Cardinality(ActiveProcessing \cup T)
        /\ IsFiniteSet(ActiveProcessing')
    BY <2>4, <2>5, FS_Subset
  <2>8. /\ Cardinality(S) \in Nat /\ Cardinality(T) \in Nat
        /\ Cardinality(ActiveProcessing) \in Nat
        /\ Cardinality(ActiveProcessing') \in Nat
        /\ Cardinality(ActiveProcessing \cap T) \in Nat
    BY <2>2, <2>3, <2>6, <2>7, FS_CardinalityType
  <2>9. Cardinality(S) <= disp[d].avail
    <3>1. Cardinality(S) = disp[d].avail \/ Cardinality(S) < disp[d].avail BY <1>3
    <3> QED BY <2>1, <2>8, <3>1
  <2>10. Cardinality(ActiveProcessing') <= Limit BY <2>1, <2>2, <2>5, <2>7, <2>8, <2>9
  <2> QED BY <2>10 DEF WithinLimit
<1> QED BY <1>2, <1>13, <1>14, <1>15, <1>16, <1>17 DEF LaneInv

\* The lane's invariant holds throughout when no live worker stalls.
LEMMA LaneHolds == ASSUME ~Stalls PROVE Spec => []LaneInv
<1>1. Init => LaneInv
  <2> SUFFICES ASSUME Init PROVE LaneInv
    OBVIOUS
  <2>1. Fencing BY InitFencing
  <2>2. LiveHeld /\ FreshCands /\ FreshRuns /\ LaneCounted
    BY DEF Init, LiveHeld, FreshCands, FreshRuns, LaneCounted, Idle
  <2>3. Budget BY DEF Init, Budget, AbsentRow
  <2>4. ActiveProcessing = {} BY DEF Init, ActiveProcessing, AbsentRow
  <2>5. WithinLimit BY <2>4, FS_EmptySet DEF WithinLimit
  <2> QED BY <2>1, <2>2, <2>3, <2>5 DEF LaneInv
<1>2. LaneInv /\ [Next]_vars => LaneInv'
  BY CalmLane, ClaimLane
<1> QED BY <1>1, <1>2, PTL DEF Spec

\* While heartbeats come in time the lane never has more live leases than
\* background_task_max_concurrency, however dispatchers overlap and crash:
\* the count is made under the lane lock that the claim still holds.
THEOREM LaneWithinLimit == ASSUME ~Stalls PROVE Spec => []WithinLimit
<1>1. LaneInv => WithinLimit
  BY DEF LaneInv
<1> QED BY <1>1, LaneHolds, PTL

\* While heartbeats come in time attempt_count is the number of failures
\* recorded since creation or manual retry and stays within max_attempts,
\* although an outcome counts from the row read before the claim.
THEOREM AttemptsAreCounted == ASSUME ~Stalls PROVE Spec => []AttemptsCounted
<1>1. LaneInv => AttemptsCounted
  BY DEF LaneInv, Budget, AttemptsCounted
<1> QED BY <1>1, LaneHolds, PTL
=============================================================================
