----------------------------- MODULE ConfigStore ------------------------------
(***************************************************************************)
(* The runtime configuration of a deployment of several nodes: the rows of *)
(* system_config, the snapshot of them every node works with, the audit    *)
(* settings compiled from the snapshot, the requests of administrators,    *)
(* the notifications nodes send each other and the start of a node.        *)
(*                                                                         *)
(* A request runs on one node; a step ends where the code waits for the    *)
(* database or for Redis, and between the two locks of RuntimeConfig.  A   *)
(* notification reaches the nodes that subscribe at that moment, or is     *)
(* lost.  The visibility of custom rows is checked, not kept.              *)
(***************************************************************************)
EXTENDS ConfigValues

CONSTANTS
    Nodes,       \* processes that share one database
    MaxKey,      \* bound: signature keys ever generated
    Workloads    \* what each behaviour starts with and who asks for what

ASSUME ConfigAssumption ==
    /\ IsFiniteSet(Nodes) /\ Nodes # {} /\ MaxKey \in Nat
    /\ {PrivateKey, PublicKey, "audit_log_enabled", "audit_log_recorded_actions"} \subseteq SystemKeys \ DeprecatedKeys
    /\ \A w \in Workloads :
          /\ IsFiniteSet(DOMAIN w.jobs) /\ DOMAIN w.jobs \cap (Nodes \cup {0}) = {}
          /\ \A j \in DOMAIN w.jobs : w.jobs[j].node \in Nodes /\ IsValue(w.jobs[j].value)
          \* rows hold values of any form; the private key is one the program wrote
          /\ \A k \in DOMAIN w.rows : IsValue(w.rows[k])
          /\ PrivateKey \in DOMAIN w.rows => Trim(w.rows[PrivateKey]) \in {Blank, Key(0)}
          \* a deployment that runs has both halves of a key, when a run is about keys
          /\ w.started /\ w.aboutKeys =>
                {PrivateKey, PublicKey} \subseteq DOMAIN w.rows /\ w.rows[PublicKey] = Pub(Trim(w.rows[PrivateKey])[2])

Stages == {"off", "defaults", "load", "find key", "save key", "sync key", "up"}
Steps == {"new", "find", "upsert", "delete", "remove", "apply", "build", "write", "public", "apply public", "publish",
          "done", "refused", "failed"}
NoRows == [k \in {} |-> Missing]

VARIABLES
    load,
    db,       \* system_config: key -> value
    snap,     \* RuntimeConfig.snapshot of each node
    audit,    \* RuntimeConfig.audit_log_settings of each node
    stage,    \* how far the start of each node is
    found,    \* the private key a starting node works with
    sub,      \* the reload under way on each node: step and rows read
    box,      \* notifications each node has not looked at
    job,      \* requests: step, value to store, settings built
    fresh,    \* keys generated so far
    left,     \* restarts and losses that may still happen
    tangled,  \* history: nodes with two changes of their snapshot under way at once
    missed,   \* history: nodes past loading when rows changed without a notification to them
    crossed   \* history: two writers of the signature key at once, or a direct one

configVars == <<load, db, snap, audit, stage, found, sub, box, job, fresh, left, tangled, missed, crossed>>
local == <<snap, audit>>
starting == <<stage, found>>
reload == <<sub, box>>

Jobs == DOMAIN load.jobs
On(n) == {j \in Jobs : load.jobs[j].node = n}
Relevant == [k \in {r \in SystemKeys : r \in load.keys} |-> CONFIG_REGISTRY[k].default]

ConfigInit ==
    /\ load \in Workloads
    /\ db = IF load.started THEN Over(load.rows, Relevant) ELSE load.rows
    /\ snap = [n \in Nodes |-> IF load.started THEN db ELSE NoRows]
    /\ audit = [n \in Nodes |-> AuditSettings(snap[n])]
    /\ stage = [n \in Nodes |-> IF load.started THEN "up" ELSE "off"]
    /\ found = [n \in Nodes |-> Missing]
    /\ sub = [n \in Nodes |-> [at |-> "idle", rows |-> NoRows]]
    /\ box = [n \in Nodes |-> 0]
    /\ job = [j \in Jobs |-> [at |-> "new", value |-> Missing, set |-> AuditSettings(NoRows)]]
    /\ fresh = 0 /\ left = load.left
    /\ tangled = {} /\ missed = {} /\ crossed = FALSE

-----------------------------------------------------------------------------
(* What is under way.                                                      *)

\* Changes of a node's snapshot between the database and their last step.
Midway(n) == {j \in On(n) : job[j].at \in {"remove", "apply", "build", "write", "public", "apply public"}}
             \cup {i \in {0} : sub[n].at # "idle"}
\* Writers of the signature key between its private and its public half.
KeyWriters == {n \in Nodes : stage[n] \in {"save key", "sync key"}} \cup {j \in Jobs : job[j].at = "public"}
Watch ==
    /\ UNCHANGED load
    /\ tangled' = {n \in tangled : stage'[n] # "off"} \cup {n \in Nodes : Cardinality(Midway(n)') > 1}
    /\ crossed' = (crossed \/ Cardinality(KeyWriters') > 1
                   \/ \E j \in Jobs : load.jobs[j].op = "save" /\ load.jobs[j].key = PublicKey /\ job'[j].at # "new")
\* A row changed and nobody is told: nodes that loaded the rows before do not have it.
Unheard == {n \in Nodes : stage[n] \notin {"off", "defaults", "load"}}
Silently == missed' = missed \cup (IF db' = db THEN {} ELSE Unheard)

-----------------------------------------------------------------------------
(* The start of a node: prepare_common_state.                              *)

Booting(n, s, t) == stage[n] = s /\ stage' = [stage EXCEPT ![n] = t]

bootstrap_insecure_cookies(n) ==
    /\ Booting(n, "off", "defaults")
    /\ db' = IF load.insecure /\ "auth_cookie_secure" \notin DOMAIN db
               THEN Put(db, "auth_cookie_secure", Bool(FALSE)) ELSE db
    /\ Silently /\ UNCHANGED <<local, found, reload, job, fresh>>

ensure_defaults(n) ==
    /\ Booting(n, "defaults", "load")
    /\ LET kept == [k \in DOMAIN db \ DeprecatedKeys |-> db[k]] IN db' = Over(kept, Relevant)
    /\ Silently /\ UNCHANGED <<local, found, reload, job, fresh>>

prepare_runtime_config(n) ==
    /\ Booting(n, "load", "find key")
    /\ snap' = [snap EXCEPT ![n] = db]
    /\ audit' = [audit EXCEPT ![n] = AuditSettings(db)]
    /\ missed' = missed \ {n}
    /\ UNCHANGED <<db, found, reload, job, fresh>>

ensure_signature_key(n) ==
    /\ Get(db, PrivateKey) \in {Missing, Blank} => fresh < MaxKey
    /\ IF Get(db, PrivateKey) \in {Missing, Blank}
         THEN /\ Booting(n, "find key", "save key") /\ fresh' = fresh + 1
              /\ found' = [found EXCEPT ![n] = Key(fresh')]
         ELSE /\ Booting(n, "find key", "sync key") /\ UNCHANGED fresh
              /\ found' = [found EXCEPT ![n] = Get(db, PrivateKey)]
    /\ UNCHANGED <<db, local, reload, job, missed>>

SaveGeneratedKey(n) ==
    /\ Booting(n, "save key", "sync key")
    /\ db' = Put(db, PrivateKey, found[n])
    /\ Silently /\ UNCHANGED <<local, found, reload, job, fresh>>

\* mutant: a public key that is there is left alone
SyncOnlyMissing(n) ==
    /\ Booting(n, "sync key", "up")
    /\ db' = IF Get(db, PublicKey) \notin {Missing, Blank} THEN db ELSE Put(db, PublicKey, Pub(found[n][2]))
    /\ Silently /\ UNCHANGED <<local, found, reload, job, fresh>>

sync_public_key_config(n) ==
    /\ Booting(n, "sync key", "up")
    /\ LET public == Pub(found[n][2]) IN
         db' = IF Get(db, PublicKey) = public THEN db ELSE Put(db, PublicKey, public)
    /\ Silently /\ UNCHANGED <<local, found, reload, job, fresh>>

\* The process ends, wherever it is, and starts again.
Restart(n) ==
    /\ left > 0 /\ left' = left - 1 /\ stage[n] # "off" /\ load.restarts
    /\ stage' = [stage EXCEPT ![n] = "off"]
    /\ snap' = [snap EXCEPT ![n] = NoRows] /\ audit' = [audit EXCEPT ![n] = AuditSettings(NoRows)]
    /\ sub' = [sub EXCEPT ![n] = [at |-> "idle", rows |-> NoRows]] /\ box' = [box EXCEPT ![n] = 0]
    /\ job' = [j \in Jobs |-> IF j \in On(n) /\ job[j].at # "new" THEN [job[j] EXCEPT !.at = "done"] ELSE job[j]]
    \* what its requests stored and did not publish, the other nodes never hear of
    /\ missed' = missed \cup IF \E j \in On(n) : job[j].at \in Steps \ {"new", "find", "upsert", "delete", "done", "refused", "failed"}
                               THEN Unheard ELSE {}
    /\ UNCHANGED <<db, found, fresh>>

-----------------------------------------------------------------------------
(* Requests of administrators.                                             *)

At(j, op, s) == job[j].at = s /\ load.jobs[j].op \in op /\ stage[load.jobs[j].node] = "up"
To(j, s) == job' = [job EXCEPT ![j].at = s]
Here(j) == load.jobs[j].node
Of(j) == load.jobs[j].key

\* the routes
set_config(j) == At(j, {"save"}, "new")
delete_config(j) == At(j, {"delete"}, "new")
execute_config_action(j) == At(j, {"preview", "mail"}, "new")

validate_targets(j) == Of(j) # PrivateKey /\ (load.jobs[j].vis => Of(j) \notin SystemKeys)

\* the checks, and the normalisation against this node's snapshot
save_config(j) ==
    /\ set_config(j)
    /\ LET value == Normalize(snap[Here(j)], Of(j), load.jobs[j].value)
           ok == validate_targets(j) /\ value # Refused
       IN job' = [job EXCEPT ![j].at = IF ok THEN "upsert" ELSE "refused", ![j].value = value]
    /\ UNCHANGED <<db, local, starting, reload, fresh, missed>>

Upsert(j) ==
    /\ At(j, {"save"}, "upsert") /\ To(j, "apply")
    /\ db' = Put(db, Of(j), job[j].value)
    /\ UNCHANGED <<local, starting, reload, fresh, missed>>

\* RuntimeConfig::apply: the snapshot, and for an audit key that changed the settings built from it
ApplySaved(j) ==
    /\ At(j, {"save"}, "apply")
    /\ snap' = [snap EXCEPT ![Here(j)] = Put(@, Of(j), job[j].value)]
    /\ LET kept == Of(j) \in DOMAIN snap[Here(j)] /\ snap[Here(j)][Of(j)] = job[j].value
       IN To(j, IF Of(j) \in {"audit_log_enabled", "audit_log_recorded_actions"} /\ ~kept THEN "build" ELSE "publish")
    /\ UNCHANGED <<db, audit, starting, reload, fresh, missed>>

build_audit_log_settings(j) ==
    /\ At(j, {"save"}, "build")
    /\ job' = [job EXCEPT ![j].at = "write", ![j].set = AuditSettings(snap[Here(j)])]
    /\ UNCHANGED <<db, local, starting, reload, fresh, missed>>

WriteSettings(j) ==
    /\ At(j, {"save"}, "write") /\ To(j, "publish")
    /\ audit' = [audit EXCEPT ![Here(j)] = job[j].set]
    /\ UNCHANGED <<db, snap, starting, reload, fresh, missed>>

\* the row must be there and be a custom one
delete_with_audit(j) ==
    /\ delete_config(j) /\ To(j, IF Of(j) \in DOMAIN db THEN "delete" ELSE "refused")
    /\ UNCHANGED <<db, local, starting, reload, fresh, missed>>

DeleteRow(j) ==
    /\ At(j, {"delete"}, "delete")
    /\ IF Of(j) \in DOMAIN db \ SystemKeys
         THEN db' = [k \in DOMAIN db \ {Of(j)} |-> db[k]] /\ To(j, "remove")
         ELSE UNCHANGED db /\ To(j, "refused")
    /\ UNCHANGED <<local, starting, reload, fresh, missed>>

\* mutant: the deleted key stays in the snapshot of the node that deleted it
KeepDeleted(j) ==
    /\ At(j, {"delete"}, "remove") /\ To(j, "publish")
    /\ UNCHANGED <<db, local, starting, reload, fresh, missed>>

RemoveDeleted(j) ==
    /\ At(j, {"delete"}, "remove") /\ To(j, "publish")
    /\ snap' = [snap EXCEPT ![Here(j)] = [k \in DOMAIN @ \ {Of(j)} |-> @[k]]]
    /\ UNCHANGED <<db, audit, starting, reload, fresh, missed>>

\* the target decides which actions there are
execute_action(j) ==
    /\ execute_config_action(j)
    /\ LET override == load.jobs[j].value
           value == IF Of(j) \in CaptchaKeys THEN Normalize(snap[Here(j)], Of(j), override) ELSE Refused
       IN job' = [job EXCEPT ![j].at = IF load.jobs[j].op = "mail" \/ value = Refused THEN "refused" ELSE "done",
                             ![j].value = IF value = Refused THEN Refused
                                          ELSE RuntimeCaptchaPolicy(snap[Here(j)], Of(j) :> value)[Of(j)]]
    /\ UNCHANGED <<db, local, starting, reload, fresh, missed>>

execute_yggdrasil_action(j) ==
    /\ At(j, {"rotate"}, "new") /\ fresh < MaxKey
    /\ fresh' = fresh + 1
    /\ job' = [job EXCEPT ![j].at = "public", ![j].value = Key(fresh')]
    /\ db' = Put(db, PrivateKey, Key(fresh'))
    /\ UNCHANGED <<local, starting, reload, missed>>

RotatePublic(j) ==
    /\ At(j, {"rotate"}, "public") /\ To(j, "apply")
    /\ db' = Put(db, PublicKey, Pub(job[j].value[2]))
    /\ UNCHANGED <<local, starting, reload, fresh, missed>>

ApplyPrivate(j) ==
    /\ At(j, {"rotate"}, "apply") /\ To(j, "apply public")
    /\ snap' = [snap EXCEPT ![Here(j)] = Put(@, PrivateKey, job[j].value)]
    /\ UNCHANGED <<db, audit, starting, reload, fresh, missed>>

ApplyPublic(j) ==
    /\ At(j, {"rotate"}, "apply public") /\ To(j, "publish")
    /\ snap' = [snap EXCEPT ![Here(j)] = Put(@, PublicKey, Pub(job[j].value[2]))]
    /\ UNCHANGED <<db, audit, starting, reload, fresh, missed>>

\* publish_reload: every other node that subscribes hears of it
Publish(j) ==
    /\ At(j, {"save", "delete", "rotate"}, "publish") /\ To(j, "done")
    /\ LET heard == {n \in Nodes \ {Here(j)} : stage[n] = "up"} IN
         /\ box' = [n \in Nodes |-> box[n] + (IF n \in heard THEN 1 ELSE 0)]
         /\ missed' = missed \cup (Unheard \ (heard \cup {Here(j)}))
    /\ UNCHANGED <<db, local, starting, sub, fresh>>

\* Redis does not answer: the request fails, what it changed stays changed.
PublishFails(j) ==
    /\ left > 0 /\ load.losses /\ left' = left - 1
    /\ At(j, {"save", "delete", "rotate"}, "publish") /\ To(j, "failed")
    /\ missed' = missed \cup (Unheard \ {Here(j)})
    /\ UNCHANGED <<db, local, starting, reload, fresh>>

-----------------------------------------------------------------------------
(* The subscription of a node: run_config_reload_subscription.             *)

\* RuntimeConfig::reload reads all rows,
Receive(n) ==
    /\ stage[n] = "up" /\ sub[n].at = "idle" /\ box[n] > 0
    /\ box' = [box EXCEPT ![n] = @ - 1]
    /\ sub' = [sub EXCEPT ![n] = [at |-> "replace", rows |-> db]]
    /\ UNCHANGED <<db, local, starting, job, fresh, missed>>

\* replaces the snapshot,
ReplaceSnapshot(n) ==
    /\ sub[n].at = "replace" /\ sub' = [sub EXCEPT ![n].at = "settings"]
    /\ snap' = [snap EXCEPT ![n] = sub[n].rows]
    /\ UNCHANGED <<db, audit, starting, box, job, fresh, missed>>

\* and writes the settings it built from the same rows.
ReplaceSettings(n) ==
    /\ sub[n].at = "settings" /\ sub' = [sub EXCEPT ![n] = [at |-> "idle", rows |-> NoRows]]
    /\ audit' = [audit EXCEPT ![n] = AuditSettings(sub[n].rows)]
    /\ UNCHANGED <<db, snap, starting, box, job, fresh, missed>>

\* The notification does not arrive, or the read fails.
LoseNotification(n) ==
    /\ left > 0 /\ load.losses /\ left' = left - 1 /\ box[n] > 0
    /\ box' = [box EXCEPT ![n] = @ - 1] /\ missed' = missed \cup {n}
    /\ UNCHANGED <<db, local, starting, sub, job, fresh>>

Started(n) ==
    bootstrap_insecure_cookies(n) \/ ensure_defaults(n) \/ prepare_runtime_config(n) \/ ensure_signature_key(n)
      \/ SaveGeneratedKey(n) \/ sync_public_key_config(n)
Request(j) ==
    save_config(j) \/ Upsert(j) \/ ApplySaved(j) \/ build_audit_log_settings(j) \/ WriteSettings(j)
      \/ delete_with_audit(j) \/ DeleteRow(j) \/ RemoveDeleted(j) \/ execute_action(j) \/ execute_yggdrasil_action(j)
      \/ RotatePublic(j) \/ ApplyPrivate(j) \/ ApplyPublic(j) \/ Publish(j)
Reload(n) == Receive(n) \/ ReplaceSnapshot(n) \/ ReplaceSettings(n)

Step ==
    \/ (\E n \in Nodes : Started(n) \/ Reload(n)) /\ UNCHANGED left
    \/ (\E j \in Jobs : Request(j)) /\ UNCHANGED left
    \/ \E n \in Nodes : Restart(n) \/ LoseNotification(n)
    \/ \E j \in Jobs : PublishFails(j)
ConfigNext == Step /\ Watch

ConfigSpec == ConfigInit /\ [][ConfigNext]_configVars

-----------------------------------------------------------------------------
(* Properties.                                                             *)

\* Every node is somewhere in its start, every request at one of its steps, and the keys in use exist.
ConfigTypeOK ==
    /\ stage \in [Nodes -> Stages] /\ \A j \in Jobs : job[j].at \in Steps
    /\ fresh \in 0..MaxKey /\ \A n \in Nodes : box[n] >= 0 /\ sub[n].at \in {"idle", "replace", "settings"}
    /\ \A n \in Nodes : configured_private_key(snap[n]) \subseteq 0..fresh
    /\ PrivateKey \in DOMAIN db => Get(db, PrivateKey) \in {Blank} \cup {Key(i) : i \in 0..fresh}

Quiet ==
    /\ \A j \in Jobs : job[j].at \in {"new", "done", "refused", "failed"}
    /\ \A n \in Nodes : box[n] = 0 /\ sub[n].at = "idle" /\ stage[n] = "up"

\* Once every notification is handled each node works with what is stored, and its audit settings
\* are those of its snapshot: save_config and delete (system.rs) against reload (runtime_config.rs).
NodesConverge ==
    Quiet => \A n \in Nodes \ (tangled \cup missed) : snap[n] = db /\ audit[n] = AuditSettings(db)

\* No node ever lets every origin in with credentials, whatever two administrators save at once
\* on two nodes: runtime_cors_policy checks what the normalisers could only check against a snapshot.
CorsNeverOpen ==
    \A c \in {snap[n] : n \in Nodes} : LET p == runtime_cors_policy(c)
                     IN ~(p.cors_allowed_origins = List({"*"}) /\ p.cors_allow_credentials = Bool(TRUE))

\* Whatever a row holds, the policies are usable: lifetimes, intervals and limits are above zero, the
\* captcha and the preview stay within what their renderers take (auth_runtime.rs, texture_preview.rs).
PoliciesInBounds ==
    \A n \in Nodes : \A k \in DOMAIN snap[n] \cap SystemKeys : \A used \in {Effective(snap[n], k)} :
      used # Missing =>
        /\ CONFIG_REGISTRY[k].rule = "positive" => AtLeast(used, 1) /\ (k = "background_task_max_attempts" => used # Huge)
        /\ CONFIG_REGISTRY[k].rule = "bool" => used[1] = "bool"
        /\ k = "auth_captcha_length" => Between(used, 4, 8)
        /\ k = "auth_captcha_max_attempts" => Between(used, 1, 10)
        /\ k = "texture_preview_3d_supersampling" => Between(used, 1, 4)
        /\ k = "mail_smtp_port" => Between(used, 1, 65535)
        /\ CONFIG_REGISTRY[k].rule \in {"subject", "body"} \/ k = "branding_title" => Trim(used) # Blank

\* Keys whose stored value does not always win: combined with another key, or accepted and not used.
Combined == {"cors_allowed_origins", "cors_allow_credentials", "cors_max_age_secs", "texture_preview_3d_supersampling",
             "background_task_max_attempts", "audit_log_retention_days"}
\* What the API accepts is what the program uses (the normalisers and the readers of one key agree),
\* and what it stored it would store again unchanged.
SavedIsEffective ==
    \A j \in Jobs : LET k == Of(j) v == job[j].value IN
      load.jobs[j].op = "save" /\ job[j].at \in {"publish", "done"} /\ k \in DOMAIN db \cap (SystemKeys \ Combined) /\ db[k] = v =>
        /\ \A used \in {Effective(db, k)} :
              used \in {Missing, v, Trim(v)} \/ (v \in {Blank, Text("legacy")} /\ used = Default(k))
        /\ Normalize(db, k, v) = v

\* The addresses given for textures are on hosts the metadata tells launchers to trust.
TexturesServable ==
    \A c \in {snap[n] : n \in Nodes} :
        texture_public_url(c) \cup required_texture_object_public_url(c) \subseteq metadata(c).skin_domains

\* What a node signs verifies with the key its metadata gives, at every step of a rotation; and once all
\* is quiet the stored public key is that of the stored private one, a crash within a rotation included.
SignaturesVerify ==
    /\ \A n \in Nodes : \A i \in sign_texture_property(snap[n]) : metadata(snap[n]).signature_publickey = Pub(i)
    /\ Quiet /\ ~crossed /\ PrivateKey \in DOMAIN db /\ load.aboutKeys => Get(db, PublicKey) = Pub(Get(db, PrivateKey)[2])


\* What an administrator saves, or a row holds, is used within the limits of the program: no open CORS,
\* no policy out of bounds, nothing accepted and then ignored, no texture on a host launchers refuse.
PoliciesSound == ConfigTypeOK /\ CorsNeverOpen /\ PoliciesInBounds /\ SavedIsEffective /\ TexturesServable
=============================================================================
