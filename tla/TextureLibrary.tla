---------------------------- MODULE TextureLibrary ----------------------------
(***************************************************************************)
(* The public texture library: submission, review, take-down, reports and  *)
(* tags.  A request reads the row it works on, decides, and writes columns *)
(* of that row by id; between the read and the write other requests run.   *)
(* todo[c] is the list of statements request c still has to execute.       *)
(*                                                                         *)
(* update_library_review, update_wardrobe_metadata_for_user and handle     *)
(* write only the columns they set, not the row that was read.  The object *)
(* storage, bindings and caches of a texture are TextureStore's.           *)
(***************************************************************************)
EXTENDS Naturals, Sequences, FiniteSets, SequencesExt

CONSTANTS
    Users,        \* wardrobe owners and reporters; administrators need no name
    Contents,     \* texture contents
    Names,        \* normalised tag names
    Clients,      \* requests in flight
    MaxTex,       \* bound: texture rows alive
    MaxTag,       \* bound: tags alive
    MaxReport,    \* bound: reports alive
    Workloads,    \* sets of operations issued together
    None

TexIds == 1..MaxTex
TagIds == 1..MaxTag
ReportIds == 1..MaxReport
Statuses == {"private", "pending", "published", "rejected"}
Visibilities == {"private", "public"}
ReportStatuses == {"pending", "accepted", "rejected"}
Ops == {"upload", "visibility", "replace", "submit", "withdraw", "copy", "retag", "delete", "report",
        "approve", "reject", "unpublish", "remove", "accept", "dismiss", "tags", "policy"}

Texture == [owner : Users, content : Contents, vis : Visibilities, status : Statuses]
Report == [t : TexIds, by : Users, status : ReportStatuses]

ASSUME LibraryAssumption ==
    /\ MaxTex \in Nat /\ MaxTag \in Nat /\ MaxReport \in Nat
    /\ Workloads \subseteq [ops : [Clients -> SUBSET Ops], serial : BOOLEAN, faults : Nat,
                            review : BOOLEAN, texs : SUBSET TexIds, contents : SUBSET Contents]
    /\ None \notin Nat /\ None \notin Users /\ None \notin Names /\ None \notin Texture /\ None \notin Report

VARIABLES
    tex,       \* minecraft_textures: id -> row or None
    tags,      \* minecraft_texture_tags: id -> normalised name or None
    tagged,    \* minecraft_texture_tag_bindings: set of <<texture, tag>>
    reports,   \* minecraft_texture_reports: id -> row or None
    policy,    \* texture_library_enabled, texture_library_review_required
    todo, load, faults,
    cleared,   \* history: <<texture, content>> approved, or submitted when no review was required
    overtaken  \* history: <<texture, content>> published by an approval that had read another content

vars == <<tex, tags, tagged, reports, policy, todo, load, faults, cleared, overtaken>>
db == <<tex, tags, tagged, reports>>
env == <<policy, load, faults>>
history == <<cleared, overtaken>>

Live == {t \in TexIds : tex[t] # None}
LiveTags == {g \in TagIds : tags[g] # None}
LiveReports == {r \in ReportIds : reports[r] # None}

Init ==
    /\ load \in Workloads
    /\ tex = [t \in TexIds |-> None] /\ tags = [g \in TagIds |-> None]
    /\ tagged = {} /\ reports = [r \in ReportIds |-> None]
    /\ policy = [enabled |-> TRUE, review |-> load.review]
    /\ todo = [c \in Clients |-> <<>>]
    /\ faults = load.faults /\ cleared = {} /\ overtaken = {}

-----------------------------------------------------------------------------
(* Requests.                                                               *)

At(c, j) == todo[c] # <<>> /\ Head(todo[c]).j = j
Job(c) == Head(todo[c])
Then(c, s) == todo' = [todo EXCEPT ![c] = s \o Tail(@)]
Stop(c) == todo' = [todo EXCEPT ![c] = <<>>]
Mentioned(k, i) == \E c \in Clients : \E n \in DOMAIN todo[c] :
                      k \in DOMAIN todo[c][n] /\ todo[c][n][k] = i

Start(c, op, s) ==
    /\ todo[c] = <<>> /\ op \in load.ops[c]
    /\ load.serial => \A d \in Clients : todo[d] = <<>>
    /\ todo' = [todo EXCEPT ![c] = s]
    /\ UNCHANGED <<db, env, history>>
\* ensure_texture_library_enabled
StartEnabled(c, op, s) == policy.enabled /\ Start(c, op, s)

UpdateWardrobeTexture(c) == \E u \in Users, t \in Live, v \in Visibilities :
    Start(c, "visibility", <<[j |-> "vread", u |-> u, t |-> t, v |-> v]>>)
ReplaceWardrobeContent(c) == \E u \in Users, t \in Live, k \in load.contents :
    Start(c, "replace", <<[j |-> "rread", u |-> u, t |-> t, k |-> k]>>)
SubmitReview(c) == \E u \in Users, t \in Live :
    StartEnabled(c, "submit", <<[j |-> "sread", u |-> u, t |-> t]>>)
WithdrawSubmission(c) == \E u \in Users, t \in Live :
    StartEnabled(c, "withdraw", <<[j |-> "wread", u |-> u, t |-> t]>>)
CopyPublicTexture(c) == \E u \in Users, t \in Live :
    StartEnabled(c, "copy", <<[j |-> "cread", u |-> u, t |-> t]>>)
ReplaceWardrobeTags(c) == \E u \in Users, t \in Live, gs \in SUBSET LiveTags :
    Start(c, "retag", <<[j |-> "tread", u |-> u, t |-> t], [j |-> "tcheck", t |-> t, gs |-> gs]>>)
CreateReport(c) == \E u \in Users, t \in Live :
    StartEnabled(c, "report", <<[j |-> "preport", u |-> u, t |-> t]>>)
Approve(c) == \E t \in Live, gs \in {None} \cup SUBSET LiveTags :
    StartEnabled(c, "approve", <<[j |-> "aread", t |-> t, gs |-> gs]>>)
Reject(c) == \E t \in Live : StartEnabled(c, "reject", <<[j |-> "jread", t |-> t]>>)
Unpublish(c) == \E t \in Live : StartEnabled(c, "unpublish", <<[j |-> "uread", t |-> t]>>)
AcceptReport(c) == \E r \in LiveReports :
    StartEnabled(c, "accept", <<[j |-> "hread", r |-> r, verdict |-> "accepted"]>>)
RejectReport(c) == \E r \in LiveReports :
    StartEnabled(c, "dismiss", <<[j |-> "hread", r |-> r, verdict |-> "rejected"]>>)
CreateTag(c) == \E n \in Names : Start(c, "tags", <<[j |-> "gfind", n |-> n, g |-> None]>>)
UpdateTag(c) == \E g \in LiveTags, n \in Names : Start(c, "tags", <<[j |-> "gfind", n |-> n, g |-> g]>>)
DeleteTag(c) == \E g \in LiveTags : Start(c, "tags", <<[j |-> "gdel", g |-> g]>>)

\* A row is new: what happened to an earlier one of its number is forgotten.
Forget(t) == cleared' = {x \in cleared : x[1] # t} /\ overtaken' = {x \in overtaken : x[1] # t}

\* An upload is private until its owner publishes it; a fresh row each time
\* (a reused one changes nothing here).
UploadTexture(c) ==
    /\ todo[c] = <<>> /\ "upload" \in load.ops[c]
    /\ load.serial => \A d \in Clients : todo[d] = <<>>
    /\ \E t \in load.texs \ Live, u \in Users, k \in load.contents, v \in Visibilities :
          /\ ~ Mentioned("t", t)
          /\ tex' = [tex EXCEPT ![t] = [owner |-> u, content |-> k, vis |-> v, status |-> "private"]]
          /\ Forget(t)
    /\ UNCHANGED <<tags, tagged, reports, env, todo>>

-----------------------------------------------------------------------------
(* The owner.                                                              *)

\* user_wardrobe_texture
Owned(x) == tex[x.t] # None /\ tex[x.t].owner = x.u
Read(c, j, next) ==
    /\ At(c, j)
    /\ IF Owned(Job(c)) THEN Then(c, next) ELSE Stop(c)
    /\ UNCHANGED <<db, env, history>>
\* The write of a column by id fails when the row is gone.
Write(c, row) == IF tex[Job(c).t] = None THEN Stop(c) /\ tex' = tex
                 ELSE /\ tex' = [tex EXCEPT ![Job(c).t] = row]
                      /\ Then(c, <<>>)
Status(t, s) == IF tex[t] = None THEN None ELSE [tex[t] EXCEPT !.status = s]

VisibilityRead(c) == Read(c, "vread", <<[j |-> "vwrite", t |-> Job(c).t, v |-> Job(c).v]>>)
\* Making a texture private takes it out of the library; making it public
\* leaves its status alone.
VisibilityWrite(c) ==
    /\ At(c, "vwrite")
    /\ LET x == Job(c) IN
          Write(c, IF tex[x.t] = None THEN None
                   ELSE [tex[x.t] EXCEPT !.vis = x.v, !.status = IF x.v = "private" THEN "private" ELSE @])
    /\ UNCHANGED <<tags, tagged, reports, env, history>>

ReplaceRead(c) ==
    /\ At(c, "rread")
    /\ LET x == Job(c) IN
          IF Owned(x) /\ tex[x.t].content # x.k
          THEN Then(c, <<[j |-> "rwrite", t |-> x.t, k |-> x.k, snap |-> tex[x.t]]>>)
          ELSE Stop(c)
    /\ UNCHANGED <<db, env, history>>
\* Mutant: a replacement keeps the library status.
ReplaceWriteKeepsStatus(c) ==
    /\ At(c, "rwrite")
    /\ LET x == Job(c) IN
          Write(c, IF tex[x.t] = None THEN None ELSE [tex[x.t] EXCEPT !.content = x.k])
    /\ UNCHANGED <<tags, tagged, reports, env, history>>
\* The compare-and-set retries with the row it finds, so it succeeds against
\* whatever the row has become.
ReplaceWrite(c) ==
    /\ At(c, "rwrite")
    /\ LET x == Job(c) IN
          Write(c, IF tex[x.t] = None THEN None
                   ELSE [tex[x.t] EXCEPT !.content = x.k, !.status = "private"])
    /\ UNCHANGED <<tags, tagged, reports, env, history>>
\* The attempts run out.
ReplaceConflict(c) ==
    /\ At(c, "rwrite") /\ tex[Job(c).t] # Job(c).snap
    /\ Stop(c)
    /\ UNCHANGED <<db, env, history>>

SubmitRead(c) ==
    /\ At(c, "sread")
    /\ IF Owned(Job(c)) /\ tex[Job(c).t].vis = "public"
       THEN Then(c, <<[j |-> "swrite", t |-> Job(c).t]>>) ELSE Stop(c)
    /\ UNCHANGED <<db, env, history>>
SubmitWrite(c) ==
    /\ At(c, "swrite")
    /\ Write(c, Status(Job(c).t, IF policy.review THEN "pending" ELSE "published"))
    /\ cleared' = IF policy.review \/ tex[Job(c).t] = None THEN cleared
                  ELSE cleared \cup {<<Job(c).t, tex[Job(c).t].content>>}
    /\ UNCHANGED <<tags, tagged, reports, env, overtaken>>

WithdrawRead(c) == Read(c, "wread", <<[j |-> "down", t |-> Job(c).t]>>)
\* Withdrawing, unpublishing and accepting a report all write status private.
TakeDown(c) ==
    /\ At(c, "down")
    /\ Write(c, Status(Job(c).t, "private"))
    /\ UNCHANGED <<tags, tagged, reports, env, history>>

\* Published and public: what the library lists, shows, copies and lets report.
Listed(t) == tex[t] # None /\ tex[t].vis = "public" /\ tex[t].status = "published"

CopyRead(c) ==
    /\ At(c, "cread")
    /\ LET x == Job(c)
           own == {t \in Live : tex[t].owner = x.u /\ tex[x.t] # None /\ tex[t].content = tex[x.t].content}
       IN  IF ~ Listed(x.t) \/ own # {} THEN Stop(c)
           ELSE Then(c, <<[j |-> "ccreate", u |-> x.u, t |-> x.t, k |-> tex[x.t].content]>>)
    /\ UNCHANGED <<db, env, history>>
\* The copy is private; it takes the tags the original has after the insert.
CopyCreate(c) ==
    /\ At(c, "ccreate")
    /\ \E t \in load.texs \ Live :
          /\ ~ Mentioned("t", t)
          /\ tex' = [tex EXCEPT ![t] = [owner |-> Job(c).u, content |-> Job(c).k, vis |-> "private", status |-> "private"]]
          /\ Forget(t)
          /\ Then(c, <<[j |-> "clist", t |-> Job(c).t, to |-> t]>>)
    /\ UNCHANGED <<tags, tagged, reports, env>>
TagsOf(t) == {g \in TagIds : <<t, g>> \in tagged}
CopyTags(c) ==
    /\ At(c, "clist")
    /\ LET gs == TagsOf(Job(c).t) IN
          Then(c, IF gs = {} THEN <<>> ELSE <<[j |-> "tclear", t |-> Job(c).to, gs |-> gs]>>)
    /\ UNCHANGED <<db, env, history>>

TagsRead(c) == Read(c, "tread", <<>>)
\* find_by_ids: every tag asked for exists
TagsCheck(c) ==
    /\ At(c, "tcheck")
    /\ IF Job(c).gs \subseteq LiveTags THEN Then(c, <<[j |-> "tclear", t |-> Job(c).t, gs |-> Job(c).gs]>>)
       ELSE Stop(c)
    /\ UNCHANGED <<db, env, history>>
\* replace_texture_tags: delete the bindings, then insert one after the other.
TagsClear(c) ==
    /\ At(c, "tclear")
    /\ tagged' = {b \in tagged : b[1] # Job(c).t}
    /\ Then(c, SetToSeq({[j |-> "tadd", t |-> Job(c).t, g |-> g] : g \in Job(c).gs}))
    /\ UNCHANGED <<tex, tags, reports, env, history>>
\* Mutant: the binding is inserted without its foreign keys.
TagsAddUnchecked(c) ==
    /\ At(c, "tadd")
    /\ tagged' = tagged \cup {<<Job(c).t, Job(c).g>>}
    /\ Then(c, <<>>)
    /\ UNCHANGED <<tex, tags, reports, env, history>>
\* The foreign keys and the unique index refuse the insert.
TagsAdd(c) ==
    /\ At(c, "tadd")
    /\ LET x == Job(c) IN
          IF tex[x.t] = None \/ tags[x.g] = None \/ <<x.t, x.g>> \in tagged
          THEN Stop(c) /\ tagged' = tagged
          ELSE Then(c, <<>>) /\ tagged' = tagged \cup {<<x.t, x.g>>}
    /\ UNCHANGED <<tex, tags, reports, env, history>>

\* Deleting a texture cascades to its tags and its reports.
Cascade(t) ==
    /\ tex' = [tex EXCEPT ![t] = None]
    /\ tagged' = {b \in tagged : b[1] # t}
    /\ reports' = [r \in ReportIds |-> IF reports[r] # None /\ reports[r].t = t THEN None ELSE reports[r]]
    /\ UNCHANGED <<tags, env, todo, history>>
Idle(c) == todo[c] = <<>> /\ (load.serial => \A d \in Clients : todo[d] = <<>>)
DeleteWardrobeTexture(c) == Idle(c) /\ "delete" \in load.ops[c] /\ \E t \in Live : Cascade(t)
DeleteLibraryTexture(c) == Idle(c) /\ "remove" \in load.ops[c] /\ \E t \in Live : Cascade(t)

-----------------------------------------------------------------------------
(* Review.                                                                 *)

\* The decision is about the content read here.
ApproveRead(c) ==
    /\ At(c, "aread")
    /\ LET x == Job(c)
           ok == tex[x.t] # None /\ tex[x.t].status = "pending" /\ tex[x.t].vis = "public"
       IN  IF ~ ok THEN Stop(c)
           ELSE Then(c, (IF x.gs = None THEN <<>> ELSE <<[j |-> "tcheck", t |-> x.t, gs |-> x.gs]>>)
                        \o <<[j |-> "awrite", t |-> x.t, k |-> tex[x.t].content]>>)
    /\ UNCHANGED <<db, env, history>>
\* The status is written by id, whatever the content has become.
ApproveWrite(c) ==
    /\ At(c, "awrite")
    /\ Write(c, Status(Job(c).t, "published"))
    /\ LET x == Job(c) IN
          /\ cleared' = IF tex[x.t] = None THEN cleared ELSE cleared \cup {<<x.t, x.k>>}
          /\ overtaken' = IF tex[x.t] = None \/ tex[x.t].content = x.k THEN overtaken
                          ELSE overtaken \cup {<<x.t, tex[x.t].content>>}
    /\ UNCHANGED <<tags, tagged, reports, env>>
RejectRead(c) ==
    /\ At(c, "jread")
    /\ IF tex[Job(c).t] = None \/ tex[Job(c).t].status # "pending" THEN Stop(c)
       ELSE Then(c, <<[j |-> "jwrite", t |-> Job(c).t]>>)
    /\ UNCHANGED <<db, env, history>>
RejectWrite(c) ==
    /\ At(c, "jwrite")
    /\ Write(c, Status(Job(c).t, "rejected"))
    /\ UNCHANGED <<tags, tagged, reports, env, history>>
UnpublishRead(c) ==
    /\ At(c, "uread")
    /\ IF tex[Job(c).t] = None \/ tex[Job(c).t].status # "published" THEN Stop(c)
       ELSE Then(c, <<[j |-> "down", t |-> Job(c).t], [j |-> "pending", t |-> Job(c).t]>>)
    /\ UNCHANGED <<db, env, history>>

-----------------------------------------------------------------------------
(* Reports.                                                                *)

PendingOf(t) == {r \in LiveReports : reports[r].t = t /\ reports[r].status = "pending"}
ReportRead(c) ==
    /\ At(c, "preport")
    /\ LET x == Job(c) IN
          IF ~ Listed(x.t) \/ tex[x.t].owner = x.u THEN Stop(c)
          ELSE Then(c, <<[x EXCEPT !.j = "pfind"]>>)
    /\ UNCHANGED <<db, env, history>>
ReportFind(c) ==
    /\ At(c, "pfind")
    /\ IF \E r \in PendingOf(Job(c).t) : reports[r].by = Job(c).u THEN Stop(c)
       ELSE Then(c, <<[Job(c) EXCEPT !.j = "pcreate"]>>)
    /\ UNCHANGED <<db, env, history>>
ReportCreate(c) ==
    /\ At(c, "pcreate")
    /\ IF tex[Job(c).t] = None THEN Stop(c) /\ reports' = reports
       ELSE /\ \E r \in ReportIds \ LiveReports :
                  /\ ~ Mentioned("r", r)
                  /\ reports' = [reports EXCEPT ![r] = [t |-> Job(c).t, by |-> Job(c).u, status |-> "pending"]]
            /\ Then(c, <<>>)
    /\ UNCHANGED <<tex, tags, tagged, env, history>>
\* handle_pending_for_texture: list the pending reports, accept each.
PendingList(c) ==
    /\ At(c, "pending")
    /\ Then(c, SetToSeq({[j |-> "handle", r |-> r, verdict |-> "accepted"] : r \in PendingOf(Job(c).t)}))
    /\ UNCHANGED <<db, env, history>>
\* Mutant: a report may be handled again.
HandleReadAny(c) ==
    /\ At(c, "hread")
    /\ LET x == Job(c) IN
          IF reports[x.r] = None THEN Stop(c)
          ELSE Then(c, <<[j |-> "handle", r |-> x.r, verdict |-> x.verdict]>>)
    /\ UNCHANGED <<db, env, history>>
\* pending_admin_texture_report; an accepted report takes the texture down first.
HandleRead(c) ==
    /\ At(c, "hread")
    /\ LET x == Job(c) IN
          IF reports[x.r] = None \/ reports[x.r].status # "pending" THEN Stop(c)
          ELSE Then(c, (IF x.verdict = "accepted" THEN <<[j |-> "down", t |-> reports[x.r].t]>> ELSE <<>>)
                       \o <<[j |-> "handle", r |-> x.r, verdict |-> x.verdict]>>)
    /\ UNCHANGED <<db, env, history>>
Handle(c) ==
    /\ At(c, "handle")
    /\ IF reports[Job(c).r] = None THEN Stop(c) /\ reports' = reports
       ELSE /\ reports' = [reports EXCEPT ![Job(c).r].status = Job(c).verdict]
            /\ Then(c, <<>>)
    /\ UNCHANGED <<tex, tags, tagged, env, history>>

-----------------------------------------------------------------------------
(* Tags and policy.                                                        *)

Named(n) == {g \in LiveTags : tags[g] = n}
TagFind(c) ==
    /\ At(c, "gfind")
    /\ LET x == Job(c) IN
          IF \/ x.g # None /\ tags[x.g] = None
             \/ Named(x.n) \ {x.g} # {} THEN Stop(c)
          ELSE Then(c, <<[x EXCEPT !.j = IF x.g = None THEN "gcreate" ELSE "gwrite"]>>)
    /\ UNCHANGED <<db, env, history>>
\* idx_minecraft_texture_tags_name_unique settles two concurrent creations.
TagCreate(c) ==
    /\ At(c, "gcreate")
    /\ IF Named(Job(c).n) # {} THEN Stop(c) /\ tags' = tags
       ELSE /\ \E g \in TagIds \ LiveTags : ~ Mentioned("g", g) /\ tags' = [tags EXCEPT ![g] = Job(c).n]
            /\ Then(c, <<>>)
    /\ UNCHANGED <<tex, tagged, reports, env, history>>
TagWrite(c) ==
    /\ At(c, "gwrite")
    /\ LET x == Job(c) IN
          IF tags[x.g] = None \/ Named(x.n) \ {x.g} # {} THEN Stop(c) /\ tags' = tags
          ELSE Then(c, <<>>) /\ tags' = [tags EXCEPT ![x.g] = x.n]
    /\ UNCHANGED <<tex, tagged, reports, env, history>>
TagDelete(c) ==
    /\ At(c, "gdel")
    /\ tags' = [tags EXCEPT ![Job(c).g] = None]
    /\ tagged' = {b \in tagged : b[2] # Job(c).g}
    /\ Then(c, <<>>)
    /\ UNCHANGED <<tex, reports, env, history>>
SetPolicy(c) ==
    /\ Idle(c) /\ "policy" \in load.ops[c]
    /\ policy' \in [enabled : BOOLEAN, review : BOOLEAN]
    /\ policy' # policy
    /\ UNCHANGED <<db, todo, load, faults, history>>

\* A failing statement or a crash ends the request here.
Lose(c) ==
    /\ todo[c] # <<>> /\ faults > 0
    /\ faults' = faults - 1
    /\ Stop(c)
    /\ UNCHANGED <<db, policy, load, history>>

Request(c) ==
    \/ UploadTexture(c) \/ UpdateWardrobeTexture(c) \/ ReplaceWardrobeContent(c) \/ SubmitReview(c)
    \/ WithdrawSubmission(c) \/ CopyPublicTexture(c) \/ ReplaceWardrobeTags(c) \/ DeleteWardrobeTexture(c)
    \/ CreateReport(c) \/ Approve(c) \/ Reject(c) \/ Unpublish(c) \/ DeleteLibraryTexture(c)
    \/ AcceptReport(c) \/ RejectReport(c) \/ CreateTag(c) \/ UpdateTag(c) \/ DeleteTag(c) \/ SetPolicy(c)
Work(c) ==
    \/ VisibilityRead(c) \/ VisibilityWrite(c) \/ ReplaceRead(c) \/ ReplaceWrite(c) \/ ReplaceConflict(c)
    \/ SubmitRead(c) \/ SubmitWrite(c) \/ WithdrawRead(c) \/ TakeDown(c) \/ CopyRead(c) \/ CopyCreate(c)
    \/ CopyTags(c) \/ TagsRead(c) \/ TagsCheck(c) \/ TagsClear(c) \/ TagsAdd(c) \/ ApproveRead(c)
    \/ ApproveWrite(c) \/ RejectRead(c) \/ RejectWrite(c) \/ UnpublishRead(c) \/ ReportRead(c)
    \/ ReportFind(c) \/ ReportCreate(c) \/ PendingList(c) \/ HandleRead(c) \/ Handle(c)
    \/ TagFind(c) \/ TagCreate(c) \/ TagWrite(c) \/ TagDelete(c)
Next == \E c \in Clients : Request(c) \/ Work(c) \/ Lose(c)
Spec == Init /\ [][Next]_vars

-----------------------------------------------------------------------------
(* Properties.                                                             *)

(* Types of the tables and of the history.                                 *)
TypeOK ==
    /\ tex \in [TexIds -> Texture \cup {None}] /\ tags \in [TagIds -> Names \cup {None}]
    /\ tagged \subseteq TexIds \X TagIds /\ reports \in [ReportIds -> Report \cup {None}]
    /\ policy \in [enabled : BOOLEAN, review : BOOLEAN]
    /\ load \in Workloads /\ faults \in Nat
    /\ cleared \subseteq TexIds \X Contents /\ overtaken \subseteq TexIds \X Contents

(* What the library shows was cleared in its present content: approved by  *)
(* an administrator, or submitted while no review was required, whatever   *)
(* its owner did to it since (replace_wardrobe_content_for_user and        *)
(* update_wardrobe_metadata_for_user reset the status).  Only an approval  *)
(* that a replacement overtook publishes what nobody saw, which cannot     *)
(* happen with one request at a time.                                      *)
ListedWasCleared ==
    /\ \A t \in Live : Listed(t) => <<t, tex[t].content>> \in cleared \cup overtaken
    /\ load.serial => overtaken = {}

(* With one request at a time, a private texture has no standing in the    *)
(* library: nobody can approve, report or copy it, and making it public    *)
(* again does not publish it (update_wardrobe_metadata_for_user).          *)
PrivateIsOut == load.serial => \A t \in Live : tex[t].vis = "private" => tex[t].status = "private"

(* A user has at most one open report of a texture                         *)
(* (find_pending_for_reporter_and_texture), however often they report it   *)
(* and whatever administrators did in between.                             *)
OneOpenReport == load.serial => \A r, q \in LiveReports :
    reports[r].status = "pending" /\ reports[q].status = "pending" /\ reports[r].t = reports[q].t
      /\ reports[r].by = reports[q].by => r = q

(* The tags of a texture exist and the texture does, although they are     *)
(* checked before the bindings are replaced one by one                     *)
(* (replace_texture_tags and the foreign keys behind it).                  *)
TagsExist == \A b \in tagged : tex[b[1]] # None /\ tags[b[2]] # None

(* A handled report keeps its verdict (pending_admin_texture_report,       *)
(* handle_pending_for_texture), with one administrator who handles reports *)
(* or takes textures down, or one request at a time.                       *)
Judges(c) == load.ops[c] \cap {"accept", "dismiss", "unpublish"} # {}
OneJudge == load.serial \/ \A c, d \in Clients : Judges(c) /\ Judges(d) => c = d
VerdictIsFinal ==
    [][OneJudge => \A r \in ReportIds : reports[r] # None /\ reports[r].status # "pending"
          => reports'[r] \in {reports[r], None}]_vars

(* The library's standing of a texture is right at every step: what it     *)
(* lists was cleared, and what is private is out of it.                    *)
ListingIsRight == ListedWasCleared /\ PrivateIsOut

(* Tags, reports and textures agree with each other.                       *)
LibraryConsistent == TypeOK /\ TagsExist /\ OneOpenReport
==============================================================================
